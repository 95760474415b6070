------------------------- MODULE LexerNumbers_proofs -------------------------
(***************************************************************************)
(* For every pattern, encoding and set of addresses, what the tokens that  *)
(* hold a number say: a reference is to the group whose number is written, *)
(* and a code point is the number written.                                 *)
(***************************************************************************)
EXTENDS Lexer_proofs

-----------------------------------------------------------------------------
(* Digits have the values 0 to 9, and a number does not shrink as it is read. *)
LEMMA SignIs ==
  ASSUME NEW k \in 17 .. 26, NEW i \in DOMAIN Signs, Signs[i] = Signs[k]
  PROVE  i = k
<1>1. /\ CommaSign \notin Decimal /\ LeftBrace \notin Decimal /\ RightBrace \notin Decimal
      /\ Space \notin Decimal /\ QuoteSign \notin Decimal /\ Semicolon \notin Decimal
      /\ Underscore \notin Decimal
  BY Zenon DEF CommaSign, LeftBrace, RightBrace, Space, QuoteSign, Semicolon, Underscore, Decimal, Octal
<1>2. /\ Signs[17] = "0" /\ Signs[18] = "1" /\ Signs[19] = "2" /\ Signs[20] = "3" /\ Signs[21] = "4"
      /\ Signs[22] = "5" /\ Signs[23] = "6" /\ Signs[24] = "7" /\ Signs[25] = "8" /\ Signs[26] = "9"
  BY DEF Signs
<1>3. k \in {17, 18, 19, 20, 21, 22, 23, 24, 25, 26}
  BY SMT
<1> QED BY <1>1, <1>2, <1>3 DEF Signs, Decimal, Octal

LEMMA DigitIs ==
  ASSUME NEW symbol \in Decimal
  PROVE  DigitValue(symbol) \in 0 .. 9
<1>1. Signs = Printable
  BY Zenon DEF Printable, Signs, CommaSign, LeftBrace, RightBrace, Space, QuoteSign, Semicolon,
     Underscore
<1>2. PICK k \in 17 .. 26 : Signs[k] = symbol /\ k \in DOMAIN Signs
  <2>1. \A k \in 17 .. 26 : k \in DOMAIN Signs
    BY DEF Signs
  <2>2. /\ Signs[17] = "0" /\ Signs[18] = "1" /\ Signs[19] = "2" /\ Signs[20] = "3" /\ Signs[21] = "4"
        /\ Signs[22] = "5" /\ Signs[23] = "6" /\ Signs[24] = "7" /\ Signs[25] = "8" /\ Signs[26] = "9"
    BY DEF Signs
  <2> QED BY <2>1, <2>2 DEF Decimal, Octal
<1>3. symbol # "\t" /\ symbol # "\n" /\ symbol # "\f" /\ symbol # "\r" /\ symbol # "WIDE"
  BY Zenon DEF Decimal, Octal
<1>4. (CHOOSE i \in DOMAIN Printable : Printable[i] = symbol) = k
  <2>1. \A i \in DOMAIN Printable : Printable[i] = symbol <=> i = k
    BY <1>1, <1>2, SignIs
  <2> QED BY <1>1, <1>2, <2>1
<1>5. Code(symbol) = 31 + k
  <2>1. Code(symbol) = 31 + CHOOSE i \in DOMAIN Printable : Printable[i] = symbol
    BY <1>3 DEF Code
  <2> QED BY <1>4, <2>1
<1>6. DigitValue(symbol) = Code(symbol) - 48
  BY Zenon DEF DigitValue
<1> QED BY <1>5, <1>6

LEMMA ValueIsNat ==
  ASSUME NEW lo \in Nat, NEW hi \in Nat, lo <= hi, All(lo, hi, Decimal)
  PROVE  Value(lo, hi, 10) \in Nat
<1> DEFINE T == {k \in Nat : k >= lo /\ k <= hi /\ Value(lo, k, 10) \notin Nat}
<1>1. SUFFICES ASSUME T # {} PROVE FALSE
  OBVIOUS
<1>2. PICK k \in T : \A t \in T : k <= t
  BY <1>1, Least
<1>3. k # lo
  BY <1>2, ValueOfNone
<1>4. PICK j \in Nat : k = j + 1 /\ j >= lo /\ j \notin T
  BY <1>2, <1>3
<1>5. Value(lo, k, 10) = Value(lo, j, 10) * 10 + DigitValue(pattern[k])
  BY <1>4, ValueOfNext
<1>6. DigitValue(pattern[k]) \in 0 .. 9
  BY <1>2, <1>4, DigitIs DEF All
<1>7. Value(lo, j, 10) \in Nat
  BY <1>2, <1>4
<1> QED BY <1>2, <1>5, <1>6, <1>7

LEMMA ValueGrows ==
  ASSUME NEW lo \in Nat, NEW mid \in Nat, NEW hi \in Nat, lo <= mid, mid <= hi, All(lo, hi, Decimal)
  PROVE  Value(lo, mid, 10) <= Value(lo, hi, 10)
<1> DEFINE T == {k \in Nat : k >= mid /\ k <= hi /\ ~(Value(lo, mid, 10) <= Value(lo, k, 10))}
<1>1. SUFFICES ASSUME T # {} PROVE FALSE
  OBVIOUS
<1>2. PICK k \in T : \A t \in T : k <= t
  BY <1>1, Least
<1>3. \A k1 \in Nat : k1 >= lo /\ k1 <= hi => Value(lo, k1, 10) \in Nat
  BY ValueIsNat DEF All
<1>4. k # mid
  BY <1>2, <1>3
<1>5. PICK j \in Nat : k = j + 1 /\ j >= mid /\ j \notin T
  BY <1>2, <1>4
<1>6. Value(lo, k, 10) = Value(lo, j, 10) * 10 + DigitValue(pattern[k])
  BY <1>5, ValueOfNext
<1>7. DigitValue(pattern[k]) \in 0 .. 9
  BY <1>2, <1>5, DigitIs DEF All
<1>8. Value(lo, mid, 10) <= Value(lo, j, 10) /\ Value(lo, j, 10) \in Nat /\ Value(lo, mid, 10) \in Nat
  BY <1>2, <1>3, <1>5
<1> QED BY <1>2, <1>6, <1>7, <1>8

(* The test that keeps a number from exceeding its limit.                    *)
LEMMA ExceedsIs ==
  ASSUME NEW value \in Nat, NEW digit \in 0 .. 9, NEW limit \in Nat
  PROVE  Exceeds(value, digit, limit) <=> value * 10 + digit > limit
BY DEF Exceeds

(* Where digits end.                                                         *)
LEMMA RunEndIs ==
  ASSUME NEW lo \in Nat, NEW hi \in Nat, lo <= hi, hi <= Len(pattern), Len(pattern) \in Nat,
         All(lo, hi, Decimal), NotDigit(hi)
  PROVE  RunEnd(lo, Decimal) = hi
<1>1. hi \in lo .. Len(pattern) /\ All(lo, hi, Decimal) /\ (hi < Len(pattern) => pattern[hi + 1] \notin Decimal)
  BY DEF NotDigit
<1>2. ASSUME NEW end \in lo .. Len(pattern), All(lo, end, Decimal),
             end < Len(pattern) => pattern[end + 1] \notin Decimal
      PROVE  end = hi
  <2>1. CASE end < hi
    <3>1. end + 1 \in lo + 1 .. hi
      BY <2>1
    <3> QED BY <1>2, <2>1, <3>1 DEF All
  <2>2. CASE hi < end
    <3>1. hi + 1 \in lo + 1 .. end
      BY <2>2
    <3> QED BY <1>1, <1>2, <2>2, <3>1 DEF All
  <2> QED BY <2>1, <2>2
<1> QED BY <1>1, <1>2 DEF RunEnd

LEMMA RunEnds ==
  ASSUME NEW lo \in Nat, NEW mid \in Nat, lo <= mid, mid <= Len(pattern), Len(pattern) \in Nat,
         All(lo, mid, Decimal)
  PROVE  /\ RunEnd(lo, Decimal) \in Nat /\ mid <= RunEnd(lo, Decimal)
         /\ RunEnd(lo, Decimal) <= Len(pattern) /\ All(lo, RunEnd(lo, Decimal), Decimal)
<1> DEFINE T == {hi \in Nat : mid <= hi /\ hi <= Len(pattern) /\ NotDigit(hi)}
<1>1. Len(pattern) \in T
  BY DEF NotDigit
<1>2. PICK hi \in T : \A t \in T : hi <= t
  <2>1. T \subseteq Nat /\ T # {}
    BY <1>1
  <2> HIDE DEF T
  <2> QED BY <2>1, Least
<1>3. ASSUME NEW i \in lo + 1 .. hi PROVE pattern[i] \in Decimal
  <2>1. CASE i <= mid
    BY <2>1 DEF All
  <2>2. CASE i > mid
    <3>1. i - 1 \in Nat /\ mid <= i - 1 /\ i - 1 < hi /\ i - 1 + 1 = i /\ hi <= Len(pattern)
      BY <1>2, <2>2
    <3>2. i - 1 \notin T
      BY <1>2, <3>1
    <3> QED BY <3>1, <3>2 DEF NotDigit
  <2> QED BY <2>1, <2>2
<1>4. All(lo, hi, Decimal)
  BY <1>3 DEF All
<1>5. RunEnd(lo, Decimal) = hi
  BY <1>2, <1>4, RunEndIs
<1> QED BY <1>2, <1>4, <1>5

-----------------------------------------------------------------------------
(* The captures opened: by the tokens before the last one, or by all.        *)
OpenedNow == Cardinality({i \in 1 .. Len(tokens) : tokens[i].type \in Captures})
Counting == num_capture_groups = IF pc = "idle" THEN OpenedBefore ELSE OpenedNow

(* Between two calls the lexer adds a token, and nothing else to what was    *)
(* read.                                                                     *)
Adds ==
  /\ UNCHANGED <<encoding, pattern, num_capture_groups, options>>
  /\ IF pc' = "idle" THEN tokens' = Append(tokens, tok') /\ tok'.lo = local.lo /\ tok'.hi = pos'
                     ELSE tokens' = tokens

LEMMA StepAdds ==
  ASSUME HasShape(local), Next, pc # "idle", pc = "number" => local.number.after # "idle"
  PROVE  Adds
<1> USE DEF Advance, Warn, Read, Retry, ReadByte, OpenName, AppendToName, Deliver, LiteralBrace,
            Emit, EmitAt, EmitWarned, EmitReleasing, AfterReference,
            Fail, FailAt, FailHere, FailReleasing, Unterminated, Incomplete, OutOfMemory, Unclosed,
            ParserVars, InputVars, Adds
<1>0. /\ \A n, where, l : where # "idle" /\ Advance(n, where, l) => Adds
      /\ \A n, type, data : Emit(n, type, data) => Adds
      /\ \A n, type, data, warning : EmitWarned(n, type, data, warning) => Adds
      /\ \A n, number, l : Read(n, number, l) => Adds
      /\ \A n, code, lo : Fail(n, code, lo) => Adds
      /\ \A n : Incomplete(n) => Adds
      /\ \A at, code, span : FailAt(at, code, span) => Adds
      /\ OpenName => Adds
      /\ LiteralBrace => Adds
  <2>1. \A n, where, l : where # "idle" /\ Advance(n, where, l) => Adds
    OBVIOUS
  <2>2. ASSUME NEW n, NEW type, NEW data, Emit(n, type, data)
        PROVE  Adds
    <3>1. EmitReleasing({}, pos + n, type, data)
      BY <2>2
    <3>2. PICK token : /\ pos' = pos + n /\ pc' = "idle" /\ tok' = token /\ token.lo = local.lo
                       /\ token.hi = pos + n /\ tokens' = Append(tokens, token) /\ UNCHANGED ParserVars
      BY <3>1
    <3> QED BY <3>2
  <2>3. \A n, type, data, warning : EmitWarned(n, type, data, warning) => Adds
    OBVIOUS
  <2>4. \A n, number, l : Read(n, number, l) => Adds
    OBVIOUS
  <2>5. \A n, code, lo : Fail(n, code, lo) => Adds
    OBVIOUS
  <2>6. \A n : Incomplete(n) => Adds
    OBVIOUS
  <2>7. \A at, code, span : FailAt(at, code, span) => Adds
    OBVIOUS
  <2>8. OpenName => Adds
    OBVIOUS
  <2>9. LiteralBrace => Adds
    OBVIOUS
  <2> HIDE DEF Advance, Emit, EmitWarned, Read, Fail, Incomplete, FailAt, OpenName, LiteralBrace, Adds
  <2> QED BY <2>1, <2>2, <2>3, <2>4, <2>5, <2>6, <2>7, <2>8, <2>9
<1>1. CASE LexToken
  <2>1. LexEnd \/ SkipWhitespace \/ OpenComment \/ Comment => Adds
    BY DEF LexEnd, SkipWhitespace, OpenComment, Comment
  <2>2. LexSimple => Adds
    BY DEF LexSimple
  <2>3. LexLiteral \/ LexQuantifier \/ OpenBounds => Adds
    <3> HIDE DEF Advance, Emit, EmitWarned, Read, Fail, Incomplete, FailAt, OpenName, LiteralBrace, Adds
    <3> QED BY <1>0 DEF LexLiteral, LexQuantifier, OpenBounds
  <2>4. LexMin \/ LexComma => Adds
    <3> HIDE DEF Advance, Emit, EmitWarned, Read, Fail, Incomplete, FailAt, OpenName, LiteralBrace, Adds
    <3> QED BY <1>0 DEF LexMin, LexComma
  <2>5. LexMax \/ LexBoundsEnd => Adds
    <3> HIDE DEF Advance, Emit, EmitWarned, Read, Fail, Incomplete, FailAt, OpenName, LiteralBrace, Adds
    <3> QED BY <1>0 DEF LexMax, LexBoundsEnd
  <2>6. LexQuantifierType \/ OpenGroup => Adds
    BY DEF LexQuantifierType, OpenGroup
  <2>7. LexSpecifier => Adds
    <3> HIDE DEF Advance, Emit, EmitWarned, Read, Fail, Incomplete, FailAt, OpenName, LiteralBrace, Adds
    <3> QED BY <1>0 DEF LexSpecifier
  <2>8. LexLookbehind \/ LexCondition \/ LexConditionClose => Adds
    <3> HIDE DEF Advance, Emit, EmitWarned, Read, Fail, Incomplete, FailAt, OpenName, LiteralBrace, Adds
    <3> QED BY <1>0 DEF LexLookbehind, LexCondition, LexConditionClose
  <2>9. LexOption => Adds
    BY DEF LexOption
  <2> QED BY <1>1, <2>1, <2>2, <2>3, <2>4, <2>5, <2>6, <2>7, <2>8, <2>9, Zenon DEF LexToken
<1>2. CASE LexReferences
  <2>1. LexReference => Adds
    BY DEF LexReference
  <2>2. LexSign => Adds
    BY DEF LexSign
  <2>3. LexNumbered => Adds
    BY DEF LexNumbered
  <2>4. LexDepth => Adds
    BY DEF LexDepth
  <2>5. LexClose => Adds
    BY DEF LexClose
  <2>6. LexName => Adds
    BY DEF LexName
  <2>7. TrimName => Adds
    BY DEF TrimName
  <2>8. LexNamed => Adds
    <3> HIDE DEF Advance, Emit, EmitWarned, Read, Fail, Incomplete, FailAt, OpenName, LiteralBrace, Adds
    <3>1. \A addresses, hi, type, data : EmitReleasing(addresses, hi, type, data) => Adds
      BY DEF Adds
    <3> HIDE DEF EmitReleasing, FailHere
    <3>2. \A n, code : FailHere(n, code) => Adds
      BY <1>0 DEF FailHere
    <3> QED BY <1>0, <3>1, <3>2 DEF LexNamed
  <2> QED BY <1>2, <2>1, <2>2, <2>3, <2>4, <2>5, <2>6, <2>7, <2>8, Zenon DEF LexReferences
<1>3. CASE LexEscapes
  <2>1. OpenEscape => Adds
    BY DEF OpenEscape
  <2>2. LexEscapedAssertion \/ LexEscapedType => Adds
    BY DEF LexEscapedAssertion, LexEscapedType
  <2>3. LexProperty => Adds
    <3> HIDE DEF Advance, Emit, EmitWarned, Read, Fail, Incomplete, FailAt, OpenName, LiteralBrace, Adds
    <3> QED BY <1>0 DEF LexProperty
  <2>4. LexNamedReference => Adds
    BY DEF LexNamedReference
  <2>5. LexBare => Adds
    BY DEF LexBare
  <2>6. LexCommonEscape => Adds
    BY DEF LexCommonEscape
  <2>7. LexEscape => Adds
    BY DEF LexEscape
  <2>8. LexNumberedByte \/ LexMeta => Adds
    BY DEF LexNumberedByte, LexMeta
  <2>9. LexControl => Adds
    BY DEF LexControl
  <2>10. LexBytes => Adds
    BY DEF LexBytes
  <2>11. LexUnicode => Adds
    BY DEF LexUnicode
  <2>12. LexUnicodeNumber => Adds
    BY DEF LexUnicodeNumber
  <2>13. LexBrace => Adds
    BY DEF LexBrace
  <2>14. LexBraceNumber => Adds
    BY DEF LexBraceNumber
  <2>15. CASE LexBraceNext
    <3>1. Advance(1, "brace_next", local) \/ Unclosed => Adds
      OBVIOUS
    <3>2. \A data : Deliver(1, data, FALSE) \/ Deliver(0, data, TRUE) => Adds
      OBVIOUS
    <3> QED BY <2>15, <3>1, <3>2 DEF LexBraceNext
  <2> QED BY <1>3, <2>1, <2>2, <2>3, <2>4, <2>5, <2>6, <2>7, <2>8, <2>9, <2>10, <2>11, <2>12,
             <2>13, <2>14, <2>15, Zenon DEF LexEscapes
<1>4. InvalidBytes => Adds
  BY DEF InvalidBytes
<1>5. NumberDigit \/ NumberTooLarge \/ NumberEnd => Adds
  BY DEF NumberDigit, NumberTooLarge, NumberEnd, AtDigit
<1>6. ~Lex
  BY DEF Lex
<1> QED BY <1>1, <1>2, <1>3, <1>4, <1>5, <1>6 DEF Next

LEMMA NumberAfter ==
  ASSUME LexerInv
  PROVE  pc = "number" => local.number.after \in Afters /\ local.number.after # "idle"
BY DEF LexerInv, Located, Afters

(* lex counts the captures before it reads the next token.                   *)
LEMMA LexCounts ==
  ASSUME Covered, Counting, Lex
  PROVE  Counting'
<1>1. /\ pc = "idle" /\ pc' # "idle" /\ tokens' = tokens
      /\ num_capture_groups' = num_capture_groups + (IF tok.type \in Captures THEN 1 ELSE 0)
  BY DEF Lex
<1>2. PICK n \in Nat : n = Len(tokens) /\ n # 0
  <2>1. tokens # <<>> /\ IsSequence(tokens)
    BY <1>1 DEF Covered, TokenStands
  <2> QED BY <2>1, LongerBy
<1>3. tokens[n] = tok
  BY <1>1, <1>2 DEF Covered, TokenStands
<1> DEFINE before == {i \in 1 .. n - 1 : tokens[i].type \in Captures}
           now == {i \in 1 .. n : tokens[i].type \in Captures}
<1>4. IsFiniteSet(before)
  <2>1. IsFiniteSet(1 .. n - 1)
    BY FS_Interval
  <2>2. before \in SUBSET (1 .. n - 1)
    OBVIOUS
  <2> QED BY <2>1, <2>2, FS_Subset
<1>5. now = IF tok.type \in Captures THEN before \cup {n} ELSE before
  BY <1>2, <1>3
<1>6. n \notin before
  OBVIOUS
<1>7. Cardinality(now) = Cardinality(before) + (IF tok.type \in Captures THEN 1 ELSE 0)
  <2>1. Cardinality(before) \in Nat
    BY <1>4, FS_CardinalityType
  <2>2. Cardinality(before \cup {n}) = Cardinality(before) + 1
    BY <1>4, <1>6, FS_AddElement
  <2> HIDE DEF before, now
  <2> QED BY <1>5, <2>1, <2>2
<1>8. num_capture_groups = Cardinality(before)
  BY <1>1, <1>2 DEF Counting, OpenedBefore
<1>9. OpenedNow' = Cardinality(now)
  BY <1>1, <1>2 DEF OpenedNow
<1> QED BY <1>1, <1>7, <1>8, <1>9 DEF Counting

LEMMA StepCounts ==
  ASSUME LexerInv, Covered, Counting, Next
  PROVE  Counting'
<1>1. CASE pc = "idle"
  BY <1>1, IdleSteps, LexCounts
<1>2. CASE pc # "idle"
  <2>1. Adds
    BY <1>2, StepAdds, NumberAfter DEF LexerInv, Located
  <2>2. num_capture_groups = OpenedNow
    BY <1>2 DEF Counting
  <2>3. CASE pc' # "idle"
    BY <2>1, <2>2, <2>3 DEF Adds, Counting, OpenedNow
  <2>4. CASE pc' = "idle"
    <3>1. tokens' = Append(tokens, tok')
      BY <2>1, <2>4 DEF Adds
    <3>2. PICK T : tokens \in Seq(T)
      BY DEF Covered, IsSequence
    <3>3. PICK R : R = T \cup {tok'}
      OBVIOUS
    <3>4. tokens \in Seq(R) /\ tok' \in R
      BY <3>2, <3>3
    <3>5. /\ Len(tokens') = Len(tokens) + 1 /\ Len(tokens) \in Nat
          /\ \A i \in 1 .. Len(tokens) : tokens'[i] = tokens[i]
      BY <3>1, <3>4
    <3>6. PICK n \in Nat : n = Len(tokens)
      BY <3>5
    <3>7. Len(tokens') - 1 = n
      BY <3>5, <3>6
    <3>8. {i \in 1 .. n : tokens'[i].type \in Captures} = {i \in 1 .. n : tokens[i].type \in Captures}
      BY <3>5, <3>6
    <3>9. OpenedBefore' = OpenedNow
      BY <3>6, <3>7, <3>8 DEF OpenedBefore, OpenedNow
    <3> QED BY <2>1, <2>2, <2>4, <3>9 DEF Adds, Counting
  <2> QED BY <2>3, <2>4
<1> QED BY <1>1, <1>2

-----------------------------------------------------------------------------
(* Where a name may be held, copied or not.                                  *)
Holds == name.type # "NONE" => pc \in MayHold /\ (pc = "number" => local.number.after \in MayHold)
StillHeld == MayHold \ {"number"}

LEMMA HoldingForms ==
  ASSUME HasShape(local)
  PROVE  /\ \A n, l : \A where \in StillHeld : Advance(n, where, l) => Holds'
         /\ \A n, where, l : name.type = "NONE" /\ Advance(n, where, l) => Holds'
         /\ \A n, l, warning, condition, where :
              name.type = "NONE" /\ Warn(condition, warning, n, where, l) => Holds'
         /\ \A n, base, most, limit, error_code, after, l :
              (name.type = "NONE" \/ after \in MayHold) /\ "number" \in DOMAIN l
                /\ Read(n, Number(base, most, limit, error_code, after), l) => Holds'
         /\ \A addresses, hi, type, data : EmitReleasing(addresses, hi, type, data) => Holds'
         /\ \A addresses, at, code, span : FailReleasing(addresses, at, code, span) => Holds'
         /\ OpenName => Holds'
         /\ \A bytes, is_next, n, l : \A where \in StillHeld :
              AppendToName(bytes, is_next, n, where, l) => Holds'
<1>1. ASSUME NEW n, NEW where \in StillHeld, NEW l, Advance(n, where, l) PROVE Holds'
  BY <1>1 DEF Advance, Holds, StillHeld
<1>2. ASSUME NEW n, NEW where, NEW l, name.type = "NONE", Advance(n, where, l) PROVE Holds'
  BY <1>2 DEF Advance, Holds
<1>3. ASSUME NEW n, NEW l, NEW warning, NEW condition, NEW where, name.type = "NONE",
             Warn(condition, warning, n, where, l)
      PROVE  Holds'
  BY <1>3 DEF Warn, Holds
<1>4. ASSUME NEW n, NEW base, NEW most, NEW limit, NEW error_code, NEW after, NEW l,
             name.type = "NONE" \/ after \in MayHold, "number" \in DOMAIN l,
             Read(n, Number(base, most, limit, error_code, after), l)
      PROVE  Holds'
  <2>1. PICK number : number = [Number(base, most, limit, error_code, after) EXCEPT !.lo = pos + n]
    OBVIOUS
  <2>2. number.after = after
    BY <2>1 DEF Number
  <2>3. PICK new : new = [l EXCEPT !.number = number]
    OBVIOUS
  <2>4. new.number = number
    BY <1>4, <2>3
  <2>5. Advance(n, "number", new)
    BY <1>4, <2>1, <2>3 DEF Read
  <2> QED BY <1>4, <2>2, <2>4, <2>5 DEF Advance, Holds, MayHold
<1>5. ASSUME NEW addresses, NEW hi, NEW type, NEW data, EmitReleasing(addresses, hi, type, data)
      PROVE  Holds'
  BY <1>5 DEF EmitReleasing, Holds, NoName
<1>6. ASSUME NEW addresses, NEW at, NEW code, NEW span, FailReleasing(addresses, at, code, span)
      PROVE  Holds'
  BY <1>6 DEF FailReleasing, Holds, NoName
<1>7. OpenName => Holds'
  BY DEF OpenName, Holds, MayHold
<1>8. ASSUME NEW bytes, NEW is_next, NEW n, NEW l, NEW where \in StillHeld,
             AppendToName(bytes, is_next, n, where, l)
      PROVE  Holds'
  <2>1. OutOfMemory(n) => Holds'
    BY <1>6 DEF OutOfMemory, FailHere, Fail, FailAt
  <2>2. pc' = where => Holds'
    BY DEF Holds, StillHeld
  <2> QED BY <1>8, <2>1, <2>2 DEF AppendToName
<1> QED BY <1>1, <1>2, <1>3, <1>4, <1>5, <1>6, <1>7, <1>8

LEMMA StepHolds ==
  ASSUME HasShape(local), Holds, pc = "number" => local.number.after \in Afters, Next
  PROVE  Holds'
<1>1. "number" \in DOMAIN local
  BY DEF HasShape, Fields
<1>2. /\ \A n, l : \A where \in StillHeld : Advance(n, where, l) => Holds'
      /\ \A n, where, l : name.type = "NONE" /\ Advance(n, where, l) => Holds'
      /\ \A n, l, warning, condition, where :
           name.type = "NONE" /\ Warn(condition, warning, n, where, l) => Holds'
  BY HoldingForms
<1>3. \A n, base, most, limit, error_code, after, l :
        (name.type = "NONE" \/ after \in MayHold) /\ "number" \in DOMAIN l
          /\ Read(n, Number(base, most, limit, error_code, after), l) => Holds'
  BY HoldingForms
<1>4. /\ OpenName => Holds'
      /\ \A bytes, is_next, n, l : \A where \in StillHeld :
           AppendToName(bytes, is_next, n, where, l) => Holds'
  BY HoldingForms
<1>5. /\ \A addresses, hi, type, data : EmitReleasing(addresses, hi, type, data) => Holds'
      /\ \A addresses, at, code, span : FailReleasing(addresses, at, code, span) => Holds'
  BY HoldingForms
<1>6. /\ \A at, code, span : FailAt(at, code, span) => Holds'
      /\ \A n, code, lo : Fail(n, code, lo) => Holds'
      /\ \A n, code : FailHere(n, code) => Holds'
      /\ \A n : Incomplete(n) => Holds'
      /\ \A n : OutOfMemory(n) => Holds'
      /\ Unclosed => Holds'
      /\ Unterminated => Holds'
  <2>1. \A at, code, span : FailAt(at, code, span) => Holds'
    BY <1>5 DEF FailAt
  <2>2. \A n, code, lo : Fail(n, code, lo) => Holds'
    BY <2>1 DEF Fail
  <2>3. \A n, code : FailHere(n, code) => Holds'
    BY <2>2 DEF FailHere
  <2>4. \A n : Incomplete(n) => Holds'
    BY <2>2 DEF Incomplete
  <2>5. (\A n : OutOfMemory(n) => Holds') /\ (Unclosed => Holds')
    BY <2>3 DEF OutOfMemory, Unclosed
  <2>6. Unterminated => Holds'
    BY <2>2, <2>3, <2>4 DEF Unterminated
  <2> QED BY <2>1, <2>2, <2>3, <2>4, <2>5, <2>6
<1>7. /\ \A hi, type, data : EmitAt(hi, type, data) => Holds'
      /\ \A n, type, data : Emit(n, type, data) => Holds'
      /\ \A n, type, data, warning : EmitWarned(n, type, data, warning) => Holds'
  BY <1>5 DEF EmitAt, Emit, EmitWarned
<1>8. pc \notin MayHold => name.type = "NONE"
  BY DEF Holds
<1>9. Lex \/ InvalidBytes => Holds'
  BY <1>5 DEF Lex, InvalidBytes, Holds, MayHold
<1>10. CASE LexToken
  <2>1. CASE pc = "condition_close"
    <3>1. LexConditionClose
      BY <1>10, <2>1 DEF LexToken, LexEnd, SkipWhitespace, OpenComment, Comment, LexSimple, LexLiteral,
         LexQuantifier, OpenBounds, LexMin, LexComma, LexMax, LexBoundsEnd, LexQuantifierType,
         OpenGroup, LexSpecifier, LexLookbehind, LexCondition, LexOption, At, Other
    <3> QED BY <1>6, <1>7, <3>1 DEF LexConditionClose
  <2>2. CASE pc # "condition_close"
    <3>0. name.type = "NONE"
      BY <1>8, <1>10, <2>2
         DEF MayHold, LexToken, LexEnd, SkipWhitespace, OpenComment, Comment, LexSimple, LexLiteral,
         LexQuantifier, OpenBounds, LexMin, LexComma, LexMax, LexBoundsEnd, LexQuantifierType,
         OpenGroup, LexSpecifier, LexLookbehind, LexCondition, LexConditionClose, LexOption, At, Other
    <3>1. LexEnd \/ SkipWhitespace \/ OpenComment \/ Comment => Holds'
      BY <1>2, <1>7, <3>0 DEF LexEnd, SkipWhitespace, OpenComment, Comment, Retry
    <3>2. LexSimple => Holds'
      BY <1>7 DEF LexSimple
    <3>3. LexLiteral => Holds'
      BY <1>7 DEF LexLiteral
    <3>4. LexQuantifier \/ OpenBounds => Holds'
      BY <1>2, <3>0 DEF LexQuantifier, OpenBounds
    <3>5. LiteralBrace => Holds'
      BY <1>7 DEF LiteralBrace
    <3>6. LexMin => Holds'
      <4>1. "number" \in DOMAIN [local EXCEPT !.explicit = TRUE]
        BY <1>1
      <4> QED BY <1>2, <1>3, <3>0, <3>5, <4>1 DEF LexMin, Bound, DecimalNumber
    <3>7. LexComma => Holds'
      BY <1>2, <3>0, <3>5 DEF LexComma
    <3>8. LexMax => Holds'
      <4>1. "number" \in DOMAIN [local EXCEPT !.has_max = TRUE]
        BY <1>1
      <4> QED BY <1>2, <1>3, <3>0, <3>5, <4>1 DEF LexMax, Bound, DecimalNumber
    <3>9. LexBoundsEnd => Holds'
      BY <1>2, <1>6, <3>0, <3>5 DEF LexBoundsEnd
    <3>10. LexQuantifierType \/ OpenGroup => Holds'
      BY <1>2, <1>7, <3>0 DEF LexQuantifierType, OpenGroup
    <3>11. LexSpecifier => Holds'
      BY <1>2, <1>6, <1>7, <3>0 DEF LexSpecifier
    <3>12. LexLookbehind \/ LexCondition => Holds'
      BY <1>2, <1>6, <1>7, <3>0 DEF LexLookbehind, LexCondition
    <3>13. LexConditionClose => Holds'
      BY <1>6, <1>7 DEF LexConditionClose
    <3>14. LexOption => Holds'
      BY <1>2, <1>6, <1>7, <3>0 DEF LexOption
    <3> QED BY <1>10, <3>1, <3>2, <3>3, <3>4, <3>6, <3>7, <3>8, <3>9, <3>10, <3>11, <3>12, <3>13, <3>14,
               Zenon DEF LexToken
  <2> QED BY <2>1, <2>2
<1>11. CASE LexReferences
  <2>1. LexReference => Holds'
    <3>1. pc = "reference" => name.type = "NONE"
      BY <1>8 DEF MayHold
    <3>2. "number" \in DOMAIN [local EXCEPT !.num_lo = pos]
      BY <1>1
    <3>3. LexReference => name.type = "NONE"
      BY <3>1 DEF LexReference, At, Other
    <3>4. name.type = "NONE" /\ Read(0, CaptureNumber, [local EXCEPT !.num_lo = pos]) => Holds'
      BY <1>3, <3>2 DEF CaptureNumber, DecimalNumber
    <3>5. name.type = "NONE" /\ Advance(1, "sign", [local EXCEPT !.num_lo = pos, !.sign = -1]) => Holds'
      BY <1>2
    <3> QED BY <1>4, <1>6, <3>3, <3>4, <3>5 DEF LexReference
  <2>2. LexSign => Holds'
    <3>1. pc = "sign" => name.type = "NONE"
      BY <1>8 DEF MayHold
    <3> QED BY <1>1, <1>3, <1>6, <3>1 DEF LexSign, At, Other, CaptureNumber, DecimalNumber
  <2>3. LexNumbered => Holds'
    <3>1. pc = "numbered" => name.type = "NONE"
      BY <1>8 DEF MayHold
    <3> QED BY <1>2, <1>6, <3>1 DEF LexNumbered
  <2>4. LexDepth => Holds'
    <3>1. AfterReference \in StillHeld /\ "depth_sign" \in StillHeld /\ "depth_read" \in MayHold
      BY DEF AfterReference, StillHeld, MayHold
    <3> QED BY <1>1, <1>2, <1>3, <1>6, <3>1 DEF LexDepth, CaptureDepth, DecimalNumber
  <2>5. LexClose => Holds'
    <3>1. "condition_close" \in StillHeld
      BY DEF StillHeld, MayHold
    <3>2. Advance(1, "condition_close", [local EXCEPT !.name_hi = pos]) => Holds'
      BY <1>2, <3>1
    <3> QED BY <1>6, <1>7, <3>2 DEF LexClose
  <2>6. LexName => Holds'
    <3>1. {"name", "name_escape", "unicode", "escape"} \subseteq StillHeld
      BY DEF StillHeld, MayHold
    <3>2. \A n, l : Advance(n, "name_escape", l) \/ Advance(n, "unicode", l) \/ Advance(n, "escape", l) => Holds'
      BY <1>2, <3>1
    <3>3. \A bytes, is_next, n, l : AppendToName(bytes, is_next, n, "name", l) => Holds'
      BY <1>4, <3>1
    <3> QED BY <1>6, <3>2, <3>3 DEF LexName
  <2>7. TrimName => Holds'
    <3>1. pc' = "named" => Holds'
      BY DEF Holds, MayHold
    <3> QED BY <1>6, <3>1 DEF TrimName
  <2>8. LexNamed => Holds'
    <3>1. {"depth", "close"} \subseteq StillHeld
      BY DEF StillHeld, MayHold
    <3> QED BY <1>2, <1>5, <1>6, <3>1 DEF LexNamed
  <2> QED BY <1>11, <2>1, <2>2, <2>3, <2>4, <2>5, <2>6, <2>7, <2>8, Zenon DEF LexReferences
<1>12. CASE LexEscapes
  <2>0. pc \in {"token", "escaped", "property", "named_reference", "carriage_return", "bare"} =>
          name.type = "NONE"
    BY <1>8 DEF MayHold
  <2>1. OpenEscape => Holds'
    BY <1>2, <2>0 DEF OpenEscape, At
  <2>2. LexEscapedAssertion \/ LexEscapedType => Holds'
    BY <1>7 DEF LexEscapedAssertion, LexEscapedType
  <2>3. CASE LexProperty
    <3>1. pc \in {"escaped", "property", "negation"} => name.type = "NONE"
      BY <1>8 DEF MayHold
    <3>2. \/ OpenName \/ (\E data, warning : EmitWarned(0, "CODE", data, warning))
          \/ pc \in {"escaped", "property", "negation"} /\ \E n, where, l : Advance(n, where, l)
      BY <2>3, Zenon DEF LexProperty, At, Other
    <3> QED BY <1>2, <1>4, <1>7, <3>1, <3>2
  <2>4. LexNamedReference => Holds'
    BY <1>2, <1>7, <2>0 DEF LexNamedReference, At, Other
  <2>5. LexBare => Holds'
    <3>1. "escape" \in StillHeld
      BY DEF StillHeld, MayHold
    <3> QED BY <1>1, <1>2, <1>3, <1>7, <2>0, <3>1 DEF LexBare, At, DecimalNumber
  <2>6. LexCommonEscape => Holds'
    BY <1>2, <1>6, <1>7, <2>0 DEF LexCommonEscape, At, Other, Retry
  <2>7. {"escape", "bytes", "meta", "meta_code", "control", "control_code", "brace_open", "brace_next",
         "name", "in_brace"} \subseteq StillHeld
      /\ {"hex_byte", "octal_byte", "unicode_number", "brace_number"} \subseteq MayHold
    BY DEF StillHeld, MayHold
  <2>8. \A n, byte : ReadByte(n, byte) => Holds'
    BY <1>2, <2>7 DEF ReadByte
  <2>9. \A n, data, is_unclosed : Deliver(n, data, is_unclosed) => Holds'
    BY <1>4, <1>6, <1>7, <2>7 DEF Deliver
  <2>10. LexEscape => Holds'
    BY <1>1, <1>2, <1>3, <1>6, <2>7, <2>8 DEF LexEscape
  <2>11. LexNumberedByte \/ LexMeta => Holds'
    BY <1>2, <1>6, <2>7, <2>8 DEF LexNumberedByte, LexMeta
  <2>12. LexControl => Holds'
    BY <1>2, <1>6, <2>7, <2>8 DEF LexControl
  <2>13. LexBytes => Holds'
    BY <1>2, <1>6, <2>7, <2>9 DEF LexBytes
  <2>14. LexUnicode \/ LexUnicodeNumber => Holds'
    BY <1>1, <1>2, <1>3, <1>6, <2>7, <2>9 DEF LexUnicode, LexUnicodeNumber
  <2>15. LexBrace \/ LexBraceNumber \/ LexBraceNext => Holds'
    <3>1. \A n, l : Advance(n, "brace_open", l) \/ Advance(n, "brace_next", l) => Holds'
      BY <1>2, <2>7
    <3>2. \A n : Read(n, BraceNumber, local) => Holds'
      BY <1>1, <1>3, <2>7 DEF BraceNumber
    <3>3. LexBrace => Holds'
      BY <1>6, <3>1, <3>2 DEF LexBrace
    <3>4. LexBraceNumber => Holds'
      BY <1>6, <3>1 DEF LexBraceNumber
    <3>5. LexBraceNext => Holds'
      BY <1>6, <2>9, <3>1 DEF LexBraceNext
    <3> QED BY <3>3, <3>4, <3>5
  <2> QED BY <1>12, <2>1, <2>2, <2>3, <2>4, <2>5, <2>6, <2>10, <2>11, <2>12, <2>13, <2>14, <2>15,
             Zenon DEF LexEscapes
<1>13. CASE NumberDigit \/ NumberTooLarge \/ NumberEnd
  <2>0. pc = "number"
    BY <1>13 DEF NumberDigit, NumberTooLarge, NumberEnd, AtDigit
  <2>1. local.number.after # "number"
    BY <2>0 DEF Afters
  <2>2. local.number.after \in StillHeld \/ name.type = "NONE"
    BY <2>0, <2>1 DEF Holds, StillHeld
  <2>3. NumberTooLarge \/ NumberEnd => Holds'
    BY <1>2, <1>6, <2>2 DEF NumberTooLarge, NumberEnd
  <2>4. NumberDigit => Holds'
    <3>1. PICK l : l = [local EXCEPT !.number.value = Appended(DigitValue(Peek)), !.number.digits = @ + 1]
      OBVIOUS
    <3>2. l.number.after = local.number.after
      BY <3>1 DEF HasShape, Fields
    <3>3. NumberDigit => Advance(1, "number", l)
      BY <3>1 DEF NumberDigit
    <3> QED BY <2>0, <3>2, <3>3 DEF Advance, Holds
  <2> QED BY <1>13, <2>3, <2>4
<1> QED BY <1>9, <1>10, <1>11, <1>12, <1>13 DEF Next

-----------------------------------------------------------------------------
(* A number after a bare backslash, and what it is.                          *)
StartsBare(lo) ==
  lo + 1 < Len(pattern) /\ pattern[lo + 1] = "\\" /\ pattern[lo + 2] \in Decimal \ {"0"}
BareValue(lo) == Value(lo + 1, RunEnd(lo + 1, Decimal), 10)
IsGroup(lo) ==
  /\ BareValue(lo) <= bare_back_ref_max_num_limit
  /\ BareValue(lo) <= 9 \/ BareValue(lo) <= num_capture_groups

(* A decimal number read from lo to p.                                       *)
CountFields == {"base", "most", "limit", "error", "after", "value", "digits", "overflowed"}
Counts(lo, p, n) ==
  /\ lo <= p /\ All(lo, p, Decimal) /\ (lo = p => ~NotDigit(p))
  /\ CountFields \subseteq DOMAIN n
  /\ n.base = 10 /\ n.most = Len(pattern) /\ n.overflowed = FALSE
  /\ n.digits = p - lo /\ n.value = Value(lo, p, 10)

(* Within an escape for a byte.                                              *)
BytePoints == {"escape", "hex_byte", "octal_byte", "meta", "meta_code", "control", "control_code", "bytes"}
ByteEscape(where, l) ==
  where \in BytePoints \/ (where = "number" /\ l.number.after \in {"hex_byte", "octal_byte"})

BareAt(where, l, p, held) ==
  /\ where = "number" /\ l.number.after = "bare" =>
       /\ StartsBare(l.lo) /\ Counts(l.lo + 1, p, l.number) /\ l.number.error = "INTERNAL_ERROR"
       /\ l.number.limit = bare_back_ref_max_num_limit
       /\ l.number.value <= bare_back_ref_max_num_limit
  /\ where = "bare" =>
       /\ StartsBare(l.lo)
       /\ IF l.number.overflowed THEN BareValue(l.lo) > bare_back_ref_max_num_limit
          ELSE /\ p = RunEnd(l.lo + 1, Decimal) /\ l.number.value = BareValue(l.lo)
               /\ BareValue(l.lo) <= bare_back_ref_max_num_limit
  /\ StartsBare(l.lo) /\ l.lo < p /\ where \notin {"escaped", "idle", "failed"} /\ ~IsBare(where, l) =>
       ByteEscape(where, l) /\ held = "NONE" /\ ~IsGroup(l.lo)

BareToken ==
  pc = "idle" /\ StartsBare(tok.lo) /\ tok.lo < tok.hi =>
    IF IsGroup(tok.lo)
      THEN tok.type = "BACK_REF" /\ tok.hi = RunEnd(tok.lo + 1, Decimal) /\ tok.data.num = BareValue(tok.lo)
      ELSE tok.type = "CODE"

BareRead == BareAt(pc, local, pos, name.type) /\ BareToken

(* The rest of what was read does not depend on what changes.                *)
SameText == UNCHANGED <<encoding, pattern, num_capture_groups>>

LEMMA SameBare ==
  ASSUME SameText, NEW lo
  PROVE  /\ StartsBare(lo)' = StartsBare(lo)
         /\ RunEnd(lo, Decimal)' = RunEnd(lo, Decimal)
         /\ BareValue(lo)' = BareValue(lo)
         /\ IsGroup(lo)' = IsGroup(lo)
<1>1. pattern' = pattern /\ encoding' = encoding /\ num_capture_groups' = num_capture_groups
  BY DEF SameText
<1>2. StartsBare(lo)' = StartsBare(lo)
  BY <1>1 DEF StartsBare
<1>3. \A from : RunEnd(from, Decimal)' = RunEnd(from, Decimal)
  BY <1>1 DEF RunEnd, All
<1>4. PICK hi : hi = RunEnd(lo + 1, Decimal)
  OBVIOUS
<1>5. Value(lo + 1, hi, 10)' = Value(lo + 1, hi, 10)
  BY <1>1, SameValue
<1>6. BareValue(lo)' = BareValue(lo)
  <2>1. RunEnd(lo + 1, Decimal)' = hi
    BY <1>3, <1>4
  <2> QED BY <1>4, <1>5, <2>1 DEF BareValue
<1>7. IsGroup(lo)' = IsGroup(lo)
  BY <1>1, <1>6 DEF IsGroup
<1> QED BY <1>2, <1>3, <1>6, <1>7

LEMMA SameCounts ==
  ASSUME SameText, NEW lo, NEW p, NEW n
  PROVE  Counts(lo, p, n)' = Counts(lo, p, n)
BY SameValue, SameAll, SameDigits DEF Counts, SameText

LEMMA SameBareAt ==
  ASSUME SameText, NEW where, NEW l, NEW p, NEW held
  PROVE  BareAt(where, l, p, held)' = BareAt(where, l, p, held)
BY SameBare, SameCounts, Zenon DEF BareAt, ByteEscape, IsBare

(* The next state stands at another point.                                   *)
LEMMA StillBare ==
  ASSUME SameText, NEW where, NEW l, NEW p, NEW held, BareAt(where, l, p, held), where # "idle",
         pc' = where, local' = l, pos' = p, name'.type = held
  PROVE  BareRead'
<1>1. BareAt(where, l, p, held)'
  BY SameBareAt
<1>2. BareAt(pc, local, pos, name.type)'
  BY <1>1, Zenon DEF BareAt, ByteEscape, IsBare
<1>3. BareToken'
  BY DEF BareToken
<1> QED BY <1>2, <1>3 DEF BareRead

(* Nothing bare has been read.                                               *)
Clear ==
  /\ ~IsBare(pc', local')
  /\ pc' \notin {"escaped", "idle", "failed"} =>
       \/ local'.lo = pos' /\ pos' \in Nat
       \/ SameText /\ local'.lo = local.lo /\ ~StartsBare(local.lo)
  /\ pc' = "idle" => SameText /\ tok'.lo = local.lo /\ ~StartsBare(local.lo)

LEMMA ClearKeeps ==
  ASSUME Clear
  PROVE  BareRead'
<1>1. ~IsBare(pc, local)'
  BY DEF Clear, IsBare
<1>2. CASE pc' \in {"escaped", "failed"}
  BY <1>1, <1>2 DEF BareRead, BareAt, BareToken, IsBare
<1>3. CASE pc' = "idle"
  <2>1. PICK lo : lo = local.lo
    OBVIOUS
  <2>2. StartsBare(lo)' = StartsBare(lo)
    BY <1>3, SameBare DEF Clear
  <2>3. ~StartsBare(tok.lo)'
    BY <1>3, <2>1, <2>2 DEF Clear, StartsBare
  <2> QED BY <1>1, <1>3, <2>3 DEF BareRead, BareAt, BareToken, IsBare
<1>4. CASE pc' \notin {"escaped", "idle", "failed"} /\ local'.lo = pos' /\ pos' \in Nat
  <2>1. ~(local'.lo < pos')
    BY <1>4
  <2> QED BY <1>1, <1>4, <2>1 DEF BareRead, BareAt, BareToken, IsBare
<1>5. CASE pc' \notin {"escaped", "idle", "failed"} /\ SameText /\ local'.lo = local.lo /\ ~StartsBare(local.lo)
  <2>1. PICK lo : lo = local.lo
    OBVIOUS
  <2>2. StartsBare(lo)' = StartsBare(lo)
    BY <1>5, SameBare
  <2>3. ~StartsBare(local.lo)'
    BY <1>5, <2>1, <2>2 DEF StartsBare
  <2> QED BY <1>1, <1>5, <2>3 DEF BareRead, BareAt, BareToken, IsBare
<1> QED BY <1>2, <1>3, <1>4, <1>5 DEF Clear

(* An escape for a byte goes on until it fails or is a code.                 *)
LEMMA CodeSteps ==
  ASSUME HasShape(local), Next, pc \in BytePoints, name.type = "NONE"
  PROVE  \/ pc' = "failed"
         \/ pc' = "idle" /\ tok'.type = "CODE"
         \/ pc' # "idle" /\ ByteEscape(pc', local') /\ name' = name
<1> DEFINE Goes == \/ pc' = "failed"
                   \/ pc' = "idle" /\ tok'.type = "CODE"
                   \/ pc' # "idle" /\ ByteEscape(pc', local') /\ name' = name
<1>1. \A n, l : \A where \in BytePoints : Advance(n, where, l) => Goes
  BY DEF Advance, ByteEscape, BytePoints
<1>2. \A n, code, lo : Fail(n, code, lo) => Goes
  BY DEF Fail, FailAt, FailReleasing
<1>3. \A at, code, span : FailAt(at, code, span) \/ FailReleasing({}, at, code, span) => Goes
  BY DEF FailAt, FailReleasing
<1>4. ASSUME NEW n, NEW base, NEW most, NEW after \in {"hex_byte", "octal_byte"},
             Read(n, Number(base, most, 0, "SUCCESS", after), local)
      PROVE  Goes
  <2>1. PICK number : number = [Number(base, most, 0, "SUCCESS", after) EXCEPT !.lo = pos + n]
    OBVIOUS
  <2>2. number.after = after
    BY <2>1 DEF Number
  <2>3. PICK new : new = [local EXCEPT !.number = number]
    OBVIOUS
  <2>4. new.number = number
    BY <2>3 DEF HasShape, Fields
  <2>5. Advance(n, "number", new)
    BY <1>4, <2>1, <2>3 DEF Read
  <2> QED BY <1>4, <2>2, <2>4, <2>5 DEF Advance, ByteEscape
<1>5. \A data, is_unclosed : Deliver(0, data, is_unclosed) => Goes
  BY DEF Deliver, EmitAt, EmitReleasing
<1>6. \A n, byte : ReadByte(n, byte) => Goes
  BY <1>1 DEF ReadByte, BytePoints
<1> HIDE DEF Goes
<1>7. ~Lex /\ ~NumberDigit /\ ~NumberTooLarge /\ ~NumberEnd
  BY DEF Lex, NumberDigit, NumberTooLarge, NumberEnd, AtDigit, BytePoints
<1>8. ~LexToken
  BY DEF LexToken, LexEnd, SkipWhitespace, OpenComment, Comment, LexSimple, LexLiteral,
     LexQuantifier, OpenBounds, LexMin, LexComma, LexMax, LexBoundsEnd, LexQuantifierType,
     OpenGroup, LexSpecifier, LexLookbehind, LexCondition, LexConditionClose, LexOption, At, Other,
     BytePoints
<1>9. ~LexReferences
  BY DEF LexReferences, LexReference, LexSign, LexNumbered, LexDepth, LexClose, LexName,
     TrimName, LexNamed, At, Other, BytePoints
<1>10. ~(\/ OpenEscape \/ LexEscapedAssertion \/ LexEscapedType \/ LexProperty \/ LexNamedReference
         \/ LexBare \/ LexCommonEscape \/ LexUnicode \/ LexUnicodeNumber \/ LexBrace \/ LexBraceNumber
         \/ LexBraceNext)
  BY DEF OpenEscape, LexEscapedAssertion, LexEscapedType, LexProperty, LexNamedReference,
     LexBare, LexCommonEscape, LexUnicode, LexUnicodeNumber, LexBrace, LexBraceNumber, LexBraceNext,
     At, Other, BytePoints
<1>11. InvalidBytes => Goes
  BY DEF InvalidBytes, FailReleasing, Goes
<1>12. {"meta", "meta_code", "control", "control_code", "escape", "bytes"} \subseteq BytePoints
  BY DEF BytePoints
<1>13. LexEscape => Goes
  BY <1>1, <1>2, <1>3, <1>4, <1>6, <1>12 DEF LexEscape
<1>14. LexNumberedByte \/ LexMeta => Goes
  BY <1>1, <1>2, <1>6, <1>12 DEF LexNumberedByte, LexMeta
<1>15. LexControl => Goes
  BY <1>1, <1>2, <1>6, <1>12 DEF LexControl
<1>16. LexBytes => Goes
  BY <1>1, <1>2, <1>5, <1>12 DEF LexBytes
<1>17. Goes
  BY <1>7, <1>8, <1>9, <1>10, <1>11, <1>13, <1>14, <1>15, <1>16 DEF Next, LexEscapes
<1> QED BY <1>17 DEF Goes

LEMMA ClearForms ==
  ASSUME HasShape(local), pos \in Nat
  PROVE  /\ \A n \in Nat : Retry(n) => Clear
         /\ \A addresses, at, code, span : FailReleasing(addresses, at, code, span) => Clear
         /\ ~StartsBare(local.lo) =>
              /\ \A n, where, l : where \notin {"idle", "bare", "number"} /\ l.lo = local.lo
                                    /\ Advance(n, where, l) => Clear
              /\ \A addresses, hi, type, data : EmitReleasing(addresses, hi, type, data) => Clear
<1>1. ASSUME NEW n \in Nat, Retry(n) PROVE Clear
  <2>1. local' = Local(pos + n) /\ pos' = pos + n /\ pc' = "token"
    BY <1>1 DEF Retry, Advance
  <2> QED BY <2>1 DEF Clear, Local, IsBare
<1>2. ASSUME NEW addresses, NEW at, NEW code, NEW span, FailReleasing(addresses, at, code, span)
      PROVE  Clear
  BY <1>2 DEF FailReleasing, Clear, IsBare
<1>3. ASSUME ~StartsBare(local.lo), NEW n, NEW where, NEW l, where \notin {"idle", "bare", "number"},
             l.lo = local.lo, Advance(n, where, l)
      PROVE  Clear
  BY <1>3 DEF Advance, Clear, IsBare, SameText, ParserVars, InputVars
<1>4. ASSUME ~StartsBare(local.lo), NEW addresses, NEW hi, NEW type, NEW data,
             EmitReleasing(addresses, hi, type, data)
      PROVE  Clear
  BY <1>4 DEF EmitReleasing, Clear, IsBare, SameText, ParserVars, InputVars
<1> QED BY <1>1, <1>2, <1>3, <1>4

LEMMA ClearTokens ==
  ASSUME HasShape(local), pos \in Nat
  PROVE  /\ \A at, code, span : FailAt(at, code, span) => Clear
         /\ \A n, code, lo : Fail(n, code, lo) => Clear
         /\ \A n, code : FailHere(n, code) => Clear
         /\ \A n : Incomplete(n) => Clear
         /\ ~StartsBare(local.lo) =>
              /\ \A n, type, data : Emit(n, type, data) => Clear
              /\ \A n, type, data, warning : EmitWarned(n, type, data, warning) => Clear
<1>1. \A at, code, span : FailAt(at, code, span) => Clear
  BY ClearForms DEF FailAt
<1>2. \A n, code, lo : Fail(n, code, lo) => Clear
  BY <1>1 DEF Fail
<1>3. \A n, code : FailHere(n, code) => Clear
  BY <1>2 DEF FailHere
<1>4. \A n : Incomplete(n) => Clear
  BY <1>2 DEF Incomplete
<1>5. ~StartsBare(local.lo) =>
        /\ \A n, type, data : Emit(n, type, data) => Clear
        /\ \A n, type, data, warning : EmitWarned(n, type, data, warning) => Clear
  BY ClearForms DEF Emit, EmitWarned, EmitAt
<1> QED BY <1>1, <1>2, <1>3, <1>4, <1>5

LEMMA TokenClear ==
  ASSUME LexerInv, Covered, Next, pc = "token"
  PROVE  Clear
<1>0. /\ local.lo \in Nat /\ pos = local.lo /\ pos \in Nat /\ HasShape(local)
      /\ Peek = "END" => pos = Len(pattern)
      /\ Peek # "END" => pos < Len(pattern) /\ Peek = pattern[pos + 1]
      /\ Len(pattern) \in Nat
  BY PlaceInText
<1>1. Peek # "\\" => ~StartsBare(local.lo)
  BY <1>0 DEF StartsBare
<1>2. /\ \A addresses, at, code, span : FailReleasing(addresses, at, code, span) => Clear
      /\ Peek # "\\" =>
           /\ \A n, where, l : where \notin {"idle", "bare", "number"} /\ l.lo = local.lo
                                 /\ Advance(n, where, l) => Clear
           /\ \A n, type, data : Emit(n, type, data) => Clear
           /\ \A n, type, data, warning : EmitWarned(n, type, data, warning) => Clear
  BY <1>0, <1>1, ClearForms, ClearTokens
<1>3. CASE Peek # "\\"
  <2>1. LexEnd => Clear
    BY <1>2, <1>3 DEF LexEnd
  <2>2. SkipWhitespace => Clear
    BY <1>0, ClearForms DEF SkipWhitespace
  <2>3. OpenComment => Clear
    <3>1. PICK l : l = [local EXCEPT !.terminator = "\n"]
      OBVIOUS
    <3>2. l.lo = local.lo
      BY <1>0, <3>1 DEF HasShape, Fields
    <3>3. Advance(1, "comment", l) => Clear
      BY <1>2, <1>3, <3>2
    <3> QED BY <3>1, <3>3 DEF OpenComment
  <2>4. LexSimple => Clear
    BY <1>2, <1>3 DEF LexSimple
  <2>5. LexLiteral => Clear
    BY <1>2, <1>3 DEF LexLiteral
  <2>6. LexQuantifier => Clear
    <3>1. PICK l : l = [local EXCEPT !.min = IF Peek = "+" THEN 1 ELSE 0, !.has_max = Peek = "?",
                                     !.max = IF Peek = "?" THEN 1 ELSE 0]
      OBVIOUS
    <3>2. l.lo = local.lo
      BY <1>0, <3>1 DEF HasShape, Fields
    <3>3. Advance(1, "greed", l) => Clear
      BY <1>2, <1>3, <3>2
    <3> QED BY <3>1, <3>3 DEF LexQuantifier
  <2>7. OpenBounds => Clear
    BY <1>2, <1>3, Zenon DEF OpenBounds
  <2>8. OpenGroup => Clear
    BY <1>2, <1>3 DEF OpenGroup
  <2>9. ~OpenEscape
    BY <1>3 DEF OpenEscape, At
  <2> QED BY <1>2, <2>1, <2>2, <2>3, <2>4, <2>5, <2>6, <2>7, <2>8, <2>9, TokenSteps DEF InvalidBytes
<1>4. CASE Peek = "\\"
  <2>1. OpenEscape => Clear
    BY DEF OpenEscape, Advance, Clear, IsBare
  <2>2. LexLiteral => FALSE
    BY <1>4, Zenon DEF LexLiteral, Other, Special
  <2>3. ~(LexEnd \/ SkipWhitespace \/ OpenComment \/ LexSimple \/ LexQuantifier \/ OpenGroup)
    BY <1>4, Blank DEF LexEnd, SkipWhitespace, OpenComment, LexSimple, LexQuantifier, OpenGroup, At, Other
  <2>4. ~OpenBounds
    <3>1. "\\" # "{"
      BY Zenon
    <3> QED BY <1>4, <3>1, Zenon DEF OpenBounds, At
  <2> QED BY <1>2, <2>1, <2>2, <2>3, <2>4, TokenSteps DEF InvalidBytes
<1> QED BY <1>3, <1>4

LEMMA CommentClear ==
  ASSUME LexerInv, Covered, Next, pc \in {"comment", "group", "specifier"}
  PROVE  Clear
<1>0. /\ local.lo \in Nat /\ pos \in Nat /\ HasShape(local) /\ OpeningAt(pc, local, pos)
  BY PlaceInText
<1>1. ~StartsBare(local.lo)
  BY <1>0, Blank DEF OpeningAt, CommentAt, StartsBare
<1>2. /\ \A n \in Nat : Retry(n) => Clear
      /\ \A addresses, at, code, span : FailReleasing(addresses, at, code, span) => Clear
      /\ \A n, where, l : where \notin {"idle", "bare", "number"} /\ l.lo = local.lo
                            /\ Advance(n, where, l) => Clear
  BY <1>0, <1>1, ClearForms
<1>3. /\ \A n, type, data : Emit(n, type, data) => Clear
      /\ \A n : Incomplete(n) => Clear
      /\ \A at, code, span : FailAt(at, code, span) => Clear
  BY <1>0, <1>1, ClearTokens
<1>4. Comment => Clear
  BY <1>2 DEF Comment
<1>5. OpenGroup => Clear
  BY <1>2, <1>3 DEF OpenGroup
<1>6. \A kind, quote, lo : Reference(kind, quote, lo).lo = local.lo
  BY <1>0 DEF Reference, HasShape, Fields
<1>7. LexSpecifier => Clear
  <2>1. PICK l, o : l = [local EXCEPT !.terminator = ")"] /\ o = [local EXCEPT !.option = options]
    OBVIOUS
  <2>2. l.lo = local.lo /\ o.lo = local.lo
    BY <1>0, <2>1 DEF HasShape, Fields
  <2>3. /\ Advance(1, "comment", l) \/ Advance(0, "option", o) => Clear
        /\ Advance(1, "lookbehind", local) \/ Advance(1, "condition", local) => Clear
        /\ Advance(1, "reference", Reference("group", "'", pos + 1)) => Clear
    BY <1>2, <1>6, <2>2
  <2> QED BY <1>3, <2>1, <2>3 DEF LexSpecifier
<1>8. InvalidBytes => Clear
  BY <1>2 DEF InvalidBytes
<1>9. pc # "comment" => OpenGroup \/ LexSpecifier \/ InvalidBytes
  <2>1. pc # "option" => ~LexOption
    BY DEF LexOption, At, Other
  <2> QED BY <2>1, OptionPoints DEF OfOptions
<1> QED BY <1>4, <1>5, <1>7, <1>8, <1>9, CommentSteps

LEMMA OtherEscapeClear ==
  ASSUME LexerInv, Covered, Next, pc \in {"escaped", "carriage_return"}, ~LexBare,
         ~StartsBare(local.lo)
  PROVE  Clear
<1>0. /\ local.lo \in Nat /\ pos \in Nat /\ HasShape(local)
  BY PlaceInText
<1>2. /\ \A n \in Nat : Retry(n) => Clear
      /\ \A addresses, at, code, span : FailReleasing(addresses, at, code, span) => Clear
      /\ \A n, where, l : where \notin {"idle", "bare", "number"} /\ l.lo = local.lo
                            /\ Advance(n, where, l) => Clear
  BY <1>0, ClearForms
<1>3. /\ \A n, type, data : Emit(n, type, data) => Clear
      /\ \A n, code : FailHere(n, code) => Clear
  BY <1>0, ClearTokens
<1>4. LexEscapedAssertion \/ LexEscapedType => Clear
  BY <1>3 DEF LexEscapedAssertion, LexEscapedType
<1>5. CASE LexProperty
  <2>1. PICK l : l = [local EXCEPT !.positive = Peek = "p"]
    OBVIOUS
  <2>2. l.lo = local.lo
    BY <1>0, <2>1 DEF HasShape, Fields
  <2>3. Advance(1, "property", l)
    BY <1>5, <2>1 DEF LexProperty, At, Other
  <2> QED BY <1>2, <2>2, <2>3
<1>6. CASE LexNamedReference
  <2>1. Advance(1, "named_reference", local)
    BY <1>6 DEF LexNamedReference, At, Other
  <2> QED BY <1>2, <2>1
<1>7. LexCommonEscape => Clear
  BY <1>2, <1>3 DEF LexCommonEscape
<1>8. InvalidBytes => Clear
  BY <1>2 DEF InvalidBytes
<1> QED BY <1>4, <1>5, <1>6, <1>7, <1>8, EscapedSteps

LEMMA LexBareBegins ==
  ASSUME LexerInv, Covered, pc = "escaped", LexBare
  PROVE  BareRead'
<1>0. /\ local.lo \in Nat /\ pos = local.lo + 1 /\ pos \in Nat /\ HasShape(local) /\ Len(pattern) \in Nat
      /\ Peek # "END" => pos < Len(pattern) /\ Peek = pattern[pos + 1]
      /\ pattern[local.lo + 1] = "\\"
  BY PlaceInText DEF OpeningAt
<1>1. /\ Peek \in Decimal \ {"0"}
      /\ Read(0, DecimalNumber(bare_back_ref_max_num_limit, "INTERNAL_ERROR", "bare"), local)
  BY DEF LexBare, At
<1>2. Peek # "END"
  BY <1>1 DEF Decimal, Octal
<1>3. PICK n : n = [DecimalNumber(bare_back_ref_max_num_limit, "INTERNAL_ERROR", "bare") EXCEPT !.lo = pos + 0]
  OBVIOUS
<1>4. /\ CountFields \subseteq DOMAIN n /\ n.base = 10 /\ n.most = Len(pattern) /\ n.overflowed = FALSE
      /\ n.digits = 0 /\ n.value = 0 /\ n.error = "INTERNAL_ERROR" /\ n.after = "bare"
      /\ n.limit = bare_back_ref_max_num_limit
  BY <1>3 DEF DecimalNumber, Number, CountFields
<1>5. PICK l : l = [local EXCEPT !.number = n]
  OBVIOUS
<1>6. l.number = n /\ l.lo = local.lo
  BY <1>0, <1>5 DEF HasShape, Fields
<1>7. Advance(0, "number", l)
  BY <1>1, <1>3, <1>5 DEF Read
<1>8. pc' = "number" /\ local' = l /\ pos' = pos /\ name' = name /\ SameText
  BY <1>0, <1>7 DEF Advance, SameText, ParserVars, InputVars
<1>9. StartsBare(l.lo)
  BY <1>0, <1>1, <1>2, <1>6 DEF StartsBare
<1>10. Counts(l.lo + 1, pos, n)
  <2>1. All(pos, pos, Decimal)
    BY <1>0 DEF All
  <2>2. ~NotDigit(pos)
    BY <1>0, <1>1, <1>2 DEF NotDigit
  <2>3. Value(pos, pos, 10) = 0
    BY <1>0, ValueOfNone
  <2>4. l.lo + 1 = pos
    BY <1>0, <1>6
  <2> QED BY <1>0, <1>4, <2>1, <2>2, <2>3, <2>4 DEF Counts
<1>11. n.value <= bare_back_ref_max_num_limit
  BY <1>4, LexerAssumption
<1>12. PICK p, held : p = pos /\ held = name.type
  OBVIOUS
<1>13. BareAt("number", l, p, held)
  BY <1>4, <1>6, <1>9, <1>10, <1>11, <1>12 DEF BareAt, IsBare
<1> QED BY <1>8, <1>12, <1>13, StillBare

LEMMA EscapedBare ==
  ASSUME LexerInv, Covered, Next, pc \in {"escaped", "carriage_return"}
  PROVE  BareRead'
<1>0. /\ local.lo \in Nat /\ pos \in Nat /\ HasShape(local) /\ Len(pattern) \in Nat
      /\ Peek # "END" => pos < Len(pattern) /\ Peek = pattern[pos + 1]
      /\ Peek = "END" => pos = Len(pattern)
      /\ OpeningAt(pc, local, pos)
  BY PlaceInText
<1>1. CASE LexBare
  <2>1. pc = "escaped"
    BY <1>1 DEF LexBare, At
  <2> QED BY <1>1, <2>1, LexBareBegins
<1>2. CASE ~LexBare
  <2>1. CASE pc = "carriage_return"
    <3>1. "\r" \notin Decimal
      BY Zenon DEF Decimal, Octal
    <3>2. ~StartsBare(local.lo)
      BY <1>0, <2>1, <3>1 DEF OpeningAt, StartsBare
    <3> QED BY <1>2, <3>2, OtherEscapeClear, ClearKeeps
  <2>2. CASE pc = "escaped" /\ Peek \notin Decimal \ {"0"}
    <3>1. pos = local.lo + 1
      BY <1>0, <2>2 DEF OpeningAt
    <3>2. ~StartsBare(local.lo)
      BY <1>0, <2>2, <3>1 DEF StartsBare
    <3> QED BY <1>2, <2>2, <3>2, OtherEscapeClear, ClearKeeps
  <2>3. CASE pc = "escaped" /\ Peek \in Decimal \ {"0"}
    <3>1. ~LexEscapedAssertion /\ ~LexEscapedType /\ ~LexProperty /\ ~LexNamedReference
      BY <2>3 DEF LexEscapedAssertion, LexEscapedType, CharTypes, LexProperty, LexNamedReference,
         At, Other, Decimal, Octal
    <3>2. ~LexCommonEscape
      BY <2>3 DEF LexCommonEscape, ByteEscapes, Escaped, CharTypes, At, Other, Decimal, Octal
    <3>3. InvalidBytes
      BY <1>2, <2>3, <3>1, <3>2, EscapedSteps
    <3>4. Clear
      BY <1>0, <3>3, ClearForms DEF InvalidBytes
    <3> QED BY <3>4, ClearKeeps
  <2> QED BY <2>1, <2>2, <2>3
<1> QED BY <1>1, <1>2

(* The digits: one more, one too many, or none.                              *)
LEMMA BareDigit ==
  ASSUME LexerInv, Covered, BareRead, pc = "number", local.number.after = "bare",
         NumberDigit \/ NumberTooLarge
  PROVE  BareRead'
<1>0. /\ HasShape(local) /\ pos \in Nat /\ Len(pattern) \in Nat /\ local.lo \in Nat /\ pos <= Len(pattern)
  BY PlaceInText
<1>1. PICK n, lo : n = local.number /\ lo = local.lo + 1 /\ lo \in Nat
  BY <1>0
<1>2. /\ StartsBare(local.lo) /\ Counts(lo, pos, n) /\ n.error = "INTERNAL_ERROR"
      /\ n.limit = bare_back_ref_max_num_limit /\ n.value <= n.limit /\ n.after = "bare"
  BY <1>1 DEF BareRead, BareAt
<1>3. /\ CountFields \subseteq DOMAIN n /\ n.base = 10 /\ n.most = Len(pattern) /\ n.overflowed = FALSE
      /\ n.digits = pos - lo /\ n.value = Value(lo, pos, 10) /\ lo <= pos /\ All(lo, pos, Decimal)
  BY <1>2 DEF Counts
<1>4. AtDigit
  BY DEF NumberDigit, NumberTooLarge
<1>5. Peek = pattern[pos + 1] /\ pattern[pos + 1] \in Decimal
  BY <1>1, <1>3, <1>4, DigitThere
<1>6. pos < Len(pattern)
  <2>1. Peek # "END"
    BY <1>5 DEF Decimal, Octal
  <2> QED BY <2>1, PlaceInText
<1>7. PICK q, digit : q \in Nat /\ q = pos + 1 /\ digit = DigitValue(pattern[q])
  BY <1>0
<1>8. digit \in 0 .. 9
  BY <1>5, <1>7, DigitIs
<1>9. Value(lo, q, 10) = n.value * 10 + digit /\ n.value \in Nat
  BY <1>1, <1>0, <1>3, <1>7, ValueOfNext, ValueIsNat
<1>10. All(lo, q, Decimal) /\ lo <= q /\ q # lo
  BY <1>1, <1>0, <1>3, <1>5, <1>7 DEF All
<1>11. Exceeds(n.value, digit, n.limit) <=> Value(lo, q, 10) > n.limit
  BY <1>2, <1>8, <1>9, ExceedsIs, LexerAssumption
<1>12. IsTooLarge <=> Exceeds(n.value, digit, n.limit)
  BY <1>1, <1>3, <1>5, <1>7 DEF IsTooLarge
<1>13. PICK held : held = name.type
  OBVIOUS
<1>14. CASE NumberDigit
  <2>1. PICK m : m = [n EXCEPT !.value = Appended(DigitValue(Peek)), !.digits = @ + 1]
    OBVIOUS
  <2>2. PICK l : l = [local EXCEPT !.number = m]
    OBVIOUS
  <2>3. Advance(1, "number", l)
    BY <1>1, <1>14, <2>1, <2>2 DEF NumberDigit
  <2>4. l.number = m /\ l.lo = local.lo
    BY <1>0, <2>2 DEF HasShape, Fields
  <2>5. /\ CountFields \subseteq DOMAIN m /\ m.base = 10 /\ m.most = Len(pattern) /\ m.overflowed = FALSE
        /\ m.digits = n.digits + 1 /\ m.error = n.error /\ m.limit = n.limit /\ m.after = "bare"
        /\ m.value = n.value * 10 + digit
    BY <1>1, <1>2, <1>3, <1>5, <1>7, <2>1 DEF CountFields, Appended
  <2>6. Counts(lo, q, m)
    <3>1. m.digits = q - lo
      <4>1. m.digits = (pos - lo) + 1 /\ q = pos + 1 /\ pos \in Nat /\ lo \in Nat
        BY <1>0, <1>1, <1>3, <1>7, <2>5
      <4> QED BY <4>1
    <3> QED BY <1>9, <1>10, <2>5, <3>1 DEF Counts
  <2>7. ~IsTooLarge
    BY <1>14 DEF NumberDigit
  <2>8. m.value <= bare_back_ref_max_num_limit
    BY <1>2, <1>8, <1>9, <1>11, <1>12, <2>5, <2>7, LexerAssumption
  <2>9. BareAt("number", l, q, held)
    BY <1>1, <1>2, <2>4, <2>5, <2>6, <2>8 DEF BareAt, IsBare
  <2> QED BY <1>7, <1>13, <2>3, <2>9, StillBare DEF Advance, SameText, ParserVars, InputVars
<1>15. CASE NumberTooLarge
  <2>1. PICK l : l = [local EXCEPT !.number.overflowed = TRUE]
    OBVIOUS
  <2>2. l.lo = local.lo /\ l.number.overflowed = TRUE
    BY <1>0, <1>1, <1>3, <2>1 DEF HasShape, Fields, CountFields
  <2>3. Advance(0, "bare", l)
    BY <1>1, <1>2, <1>15, <2>1 DEF NumberTooLarge
  <2>4. Value(lo, q, 10) > bare_back_ref_max_num_limit
    BY <1>2, <1>11, <1>12, <1>15 DEF NumberTooLarge
  <2>5. PICK end : end = RunEnd(lo, Decimal)
    OBVIOUS
  <2>6. end \in Nat /\ q <= end /\ All(lo, end, Decimal)
    BY <1>1, <1>0, <1>6, <1>7, <1>10, <2>5, RunEnds
  <2>7. Value(lo, q, 10) <= Value(lo, end, 10)
    BY <1>1, <1>7, <1>10, <2>6, ValueGrows
  <2>8. Value(lo, q, 10) \in Nat /\ Value(lo, end, 10) \in Nat
    BY <1>1, <1>7, <1>10, <2>6, ValueIsNat
  <2>9. BareValue(l.lo) > bare_back_ref_max_num_limit
    BY <1>1, <2>2, <2>4, <2>5, <2>7, <2>8, LexerAssumption DEF BareValue
  <2>10. PICK p : p = pos + 0
    OBVIOUS
  <2>11. BareAt("bare", l, p, held)
    BY <1>2, <2>2, <2>9 DEF BareAt, IsBare
  <2> QED BY <1>13, <2>3, <2>10, <2>11, StillBare DEF Advance, SameText, ParserVars, InputVars
<1> QED BY <1>14, <1>15

LEMMA BareEnd ==
  ASSUME LexerInv, Covered, BareRead, pc = "number", local.number.after = "bare", NumberEnd
  PROVE  BareRead'
<1>0. /\ HasShape(local) /\ pos \in Nat /\ Len(pattern) \in Nat /\ local.lo \in Nat /\ pos <= Len(pattern)
  BY PlaceInText
<1>1. PICK n, lo : n = local.number /\ lo = local.lo + 1 /\ lo \in Nat
  BY <1>0
<1>2. /\ StartsBare(local.lo) /\ Counts(lo, pos, n) /\ n.value <= bare_back_ref_max_num_limit
  BY <1>1 DEF BareRead, BareAt
<1>3. /\ n.base = 10 /\ n.most = Len(pattern) /\ n.overflowed = FALSE
      /\ n.digits = pos - lo /\ n.value = Value(lo, pos, 10) /\ lo <= pos /\ All(lo, pos, Decimal)
  BY <1>2 DEF Counts
<1>4. Peek \notin Decimal
  BY <1>0, <1>1, <1>3 DEF NumberEnd, AtDigit, DigitsOf
<1>5. NotDigit(pos)
  BY <1>0, <1>4 DEF NotDigit, Peek, AtEnd
<1>6. RunEnd(lo, Decimal) = pos
  BY <1>1, <1>0, <1>3, <1>5, RunEndIs
<1>7. BareValue(local.lo) = n.value
  BY <1>1, <1>3, <1>6 DEF BareValue
<1>8. PICK p, held : p = pos /\ held = name.type
  OBVIOUS
<1>9. BareAt("bare", local, p, held)
  BY <1>1, <1>2, <1>3, <1>6, <1>7, <1>8 DEF BareAt, IsBare
<1>10. Advance(0, "bare", local)
  BY DEF NumberEnd
<1> QED BY <1>0, <1>8, <1>9, <1>10, StillBare DEF Advance, SameText, ParserVars, InputVars

(* What stands where something else was read.                                *)
LEMMA BareElse ==
  ASSUME BareRead, StartsBare(local.lo), local.lo < pos, pc \notin {"escaped", "idle", "failed"},
         ~IsBare(pc, local)
  PROVE  ByteEscape(pc, local) /\ name.type = "NONE" /\ ~IsGroup(local.lo)
BY DEF BareRead, BareAt

LEMMA OtherNumberBare ==
  ASSUME LexerInv, Covered, BareRead, Next, pc = "number", local.number.after # "bare"
  PROVE  BareRead'
<1>0. /\ HasShape(local) /\ pos \in Nat /\ local.lo \in Nat /\ local.number.after \in Afters
      /\ (HasMeaning(local.lo) /\ local.lo < pos) \/ Pends(pc, local, pos)
      /\ ~IsBare(pc, local)
  BY PlaceInText DEF LexerInv, Located, Covered, Reading, Openings, IsBare
<1>1. ASSUME NEW n \in {0, 1}, n = 1 => AtDigit, NEW where \in {"number", local.number.after},
             NEW l, l.lo = local.lo, l.number.after = local.number.after,
             Advance(n, where, l)
      PROVE  BareRead'
  <2>1. where \notin {"idle", "failed", "escaped", "bare", "in_brace", "brace_open", "token"}
        /\ ~IsBare(where, l)
    BY <1>0, <1>1 DEF Afters, IsBare
  <2>2. /\ pc' = where /\ local' = l /\ pos' = pos + n /\ name' = name /\ SameText
    BY <1>1 DEF Advance, SameText, ParserVars, InputVars
  <2>3. CASE ~StartsBare(local.lo)
    <3>1. Clear
      BY <1>1, <2>1, <2>2, <2>3 DEF Clear
    <3> QED BY <3>1, ClearKeeps
  <2>4. CASE StartsBare(local.lo) /\ local.lo < pos
    <3>1. ByteEscape(pc, local) /\ name.type = "NONE" /\ ~IsGroup(local.lo)
      BY <1>0, <2>4, BareElse
    <3>2. local.number.after \in {"hex_byte", "octal_byte"}
      BY <3>1 DEF ByteEscape, BytePoints
    <3>3. ByteEscape(where, l)
      BY <1>1, <3>2 DEF ByteEscape, BytePoints
    <3>4. PICK p, held : p = pos + n /\ held = name.type
      OBVIOUS
    <3>5. BareAt(where, l, p, held)
      BY <1>1, <2>1, <3>1, <3>3, <3>4 DEF BareAt, IsBare
    <3> QED BY <2>1, <2>2, <3>4, <3>5, StillBare
  <2>5. CASE StartsBare(local.lo) /\ ~(local.lo < pos)
    <3>1. local.lo = pos
      BY <1>0, <2>5 DEF Pends, Pending
    <3>2. n = 1 => pattern[pos + 1] \in Hex
      BY <1>1, DigitThere
    <3>3. "\\" \notin Hex
      BY Zenon DEF Hex, Decimal, Octal
    <3>4. n = 0
      BY <2>5, <3>1, <3>2, <3>3 DEF StartsBare
    <3>5. Clear
      BY <1>0, <1>1, <2>1, <2>2, <3>1, <3>4 DEF Clear
    <3> QED BY <3>5, ClearKeeps
  <2> QED BY <2>3, <2>4, <2>5
<1>2. CASE NumberDigit
  <2>1. PICK l : l = [local EXCEPT !.number.value = Appended(DigitValue(Peek)), !.number.digits = @ + 1]
    OBVIOUS
  <2>2. l.lo = local.lo /\ l.number.after = local.number.after
    BY <1>0, <2>1 DEF HasShape, Fields
  <2>3. Advance(1, "number", l) /\ AtDigit
    BY <1>2, <2>1 DEF NumberDigit
  <2> QED BY <1>1, <2>2, <2>3
<1>3. CASE NumberTooLarge
  <2>1. PICK l : l = [local EXCEPT !.number.overflowed = TRUE]
    OBVIOUS
  <2>2. l.lo = local.lo /\ l.number.after = local.number.after
    BY <1>0, <2>1 DEF HasShape, Fields
  <2>3. Advance(0, local.number.after, l) \/ Fail(1, local.number.error, local.number.lo)
    BY <1>3, <2>1 DEF NumberTooLarge
  <2>4. Fail(1, local.number.error, local.number.lo) => Clear
    BY <1>0, ClearTokens
  <2> QED BY <1>1, <2>2, <2>3, <2>4, ClearKeeps
<1>4. CASE NumberEnd
  <2>1. Advance(0, local.number.after, local)
    BY <1>4 DEF NumberEnd
  <2> QED BY <1>1, <2>1
<1>5. InvalidBytes => Clear
  BY <1>0, ClearForms DEF InvalidBytes
<1> QED BY <1>2, <1>3, <1>4, <1>5, NumberSteps, ClearKeeps

LEMMA BarePoint ==
  ASSUME Next, pc = "bare"
  PROVE  LexBare
<1>1. ~Lex /\ ~InvalidBytes /\ ~NumberDigit /\ ~NumberTooLarge /\ ~NumberEnd
  BY DEF Lex, InvalidBytes, Decides, NumberDigit, NumberTooLarge, NumberEnd, AtDigit
<1>2. ~LexToken
  BY DEF LexToken, LexEnd, SkipWhitespace, OpenComment, Comment, LexSimple, LexLiteral,
     LexQuantifier, OpenBounds, LexMin, LexComma, LexMax, LexBoundsEnd, LexQuantifierType,
     OpenGroup, LexSpecifier, LexLookbehind, LexCondition, LexConditionClose, LexOption, At, Other
<1>3. ~LexReferences
  BY DEF LexReferences, LexReference, LexSign, LexNumbered, LexDepth, LexClose, LexName,
     TrimName, LexNamed, At, Other
<1>4. LexEscapes => LexBare
  BY DEF LexEscapes, OpenEscape, LexEscapedAssertion, LexEscapedType, LexProperty,
     LexNamedReference, LexCommonEscape, LexEscape, LexNumberedByte, LexMeta,
     LexControl, LexBytes, LexUnicode, LexUnicodeNumber, LexBrace, LexBraceNumber, LexBraceNext,
     At, Other
<1> QED BY <1>1, <1>2, <1>3, <1>4 DEF Next

(* A token of a bare number.                                                 *)
LEMMA BareEmitted ==
  ASSUME SameText, NEW lo, NEW hi, pc' = "idle", tok'.lo = lo, tok'.hi = hi,
         IF IsGroup(lo)
           THEN tok'.type = "BACK_REF" /\ hi = RunEnd(lo + 1, Decimal) /\ tok'.data.num = BareValue(lo)
           ELSE tok'.type = "CODE"
  PROVE  BareRead'
<1>1. PICK from : from = lo + 1
  OBVIOUS
<1>2. /\ IsGroup(lo)' = IsGroup(lo) /\ BareValue(lo)' = BareValue(lo)
      /\ RunEnd(from, Decimal)' = RunEnd(from, Decimal)
  BY SameBare
<1>3. /\ IsGroup(tok.lo)' = IsGroup(lo) /\ BareValue(tok.lo)' = BareValue(lo)
  BY <1>2 DEF IsGroup, BareValue
<1>4. RunEnd(tok.lo + 1, Decimal)' = RunEnd(lo + 1, Decimal)
  BY <1>1, <1>2 DEF RunEnd
<1>5. BareToken'
  BY <1>3, <1>4 DEF BareToken
<1> QED BY <1>5 DEF BareRead, BareAt, IsBare

LEMMA BareDone ==
  ASSUME LexerInv, Covered, BareRead, Holds, Next, pc = "bare"
  PROVE  BareRead'
<1>0. /\ HasShape(local) /\ pos \in Nat /\ local.lo \in Nat /\ local.escape = local.lo
      /\ name.type = "NONE"
  BY PlaceInText DEF LexerInv, Located, Covered, Reading, IsBare, Holds, MayHold
<1>1. /\ StartsBare(local.lo)
      /\ IF local.number.overflowed THEN BareValue(local.lo) > bare_back_ref_max_num_limit
         ELSE /\ pos = RunEnd(local.lo + 1, Decimal) /\ local.number.value = BareValue(local.lo)
              /\ BareValue(local.lo) <= bare_back_ref_max_num_limit
  BY DEF BareRead, BareAt
<1>2. PICK is_reference \in BOOLEAN :
        is_reference <=> ~local.number.overflowed /\ IsBareReference(local.number.value)
  OBVIOUS
<1>3. is_reference <=> IsGroup(local.lo)
  <2>1. CASE local.number.overflowed
    <3>1. BareValue(local.lo) > bare_back_ref_max_num_limit
      BY <1>1, <2>1
    <3>2. BareValue(local.lo) \in Nat
      <4>1. PICK lo : lo = local.lo + 1 /\ lo \in Nat /\ lo + 1 <= Len(pattern) /\ Len(pattern) \in Nat
        BY <1>0, <1>1 DEF StartsBare, LexerInv, Located
      <4>2. All(lo, lo, Decimal)
        BY <4>1 DEF All
      <4>3. PICK end : end = RunEnd(lo, Decimal)
        OBVIOUS
      <4>4. end \in Nat /\ lo <= end /\ All(lo, end, Decimal)
        BY <4>1, <4>2, <4>3, RunEnds
      <4> QED BY <4>1, <4>3, <4>4, ValueIsNat DEF BareValue
    <3>3. ~(BareValue(local.lo) <= bare_back_ref_max_num_limit)
      BY <3>1, <3>2, LexerAssumption
    <3> QED BY <1>2, <2>1, <3>3 DEF IsGroup
  <2>2. CASE ~local.number.overflowed
    BY <1>1, <1>2, <2>2 DEF IsGroup, IsBareReference
  <2> QED BY <2>1, <2>2
<1> DEFINE first == local.escape + 1
           digit == CodeData(Code(pattern[first + 1]), local.lo, first + 1)
<1>4. \/ is_reference /\ Emit(0, "BACK_REF", [Target EXCEPT !.has_num = TRUE, !.num = local.number.value])
      \/ ~is_reference /\ Advance(first - pos, "escape", local)
      \/ ~is_reference /\ EmitAt(first + 1, "CODE", digit)
  <2>1. LexBare
    BY BarePoint
  <2> QED BY <1>2, <2>1 DEF LexBare, At
<1>5. CASE is_reference /\ Emit(0, "BACK_REF", [Target EXCEPT !.has_num = TRUE, !.num = local.number.value])
  <2>1. PICK data : data = [Target EXCEPT !.has_num = TRUE, !.num = local.number.value]
    OBVIOUS
  <2>2. data.num = local.number.value
    BY <2>1 DEF Target
  <2>3. EmitReleasing({}, pos + 0, "BACK_REF", data) /\ pos + 0 = pos
    BY <1>0, <1>5, <2>1 DEF Emit, EmitAt
  <2>4. SameText /\ pc' = "idle" /\ tok'.lo = local.lo /\ tok'.hi = pos /\ tok'.type = "BACK_REF"
        /\ tok'.data = data
    BY <2>3 DEF EmitReleasing, SameText, ParserVars, InputVars
  <2>5. IsGroup(local.lo) /\ pos = RunEnd(local.lo + 1, Decimal) /\ local.number.value = BareValue(local.lo)
    BY <1>1, <1>2, <1>3, <1>5
  <2>6. PICK lo, hi : lo = local.lo /\ hi = pos
    OBVIOUS
  <2> QED BY <2>2, <2>4, <2>5, <2>6, BareEmitted
<1>6. ASSUME NEW n, ~is_reference, Advance(n, "escape", local)
      PROVE  BareRead'
  <2>1. PICK p, held : p = pos + n /\ held = name.type
    OBVIOUS
  <2>2. BareAt("escape", local, p, held)
    BY <1>0, <1>3, <1>6, <2>1 DEF BareAt, IsBare, ByteEscape, BytePoints
  <2> QED BY <1>6, <2>1, <2>2, StillBare DEF Advance, SameText, ParserVars, InputVars
<1>7. ASSUME NEW data, NEW hi, ~is_reference, EmitAt(hi, "CODE", data)
      PROVE  BareRead'
  <2>1. SameText /\ pc' = "idle" /\ tok'.lo = local.lo /\ tok'.hi = hi /\ tok'.type = "CODE"
    BY <1>7 DEF EmitAt, EmitReleasing, SameText, ParserVars, InputVars
  <2>2. PICK lo : lo = local.lo
    OBVIOUS
  <2> QED BY <1>3, <1>7, <2>1, <2>2, BareEmitted
<1> HIDE DEF first, digit
<1> QED BY <1>4, <1>5, <1>6, <1>7

(* Everywhere else a token that began bare is a byte.                        *)
LEMMA ElsewhereBare ==
  ASSUME LexerInv, Covered, BareRead, Holds, Next,
         pc \notin {"idle", "failed", "number", "bare"} \cup Openings
  PROVE  BareRead'
<1>0. /\ HasShape(local) /\ pos \in Nat /\ local.lo \in Nat /\ StandsAt(pos, pc, local)
      /\ (HasMeaning(local.lo) /\ local.lo < pos) \/ Pends(pc, local, pos)
      /\ ~IsBare(pc, local)
  BY PlaceInText DEF LexerInv, Located, Covered, Reading, IsBare
<1>1. Forward
  BY <1>0, StepForward
<1>2. Adds
  BY <1>0, StepAdds
<1>3. /\ SameText /\ ~IsBare(pc', local')
      /\ pc' = "idle" => tok'.lo = local.lo
      /\ pc' \notin {"idle", "failed"} => local'.lo = local.lo
      /\ pc' # "escaped"
  BY <1>0, <1>1, <1>2 DEF Forward, Adds, SameText, Openings
<1>4. CASE ~StartsBare(local.lo)
  <2>1. Clear
    BY <1>3, <1>4 DEF Clear
  <2> QED BY <2>1, ClearKeeps
<1>5. CASE StartsBare(local.lo) /\ local.lo < pos
  <2>1. ByteEscape(pc, local) /\ name.type = "NONE" /\ ~IsGroup(local.lo)
    BY <1>0, <1>5, BareElse DEF Openings
  <2>2. pc \in BytePoints
    BY <2>1 DEF ByteEscape
  <2>3. CASE pc' = "failed"
    <3>1. Clear
      BY <1>3, <2>3 DEF Clear
    <3> QED BY <3>1, ClearKeeps
  <2>4. CASE pc' = "idle" /\ tok'.type = "CODE"
    <3>1. PICK lo, hi : lo = local.lo /\ hi = tok'.hi
      OBVIOUS
    <3> QED BY <1>3, <2>1, <2>4, <3>1, BareEmitted
  <2>5. CASE pc' \notin {"idle", "failed"} /\ ByteEscape(pc', local') /\ name' = name
    <3>1. PICK where, l, p, held : where = pc' /\ l = local' /\ p = pos' /\ held = name.type
      OBVIOUS
    <3>2. ~IsBare(where, l) /\ ByteEscape(where, l) /\ l.lo = local.lo
      BY <1>3, <2>5, <3>1 DEF IsBare, ByteEscape
    <3>3. BareAt(where, l, p, held)
      BY <2>1, <3>1, <3>2 DEF BareAt, IsBare
    <3> QED BY <1>3, <2>5, <3>1, <3>3, StillBare
  <2> QED BY <1>0, <2>1, <2>2, <2>3, <2>4, <2>5, CodeSteps
<1>6. CASE ~(local.lo < pos)
  <2>1. Pends(pc, local, pos) /\ Pending(pc, local, pos)
    BY <1>0, <1>6 DEF Pends
  <2>2. \/ pc' = "failed"
        \/ pc' = "number" /\ Pending(pc', local', pos')
    BY <2>1, PendingSteps
  <2>3. Clear
    BY <1>0, <1>3, <2>2 DEF Clear, Pending
  <2> QED BY <2>3, ClearKeeps
<1> QED BY <1>4, <1>5, <1>6

(* For every pattern, a number after a bare backslash is what it says.       *)
LEMMA StepBare ==
  ASSUME LexerInv, Covered, Holds, BareRead, Next
  PROVE  BareRead'
<1>1. CASE pc = "idle"
  <2>1. Lex
    BY <1>1, IdleSteps
  <2>2. pc' \in {"token", "in_brace"} /\ local' = Local(pos) /\ pos' = pos /\ pos \in Nat
    BY <2>1 DEF Lex, LexerInv, Located
  <2>3. Clear
    BY <2>2 DEF Clear, Local, IsBare
  <2> QED BY <2>3, ClearKeeps
<1>2. CASE pc = "number"
  <2>1. CASE local.number.after = "bare"
    <3>1. InvalidBytes => BareRead'
      <4>1. HasShape(local) /\ pos \in Nat
        BY DEF LexerInv, Located
      <4> QED BY <4>1, ClearForms, ClearKeeps DEF InvalidBytes
    <3> QED BY <1>2, <2>1, <3>1, NumberSteps, BareDigit, BareEnd
  <2> QED BY <1>2, <2>1, OtherNumberBare
<1>3. CASE pc \in Openings
  BY <1>3, TokenClear, CommentClear, ClearKeeps, EscapedBare DEF Openings
<1>4. CASE pc = "bare"
  BY <1>4, BareDone
<1>5. CASE pc \notin {"idle", "number", "bare"} \cup Openings
  BY <1>5, BracePoints, ElsewhereBare
<1> QED BY <1>1, <1>2, <1>3, <1>4, <1>5

-----------------------------------------------------------------------------
(* A reference by number or by name, from where it is named.                 *)
Fresh ==
  {"token", "group", "specifier", "lookbehind", "condition", "escaped", "named_reference", "reference"}
Referred == {"depth", "depth_sign", "depth_read", "close", "condition_close"}
Referring == {"BACK_REF", "CALL", "CONDITIONAL_OPEN"}

HasMinus(lo) == lo < Len(pattern) /\ pattern[lo + 1] = "-"
HasDigit(lo) == lo < Len(pattern) /\ pattern[lo + 1] \in Decimal
DigitsFrom(lo) == IF HasMinus(lo) THEN lo + 1 ELSE lo
NumberOf(lo) ==
  LET number == Value(DigitsFrom(lo), RunEnd(DigitsFrom(lo), Decimal), 10)
  IN  IF HasMinus(lo) /\ number > 0 THEN num_capture_groups + 1 - number ELSE number

ReferenceFields == {"kind", "name_lo", "sign", "num", "has_num"}

Numbered(l, p) ==
  /\ l.name_lo \in Nat /\ l.has_num = FALSE
  /\ IF HasMinus(l.name_lo) THEN l.sign = -1 ELSE l.sign = 1 /\ HasDigit(l.name_lo)
  /\ Counts(DigitsFrom(l.name_lo), p, l.number)

Targeted(l) ==
  /\ l.name_lo < Len(pattern)
  /\ l.has_num = (HasMinus(l.name_lo) \/ HasDigit(l.name_lo))
  /\ l.has_num => l.num = NumberOf(l.name_lo) /\ l.num \in Nat

Nameable(l) ==
  l.has_num = FALSE /\ ~HasMinus(l.name_lo) /\ ~HasDigit(l.name_lo) /\ l.name_lo < Len(pattern)

ReferenceAt(where, l, p, held) ==
  /\ ReferenceFields \subseteq DOMAIN l
  /\ where \in Fresh => l.sign = 1 /\ l.has_num = FALSE
  /\ where = "reference" => p = l.name_lo
  /\ where = "sign" => /\ l.sign = -1 /\ l.has_num = FALSE
                       /\ l.name_lo \in Nat /\ HasMinus(l.name_lo) /\ p = l.name_lo + 1
  /\ where = "number" /\ l.number.after = "numbered" =>
       Numbered(l, p) /\ l.number.error # "INTERNAL_ERROR"
  /\ where = "numbered" => Numbered(l, p) /\ p = RunEnd(DigitsFrom(l.name_lo), Decimal)
  /\ where \in Referred \/ (where = "number" /\ l.number.after = "depth_read") => Targeted(l)
  /\ where \in {"negation", "property_name"} => l.kind = "property"
  /\ held # "NONE" /\ l.kind # "property" => Nameable(l)
  /\ where \in {"name", "named"} => held # "NONE"

ReferenceToken ==
  pc = "idle" /\ tok.type \in Referring =>
    \/ StartsBare(tok.lo) /\ tok.lo + 2 <= tok.hi
    \/ /\ Targeted(local) /\ tok.data.has_num = local.has_num /\ tok.data.num = local.num
       /\ tok.type # "CALL" /\ tok.data.has_num => tok.data.num > 0

ReferencesRead == ReferenceAt(pc, local, pos, name.type) /\ ReferenceToken

LEMMA SameNumber ==
  ASSUME SameText, NEW lo
  PROVE  /\ HasMinus(lo)' = HasMinus(lo) /\ HasDigit(lo)' = HasDigit(lo)
         /\ DigitsFrom(lo)' = DigitsFrom(lo)
         /\ RunEnd(DigitsFrom(lo), Decimal)' = RunEnd(DigitsFrom(lo), Decimal)
         /\ NumberOf(lo)' = NumberOf(lo)
<1>1. pattern' = pattern /\ encoding' = encoding /\ num_capture_groups' = num_capture_groups
  BY DEF SameText
<1>2. HasMinus(lo)' = HasMinus(lo) /\ HasDigit(lo)' = HasDigit(lo)
  BY <1>1 DEF HasMinus, HasDigit
<1>3. PICK from : from = DigitsFrom(lo)
  OBVIOUS
<1>4. DigitsFrom(lo)' = from
  BY <1>2, <1>3 DEF DigitsFrom
<1>5. PICK end : end = RunEnd(from, Decimal)
  OBVIOUS
<1>6. RunEnd(from, Decimal)' = end
  BY <1>5, SameBare
<1>7. RunEnd(DigitsFrom(lo), Decimal)' = end
  BY <1>4, <1>6 DEF RunEnd, All
<1>8. Value(from, end, 10)' = Value(from, end, 10)
  BY <1>1, SameValue
<1>9. PICK number : number = Value(from, end, 10)
  OBVIOUS
<1>10. Value(DigitsFrom(lo), RunEnd(DigitsFrom(lo), Decimal), 10)' = number
  BY <1>4, <1>7, <1>8, <1>9
<1>11. NumberOf(lo) = IF HasMinus(lo) /\ number > 0 THEN num_capture_groups + 1 - number ELSE number
  BY <1>3, <1>5, <1>9 DEF NumberOf
<1>12. NumberOf(lo)' = IF HasMinus(lo)' /\ number > 0 THEN num_capture_groups' + 1 - number ELSE number
  BY <1>10 DEF NumberOf
<1> QED BY <1>1, <1>2, <1>3, <1>4, <1>5, <1>7, <1>11, <1>12

LEMMA SameReference ==
  ASSUME SameText, NEW l, NEW p
  PROVE  /\ Numbered(l, p)' = Numbered(l, p) /\ Targeted(l)' = Targeted(l)
         /\ Nameable(l)' = Nameable(l)
<1>1. PICK lo : lo = l.name_lo
  OBVIOUS
<1>2. /\ HasMinus(lo)' = HasMinus(lo) /\ HasDigit(lo)' = HasDigit(lo)
      /\ DigitsFrom(lo)' = DigitsFrom(lo) /\ NumberOf(lo)' = NumberOf(lo)
  BY SameNumber
<1>3. pattern' = pattern
  BY DEF SameText
<1>4. /\ HasMinus(l.name_lo)' = HasMinus(l.name_lo) /\ HasDigit(l.name_lo)' = HasDigit(l.name_lo)
      /\ NumberOf(l.name_lo)' = NumberOf(l.name_lo)
  BY <1>1, SameNumber
<1>5. PICK from, n : from = DigitsFrom(lo) /\ n = l.number
  OBVIOUS
<1>6. Counts(from, p, n)' = Counts(from, p, n)
  BY SameCounts
<1>7. DigitsFrom(l.name_lo)' = from
  BY <1>1, <1>2, <1>5 DEF DigitsFrom, HasMinus
<1>8. Counts(DigitsFrom(l.name_lo), p, l.number)' = Counts(from, p, n)'
  BY <1>5, <1>7
<1>9. Numbered(l, p)' = Numbered(l, p)
  BY <1>1, <1>4, <1>5, <1>6, <1>8, Zenon DEF Numbered
<1>10. Targeted(l)' = Targeted(l) /\ Nameable(l)' = Nameable(l)
  BY <1>3, <1>4, Zenon DEF Targeted, Nameable
<1> QED BY <1>9, <1>10

LEMMA SameReferenceAt ==
  ASSUME SameText, NEW where, NEW l, NEW p, NEW held
  PROVE  ReferenceAt(where, l, p, held)' = ReferenceAt(where, l, p, held)
<1>1. PICK lo : lo = l.name_lo
  OBVIOUS
<1>2. /\ HasMinus(l.name_lo)' = HasMinus(l.name_lo)
      /\ RunEnd(DigitsFrom(l.name_lo), Decimal)' = RunEnd(DigitsFrom(l.name_lo), Decimal)
  BY SameNumber
<1>3. /\ Numbered(l, p)' = Numbered(l, p) /\ Targeted(l)' = Targeted(l)
      /\ Nameable(l)' = Nameable(l)
  BY SameReference
<1> QED BY <1>2, <1>3, Zenon DEF ReferenceAt

(* The next state stands at another point of a reference.                    *)
LEMMA StillReferring ==
  ASSUME SameText, NEW where, NEW l, NEW p, NEW held, ReferenceAt(where, l, p, held), where # "idle",
         pc' = where, local' = l, pos' = p, name'.type = held
  PROVE  ReferencesRead'
<1>1. ReferenceAt(where, l, p, held)'
  BY SameReferenceAt
<1>2. ReferenceAt(pc, local, pos, name.type)'
  BY <1>1, Zenon DEF ReferenceAt, Numbered, Targeted, Nameable
<1>3. ReferenceToken'
  BY DEF ReferenceToken
<1> QED BY <1>2, <1>3 DEF ReferencesRead

(* What a step may leave of a reference, and where it asks nothing of it.    *)
Agrees(l) ==
  /\ ReferenceFields \subseteq DOMAIN l
  /\ l.kind = local.kind /\ l.name_lo = local.name_lo
  /\ l.sign = local.sign /\ l.num = local.num /\ l.has_num = local.has_num

Unread(where) ==
  where \notin Fresh \cup Referred
                 \cup {"sign", "number", "numbered", "negation", "property_name", "name", "named", "idle"}

LEMMA AgreesWith ==
  ASSUME ReferencesRead
  PROVE  /\ ReferenceFields \subseteq DOMAIN local /\ Agrees(local)
         /\ \A v : /\ Agrees([local EXCEPT !.terminator = v]) /\ Agrees([local EXCEPT !.explicit = v])
                   /\ Agrees([local EXCEPT !.has_max = v]) /\ Agrees([local EXCEPT !.min = v])
                   /\ Agrees([local EXCEPT !.max = v]) /\ Agrees([local EXCEPT !.option = v])
                   /\ Agrees([local EXCEPT !.positive = v]) /\ Agrees([local EXCEPT !.number = v])
                   /\ Agrees([local EXCEPT !.meta = v]) /\ Agrees([local EXCEPT !.control = v])
                   /\ Agrees([local EXCEPT !.escape = v]) /\ Agrees([local EXCEPT !.code_hi = v])
                   /\ Agrees([local EXCEPT !.name_hi = v]) /\ Agrees([local EXCEPT !.num_lo = v])
         /\ \A u, v, w : Agrees([local EXCEPT !.bytes = u, !.control = v, !.meta = w])
         /\ \A u, v, w : Agrees([local EXCEPT !.escape = u, !.first = v, !.bytes = w])
         /\ \A u, v, w : Agrees([local EXCEPT !.min = u, !.has_max = v, !.max = w])
         /\ \A u, v, w, x : Agrees([local EXCEPT !.min = u, !.max = v, !.has_max = w, !.allows_reluctant = x])
         /\ \A u, v, w : Agrees([local EXCEPT !.has_depth = u, !.depth = v, !.name_hi = w])
<1>1. ReferenceFields \subseteq DOMAIN local
  BY DEF ReferencesRead, ReferenceAt
<1> QED BY <1>1 DEF Agrees, ReferenceFields

LEMMA ReferringForms ==
  ASSUME ReferencesRead
  PROVE  /\ \A n, where, l : Unread(where) /\ Agrees(l) /\ Advance(n, where, l) => ReferencesRead'
         /\ \A n, condition, warning, where, l :
              Unread(where) /\ Agrees(l) /\ Warn(condition, warning, n, where, l) => ReferencesRead'
         /\ \A n, l, base, most, limit, error_code, after :
              after \notin {"numbered", "depth_read"} /\ Agrees(l) /\ "number" \in DOMAIN l
                /\ Read(n, Number(base, most, limit, error_code, after), l) => ReferencesRead'
         /\ \A n, where, l :
              where \in Fresh \ {"reference"} /\ Agrees(l) /\ local.sign = 1 /\ local.has_num = FALSE
                /\ Advance(n, where, l) => ReferencesRead'
         /\ \A n : name.type = "NONE" /\ Retry(n) => ReferencesRead'
         /\ \A addresses, at, code, span : FailReleasing(addresses, at, code, span) => ReferencesRead'
         /\ \A addresses, hi, type, data :
              type \notin Referring /\ EmitReleasing(addresses, hi, type, data) => ReferencesRead'
<1>0. /\ ReferenceFields \subseteq DOMAIN local
      /\ name.type # "NONE" /\ local.kind # "property" => Nameable(local)
  BY DEF ReferencesRead, ReferenceAt
<1>1. ASSUME NEW l, Agrees(l), name.type # "NONE", l.kind # "property"
      PROVE  Nameable(l)
  BY <1>0, <1>1 DEF Agrees, Nameable
<1>2. ASSUME NEW n, NEW where, NEW l, Unread(where), Agrees(l), pos' = pos + n, pc' = where, local' = l,
             name' = name, UNCHANGED ParserVars
      PROVE  ReferencesRead'
  <2>1. PICK p, held : p = pos + n /\ held = name.type
    OBVIOUS
  <2>2. ReferenceAt(where, l, p, held)
    BY <1>1, <1>2, <2>1 DEF ReferenceAt, Agrees, Unread, Fresh
  <2>3. SameText /\ where # "idle"
    BY <1>2 DEF SameText, ParserVars, InputVars, Unread
  <2> QED BY <1>2, <2>1, <2>2, <2>3, StillReferring
<1>3. \A n, where, l : Unread(where) /\ Agrees(l) /\ Advance(n, where, l) => ReferencesRead'
  BY <1>2 DEF Advance
<1>4. \A n, condition, warning, where, l :
        Unread(where) /\ Agrees(l) /\ Warn(condition, warning, n, where, l) => ReferencesRead'
  BY <1>2 DEF Warn
<1>5. ASSUME NEW n, NEW l, NEW base, NEW most, NEW limit, NEW error_code, NEW after,
             after \notin {"numbered", "depth_read"}, Agrees(l), "number" \in DOMAIN l,
             Read(n, Number(base, most, limit, error_code, after), l)
      PROVE  ReferencesRead'
  <2>1. PICK number : number = [Number(base, most, limit, error_code, after) EXCEPT !.lo = pos + n]
    OBVIOUS
  <2>2. number.after = after
    BY <2>1 DEF Number
  <2>3. PICK new : new = [l EXCEPT !.number = number]
    OBVIOUS
  <2>4. new.number = number /\ Agrees(new)
    BY <1>5, <2>3 DEF Agrees, ReferenceFields
  <2>5. Advance(n, "number", new)
    BY <1>5, <2>1, <2>3 DEF Read
  <2>6. PICK p, held : p = pos + n /\ held = name.type
    OBVIOUS
  <2>7. ReferenceAt("number", new, p, held)
    BY <1>1, <1>5, <2>2, <2>4, <2>6 DEF ReferenceAt, Agrees, Fresh, Referred
  <2> QED BY <2>5, <2>6, <2>7, StillReferring DEF Advance, SameText, ParserVars, InputVars
<1>6. ASSUME NEW n, NEW where, NEW l, where \in Fresh \ {"reference"}, Agrees(l), local.sign = 1,
             local.has_num = FALSE, Advance(n, where, l)
      PROVE  ReferencesRead'
  <2>1. PICK p, held : p = pos + n /\ held = name.type
    OBVIOUS
  <2>2. ReferenceAt(where, l, p, held)
    BY <1>1, <1>6, <2>1 DEF ReferenceAt, Agrees, Fresh, Referred
  <2>3. where # "idle"
    BY <1>6 DEF Fresh
  <2> QED BY <1>6, <2>1, <2>2, <2>3, StillReferring DEF Advance, SameText, ParserVars, InputVars
<1>7. ASSUME NEW n, name.type = "NONE", Retry(n)
      PROVE  ReferencesRead'
  <2>1. PICK p, l : p = pos + n /\ l = Local(p)
    OBVIOUS
  <2>2. ReferenceAt("token", l, p, "NONE")
    BY <2>1 DEF ReferenceAt, ReferenceFields, Local, Referred
  <2> QED BY <1>7, <2>1, <2>2, StillReferring DEF Retry, Advance, SameText, ParserVars, InputVars
<1>8. ASSUME NEW addresses, NEW at, NEW code, NEW span, FailReleasing(addresses, at, code, span)
      PROVE  ReferencesRead'
  <2>1. ReferenceAt("failed", local, at, "NONE")
    BY <1>0 DEF ReferenceAt, Fresh, Referred
  <2> QED BY <1>8, <2>1, StillReferring DEF FailReleasing, SameText, ParserVars, InputVars, NoName
<1>9. ASSUME NEW addresses, NEW hi, NEW type, NEW data, type \notin Referring,
             EmitReleasing(addresses, hi, type, data)
      PROVE  ReferencesRead'
  <2>1. pc' = "idle" /\ local' = local /\ name'.type = "NONE" /\ tok'.type = type
    BY <1>9 DEF EmitReleasing, NoName
  <2> QED BY <1>0, <1>9, <2>1 DEF ReferencesRead, ReferenceAt, ReferenceToken, Fresh, Referred
<1> QED BY <1>3, <1>4, <1>5, <1>6, <1>7, <1>8, <1>9

LEMMA ReferringEnds ==
  ASSUME ReferencesRead
  PROVE  /\ \A at, code, span : FailAt(at, code, span) => ReferencesRead'
         /\ \A n, code, lo : Fail(n, code, lo) => ReferencesRead'
         /\ \A n, code : FailHere(n, code) => ReferencesRead'
         /\ \A n : Incomplete(n) => ReferencesRead'
         /\ \A n : OutOfMemory(n) => ReferencesRead'
         /\ Unclosed => ReferencesRead'
         /\ Unterminated => ReferencesRead'
         /\ \A hi, type, data : type \notin Referring /\ EmitAt(hi, type, data) => ReferencesRead'
         /\ \A n, type, data : type \notin Referring /\ Emit(n, type, data) => ReferencesRead'
         /\ \A n, type, data, warning :
              type \notin Referring /\ EmitWarned(n, type, data, warning) => ReferencesRead'
         /\ LiteralBrace => ReferencesRead'
<1>1. \A at, code, span : FailAt(at, code, span) => ReferencesRead'
  BY ReferringForms DEF FailAt
<1>2. \A n, code, lo : Fail(n, code, lo) => ReferencesRead'
  BY <1>1 DEF Fail
<1>3. \A n, code : FailHere(n, code) => ReferencesRead'
  BY <1>2 DEF FailHere
<1>4. \A n : Incomplete(n) => ReferencesRead'
  BY <1>2 DEF Incomplete
<1>5. (\A n : OutOfMemory(n) => ReferencesRead') /\ (Unclosed => ReferencesRead')
  BY <1>3 DEF OutOfMemory, Unclosed
<1>6. Unterminated => ReferencesRead'
  BY <1>2, <1>3, <1>4 DEF Unterminated
<1>7. \A hi, type, data : type \notin Referring /\ EmitAt(hi, type, data) => ReferencesRead'
  BY ReferringForms DEF EmitAt
<1>8. /\ \A n, type, data : type \notin Referring /\ Emit(n, type, data) => ReferencesRead'
      /\ \A n, type, data, warning :
           type \notin Referring /\ EmitWarned(n, type, data, warning) => ReferencesRead'
  BY <1>7 DEF Emit, EmitWarned
<1>9. LiteralBrace => ReferencesRead'
  BY <1>7 DEF LiteralBrace, Referring
<1> QED BY <1>1, <1>2, <1>3, <1>4, <1>5, <1>6, <1>7, <1>8, <1>9

LEMMA ReferringNames ==
  ASSUME LexerInv, ReferencesRead
  PROVE  /\ \A bytes, is_next, n, l : \A where \in {"name", "in_brace"} :
              name.type # "NONE" /\ Agrees(l) /\ AppendToName(bytes, is_next, n, where, l) => ReferencesRead'
         /\ local.kind = "property" \/ Nameable(local) => (OpenName => ReferencesRead')
         /\ \A n, data : \A is_unclosed \in BOOLEAN : Deliver(n, data, is_unclosed) => ReferencesRead'
         /\ \A n, byte : ReadByte(n, byte) => ReferencesRead'
<1>0. /\ ReferenceFields \subseteq DOMAIN local
      /\ name.type # "NONE" /\ local.kind # "property" => Nameable(local)
  BY DEF ReferencesRead, ReferenceAt
<1>1. ASSUME NEW l, Agrees(l), name.type # "NONE", l.kind # "property"
      PROVE  Nameable(l)
  BY <1>0, <1>1 DEF Agrees, Nameable
<1>2. ASSUME NEW bytes, NEW is_next, NEW n, NEW l, NEW where \in {"name", "in_brace"}, name.type # "NONE",
             Agrees(l), AppendToName(bytes, is_next, n, where, l)
      PROVE  ReferencesRead'
  <2>1. CASE OutOfMemory(n)
    BY <2>1, ReferringEnds
  <2>2. CASE ~OutOfMemory(n)
    <3>1. /\ pos' = pos + n /\ pc' = where /\ local' = l /\ UNCHANGED ParserVars
      BY <1>2, <2>2 DEF AppendToName
    <3>2. "type" \in DOMAIN name
      BY DEF LexerInv, Owned
    <3>3. name'.type # "NONE"
      BY <1>2, <2>2, <3>2 DEF AppendToName, Own
    <3>4. PICK p, held : p = pos + n /\ held = name'.type
      OBVIOUS
    <3>5. ReferenceAt(where, l, p, held)
      BY <1>1, <1>2, <3>3, <3>4 DEF ReferenceAt, Agrees, Fresh, Referred
    <3> QED BY <1>2, <3>1, <3>4, <3>5, StillReferring DEF SameText, ParserVars, InputVars
  <2> QED BY <2>1, <2>2
<1>3. ASSUME local.kind = "property" \/ Nameable(local), OpenName
      PROVE  ReferencesRead'
  <2>1. /\ pos' = pos /\ pc' = "name" /\ local' = local /\ UNCHANGED ParserVars
        /\ name'.type = "VIEW"
    BY <1>3 DEF OpenName, NoName
  <2>2. PICK p : p = pos
    OBVIOUS
  <2>3. ReferenceAt("name", local, p, "VIEW")
    BY <1>0, <1>3 DEF ReferenceAt, Fresh, Referred
  <2> QED BY <2>1, <2>2, <2>3, StillReferring DEF SameText, ParserVars, InputVars
<1>4. Agrees(local)
  BY AgreesWith
<1>5. ASSUME NEW n, NEW data, NEW is_unclosed \in BOOLEAN, Deliver(n, data, is_unclosed)
      PROVE  ReferencesRead'
  <2>1. PICK where \in {"name", "in_brace"} : where = IF is_unclosed THEN "in_brace" ELSE "name"
    OBVIOUS
  <2>2. \/ name.type # "NONE" /\ AppendToName(Encode(data.value), FALSE, n, where, local)
        \/ FailHere(n, UnencodableCode(data.value))
        \/ EmitAt(pos + n, "CODE", data)
    BY <1>5, <2>1 DEF Deliver
  <2>3. "CODE" \notin Referring
    BY DEF Referring
  <2> QED BY <1>2, <1>4, <2>1, <2>2, <2>3, ReferringEnds
<1>6. ASSUME NEW n, NEW byte, ReadByte(n, byte)
      PROVE  ReferencesRead'
  <2>1. PICK l : l = [local EXCEPT !.bytes = Append(@, WithMeta(WithControl(byte))),
                                   !.control = FALSE, !.meta = FALSE]
    OBVIOUS
  <2>2. Agrees(l)
    BY <1>0, <2>1 DEF Agrees, ReferenceFields
  <2>3. Advance(n, "bytes", l)
    BY <1>6, <2>1 DEF ReadByte
  <2>4. Unread("bytes")
    BY DEF Unread, Fresh, Referred
  <2> QED BY <2>2, <2>3, <2>4, ReferringForms
<1> QED BY <1>2, <1>3, <1>5, <1>6

(* A reference begins.                                                       *)
LEMMA ReferenceBegins ==
  ASSUME ReferencesRead, name.type = "NONE", pc \in Fresh, pos \in Nat, NEW n \in {0, 1},
         NEW kind, NEW quote, Advance(n, "reference", Reference(kind, quote, pos + n))
  PROVE  ReferencesRead'
<1>1. PICK l, p : l = Reference(kind, quote, pos + n) /\ p = pos + n
  OBVIOUS
<1>2. /\ ReferenceFields \subseteq DOMAIN l /\ l.sign = 1 /\ l.has_num = FALSE /\ l.name_lo = p
  BY <1>1 DEF Reference, ReferencesRead, ReferenceAt, ReferenceFields
<1>3. ReferenceAt("reference", l, p, "NONE")
  BY <1>2 DEF ReferenceAt, Referred
<1> QED BY <1>1, <1>3, StillReferring DEF Advance, SameText, ParserVars, InputVars

(* A target, read: a token refers to it.                                     *)
LEMMA TargetEmitted ==
  ASSUME ReferencesRead, Targeted(local), NEW type, local.has_num => local.num # 0 \/ type = "CALL",
         Emit(1, type, Target)
  PROVE  ReferencesRead'
<1>1. PICK data : data = Target
  OBVIOUS
<1>2. data.has_num = local.has_num /\ data.num = local.num
  BY <1>1 DEF Target
<1>3. EmitReleasing({}, pos + 1, type, data)
  BY <1>1 DEF Emit, EmitAt
<1>4. /\ SameText /\ pc' = "idle" /\ local' = local /\ name'.type = "NONE"
      /\ tok'.type = type /\ tok'.data = data
  BY <1>3 DEF EmitReleasing, NoName, SameText, ParserVars, InputVars
<1>5. PICK l : l = local
  OBVIOUS
<1>6. Targeted(l)'
  BY <1>4, <1>5, SameReference
<1>7. Targeted(local)'
  BY <1>4, <1>5, <1>6, Zenon DEF Targeted
<1>8. tok'.type # "CALL" /\ tok'.data.has_num => tok'.data.num > 0
  BY <1>2, <1>4 DEF Targeted
<1>9. ReferenceToken'
  BY <1>2, <1>4, <1>7, <1>8 DEF ReferenceToken
<1>10. ReferenceAt(pc, local, pos, name.type)'
  BY <1>4 DEF ReferencesRead, ReferenceAt, Fresh, Referred
<1> QED BY <1>9, <1>10 DEF ReferencesRead

LEMMA TokenReferring ==
  ASSUME LexerInv, Holds, ReferencesRead, LexToken, pos \in Nat
  PROVE  ReferencesRead'
<1> USE DEF Referring
<1>0. /\ pc \in Fresh => local.sign = 1 /\ local.has_num = FALSE
      /\ pc \in Fresh \cup {"comment"} => name.type = "NONE"
      /\ "number" \in DOMAIN local
  BY DEF ReferencesRead, ReferenceAt, Holds, MayHold, Fresh, LexerInv, Located, HasShape, Fields
<1>1. /\ \A n, where, l : Unread(where) /\ Agrees(l) /\ Advance(n, where, l) => ReferencesRead'
      /\ \A n, condition, warning, where, l :
           Unread(where) /\ Agrees(l) /\ Warn(condition, warning, n, where, l) => ReferencesRead'
      /\ \A n, l, base, most, limit, error_code, after :
           after \notin {"numbered", "depth_read"} /\ Agrees(l) /\ "number" \in DOMAIN l
             /\ Read(n, Number(base, most, limit, error_code, after), l) => ReferencesRead'
      /\ \A n, where, l :
           where \in Fresh \ {"reference"} /\ Agrees(l) /\ pc \in Fresh
             /\ Advance(n, where, l) => ReferencesRead'
      /\ \A n : name.type = "NONE" /\ Retry(n) => ReferencesRead'
  BY <1>0, ReferringForms
<1>2. /\ \A at, code, span : FailAt(at, code, span) => ReferencesRead'
      /\ \A n, code, lo : Fail(n, code, lo) => ReferencesRead'
      /\ \A n : Incomplete(n) => ReferencesRead'
      /\ \A n, type, data : type \notin Referring /\ Emit(n, type, data) => ReferencesRead'
      /\ \A n, type, data, warning :
           type \notin Referring /\ EmitWarned(n, type, data, warning) => ReferencesRead'
      /\ LiteralBrace => ReferencesRead'
  BY ReferringEnds
<1>3. Agrees(local)
  BY AgreesWith
<1>4. /\ Unread("comment") /\ Unread("greed") /\ Unread("bounds") /\ Unread("comma")
      /\ Unread("bounds_end") /\ Unread("option")
  BY DEF Unread, Fresh, Referred
<1>5. {"token", "group", "specifier", "lookbehind", "condition"} \subseteq Fresh \ {"reference"}
  BY DEF Fresh
<1>6. LexEnd \/ LexSimple \/ LexLiteral => ReferencesRead'
  BY <1>2 DEF LexEnd, LexSimple, LexLiteral
<1>7. SkipWhitespace => ReferencesRead'
  BY <1>0, <1>1, <1>5 DEF SkipWhitespace, At
<1>8. OpenComment => ReferencesRead'
  <2>1. Agrees([local EXCEPT !.terminator = "\n"])
    BY AgreesWith
  <2> QED BY <1>1, <1>4, <2>1 DEF OpenComment
<1>9. Comment => ReferencesRead'
  BY <1>0, <1>1, <1>3, <1>4 DEF Comment, At, Other
<1>10. LexQuantifier => ReferencesRead'
  <2>1. PICK l : l = [local EXCEPT !.min = IF Peek = "+" THEN 1 ELSE 0, !.has_max = Peek = "?",
                                   !.max = IF Peek = "?" THEN 1 ELSE 0]
    OBVIOUS
  <2>2. Agrees(l)
    BY <2>1, AgreesWith
  <2>3. Advance(1, "greed", l) => ReferencesRead'
    BY <1>1, <1>4, <2>2
  <2> QED BY <2>1, <2>3 DEF LexQuantifier
<1>11. OpenBounds => ReferencesRead'
  <2>1. Advance(1, "bounds", local) => ReferencesRead'
    BY <1>1, <1>3, <1>4
  <2> QED BY <2>1, Zenon DEF OpenBounds
<1>12. LexMin => ReferencesRead'
  <2>1. PICK l : l = [local EXCEPT !.explicit = TRUE]
    OBVIOUS
  <2>2. Agrees(l) /\ "number" \in DOMAIN l
    BY <1>0, <2>1, AgreesWith
  <2>3. Read(0, Bound("min"), l) => ReferencesRead'
    BY <1>1, <2>2 DEF Bound, DecimalNumber
  <2>4. Advance(1, "comma", local) => ReferencesRead'
    BY <1>1, <1>3, <1>4
  <2> QED BY <1>2, <2>1, <2>3, <2>4, Zenon DEF LexMin
<1>13. LexComma => ReferencesRead'
  <2>1. PICK l, m : /\ l = [local EXCEPT !.min = local.number.value]
                    /\ m = [local EXCEPT !.min = local.number.value, !.max = local.number.value,
                                         !.has_max = TRUE, !.allows_reluctant = FALSE]
    OBVIOUS
  <2>2. Agrees(l) /\ Agrees(m)
    BY <2>1, AgreesWith
  <2>3. Advance(1, "comma", l) \/ Advance(0, "bounds_end", m) => ReferencesRead'
    BY <1>1, <1>4, <2>2
  <2> QED BY <1>2, <2>1, <2>3, Zenon DEF LexComma
<1>14. LexMax => ReferencesRead'
  <2>1. PICK l, m : l = [local EXCEPT !.has_max = TRUE] /\ m = [local EXCEPT !.max = local.number.value]
    OBVIOUS
  <2>2. Agrees(l) /\ Agrees(m) /\ "number" \in DOMAIN l
    BY <1>0, <2>1, AgreesWith
  <2>3. Read(0, Bound("max"), l) => ReferencesRead'
    BY <1>1, <2>2 DEF Bound, DecimalNumber
  <2>4. Advance(0, "bounds_end", local) \/ Advance(0, "bounds_end", m) => ReferencesRead'
    BY <1>1, <1>3, <1>4, <2>2
  <2> QED BY <1>2, <2>1, <2>3, <2>4, Zenon DEF LexMax
<1>15. LexBoundsEnd => ReferencesRead'
  <2>1. Advance(1, "greed", local) => ReferencesRead'
    BY <1>1, <1>3, <1>4
  <2> QED BY <1>2, <2>1, Zenon DEF LexBoundsEnd
<1>16. LexQuantifierType => ReferencesRead'
  BY <1>2 DEF LexQuantifierType
<1>17. OpenGroup => ReferencesRead'
  <2>1. \A where \in {"group", "specifier"} : pc \in {"token", "group"} /\ Advance(1, where, local) => ReferencesRead'
    BY <1>1, <1>3, <1>5
  <2> QED BY <1>2, <2>1 DEF OpenGroup, At
<1>18. LexSpecifier => ReferencesRead'
  <2>1. PICK l, o : l = [local EXCEPT !.terminator = ")"] /\ o = [local EXCEPT !.option = options]
    OBVIOUS
  <2>2. Agrees(l) /\ Agrees(o)
    BY <2>1, AgreesWith
  <2>3. Advance(1, "comment", l) \/ Advance(0, "option", o) => ReferencesRead'
    BY <1>1, <1>4, <2>2
  <2>4. LexSpecifier => pc = "specifier"
    BY DEF LexSpecifier, At, Other
  <2>5. pc = "specifier" /\ Advance(1, "reference", Reference("group", "'", pos + 1)) => ReferencesRead'
    BY <1>0, <1>5, ReferenceBegins
  <2>6. pc = "specifier" /\ (Advance(1, "lookbehind", local) \/ Advance(1, "condition", local)) => ReferencesRead'
    BY <1>1, <1>3, <1>5
  <2> QED BY <1>2, <2>1, <2>3, <2>4, <2>5, <2>6 DEF LexSpecifier
<1>19. LexLookbehind => ReferencesRead'
  <2>1. LexLookbehind => pc = "lookbehind"
    BY DEF LexLookbehind, At, Other
  <2>2. ASSUME NEW lo, lo = pos, pc = "lookbehind", Advance(0, "reference", Reference("group", ">", lo))
        PROVE  ReferencesRead'
    <3>1. lo = pos + 0
      BY <2>2
    <3> QED BY <1>0, <1>5, <2>2, <3>1, ReferenceBegins
  <2> QED BY <1>2, <2>1, <2>2 DEF LexLookbehind
<1>20. LexCondition => ReferencesRead'
  <2>1. LexCondition => pc = "condition"
    BY DEF LexCondition, At, Other
  <2>2. ASSUME NEW lo, lo = pos, pc = "condition", Advance(0, "reference", Reference("condition", ")", lo))
        PROVE  ReferencesRead'
    <3>1. lo = pos + 0
      BY <2>2
    <3> QED BY <1>0, <1>5, <2>2, <3>1, ReferenceBegins
  <2>3. pc = "condition"
          /\ Advance(1, "reference", Reference("quoted_condition", Closing(Peek), pos + 1)) => ReferencesRead'
    BY <1>0, <1>5, ReferenceBegins
  <2> QED BY <1>2, <2>1, <2>2, <2>3 DEF LexCondition
<1>21. LexConditionClose => ReferencesRead'
  <2>1. pc = "condition_close" => Targeted(local)
    BY DEF ReferencesRead, ReferenceAt, Referred
  <2>2. pc = "condition_close" /\ (local.has_num => local.num # 0) /\ Emit(1, "CONDITIONAL_OPEN", Target)
          => ReferencesRead'
    BY <2>1, TargetEmitted
  <2> QED BY <1>2, <2>2 DEF LexConditionClose, At
<1>22. LexOption => ReferencesRead'
  <2>1. PICK l, m : /\ l = [local EXCEPT !.option = Switched(@, Peek, local.positive)]
                    /\ m = [local EXCEPT !.positive = Negated(@)]
    OBVIOUS
  <2>2. Agrees(l) /\ Agrees(m)
    BY <2>1, AgreesWith
  <2>3. Advance(1, "option", l) => ReferencesRead'
    BY <1>1, <1>4, <2>2
  <2>4. Warn(~local.positive, "REDUNDANT_GROUP_OPTION_MINUS", 1, "option", m) => ReferencesRead'
    BY <1>1, <1>4, <2>2
  <2> QED BY <1>2, <2>1, <2>3, <2>4 DEF LexOption
<1> QED BY <1>6, <1>7, <1>8, <1>9, <1>10, <1>11, <1>12, <1>13, <1>14, <1>15, <1>16, <1>17, <1>18,
           <1>19, <1>20, <1>21, <1>22, Zenon DEF LexToken

(* The escapes leave a reference alone.                                      *)
LEMMA BareReferring ==
  ASSUME LexerInv, Covered, Holds, BareRead, ReferencesRead, pc \notin {"idle", "failed"}, LexBare
  PROVE  ReferencesRead'
<1> USE DEF Referring
<1>0. /\ HasShape(local) /\ pos \in Nat /\ local.lo \in Nat /\ Len(pattern) \in Nat
      /\ "number" \in DOMAIN local
  BY PlaceInText DEF HasShape, Fields
<1>1. Agrees(local)
  BY AgreesWith
<1>2. Read(0, DecimalNumber(bare_back_ref_max_num_limit, "INTERNAL_ERROR", "bare"), local) => ReferencesRead'
  BY <1>0, <1>1, ReferringForms DEF DecimalNumber
<1>3. \A n : Advance(n, "escape", local) => ReferencesRead'
  <2>1. Unread("escape")
    BY DEF Unread, Fresh, Referred
  <2> QED BY <1>1, <2>1, ReferringForms
<1>4. \A hi, data : EmitAt(hi, "CODE", data) => ReferencesRead'
  BY ReferringEnds
<1>5. ASSUME pc = "bare", ~local.number.overflowed, NEW data, Emit(0, "BACK_REF", data)
      PROVE  ReferencesRead'
  <2>1. EmitReleasing({}, pos + 0, "BACK_REF", data) /\ pos + 0 = pos
    BY <1>0, <1>5 DEF Emit, EmitAt
  <2>2. /\ SameText /\ pc' = "idle" /\ local' = local /\ name'.type = "NONE"
        /\ tok'.lo = local.lo /\ tok'.hi = pos
    BY <2>1 DEF EmitReleasing, NoName, SameText, ParserVars, InputVars
  <2>3. StartsBare(local.lo) /\ pos = RunEnd(local.lo + 1, Decimal)
    BY <1>5 DEF BareRead, BareAt
  <2>4. local.lo + 2 <= pos
    <3>1. PICK lo, mid \in Nat : lo = local.lo + 1 /\ mid = lo + 1
      BY <1>0
    <3>2. mid <= Len(pattern) /\ pattern[mid] \in Decimal
      BY <1>0, <2>3, <3>1 DEF StartsBare
    <3>3. All(lo, mid, Decimal)
      BY <3>1, <3>2 DEF All
    <3>4. mid <= RunEnd(lo, Decimal)
      BY <1>0, <3>1, <3>2, <3>3, RunEnds
    <3>5. pos = RunEnd(lo, Decimal) /\ local.lo + 2 = mid
      BY <1>0, <2>3, <3>1
    <3> QED BY <3>4, <3>5
  <2>5. PICK lo, hi : lo = local.lo /\ hi = pos
    OBVIOUS
  <2>6. StartsBare(lo)'
    BY <2>2, <2>3, <2>5, SameBare
  <2>7. StartsBare(tok.lo)' /\ tok'.lo + 2 <= tok'.hi
    BY <2>2, <2>4, <2>5, <2>6 DEF StartsBare
  <2>8. ReferenceToken'
    BY <2>7 DEF ReferenceToken
  <2>9. ReferenceAt(pc, local, pos, name.type)'
    BY <2>2 DEF ReferencesRead, ReferenceAt, Fresh, Referred
  <2> QED BY <2>8, <2>9 DEF ReferencesRead
<1> DEFINE first == local.escape + 1
           data == [Target EXCEPT !.has_num = TRUE, !.num = local.number.value]
           digit == CodeData(Code(pattern[first + 1]), local.lo, first + 1)
<1>6. \/ Read(0, DecimalNumber(bare_back_ref_max_num_limit, "INTERNAL_ERROR", "bare"), local)
      \/ pc = "bare" /\ ~local.number.overflowed /\ Emit(0, "BACK_REF", data)
      \/ Advance(first - pos, "escape", local)
      \/ EmitAt(first + 1, "CODE", digit)
  BY DEF LexBare
<1> HIDE DEF first, data, digit
<1> QED BY <1>2, <1>3, <1>4, <1>5, <1>6

LEMMA EscapesReferring ==
  ASSUME LexerInv, Covered, Holds, BareRead, ReferencesRead, pc \notin {"idle", "failed"}, LexEscapes
  PROVE  ReferencesRead'
<1> USE DEF Referring
<1>0. /\ pc \in Fresh => local.sign = 1 /\ local.has_num = FALSE
      /\ pc \in Fresh \cup {"property", "negation", "property_name", "carriage_return"} => name.type = "NONE"
      /\ "number" \in DOMAIN local /\ pos \in Nat
  BY DEF ReferencesRead, ReferenceAt, Holds, MayHold, Fresh, LexerInv, Located, HasShape, Fields
<1>1. /\ \A n, where, l : Unread(where) /\ Agrees(l) /\ Advance(n, where, l) => ReferencesRead'
      /\ \A n, l, base, most, limit, error_code, after :
           after \notin {"numbered", "depth_read"} /\ Agrees(l) /\ "number" \in DOMAIN l
             /\ Read(n, Number(base, most, limit, error_code, after), l) => ReferencesRead'
      /\ \A n, where, l :
           where \in Fresh \ {"reference"} /\ Agrees(l) /\ pc \in Fresh
             /\ Advance(n, where, l) => ReferencesRead'
      /\ \A n : name.type = "NONE" /\ Retry(n) => ReferencesRead'
  BY <1>0, ReferringForms
<1>2. /\ \A at, code, span : FailAt(at, code, span) => ReferencesRead'
      /\ \A n, code, lo : Fail(n, code, lo) => ReferencesRead'
      /\ \A n, code : FailHere(n, code) => ReferencesRead'
      /\ Unclosed => ReferencesRead'
      /\ \A hi, type, data : type \notin Referring /\ EmitAt(hi, type, data) => ReferencesRead'
      /\ \A n, type, data : type \notin Referring /\ Emit(n, type, data) => ReferencesRead'
      /\ \A n, type, data, warning :
           type \notin Referring /\ EmitWarned(n, type, data, warning) => ReferencesRead'
  BY ReferringEnds
<1>3. Agrees(local)
  BY AgreesWith
<1>4. /\ \A n, data : \A is_unclosed \in BOOLEAN : Deliver(n, data, is_unclosed) => ReferencesRead'
      /\ \A n, byte : ReadByte(n, byte) => ReferencesRead'
  BY ReferringNames
<1>5. /\ Unread("property") /\ Unread("escape") /\ Unread("unicode") /\ Unread("carriage_return")
      /\ Unread("bytes") /\ Unread("meta") /\ Unread("meta_code") /\ Unread("control")
      /\ Unread("control_code") /\ Unread("brace_open") /\ Unread("brace_next")
  BY DEF Unread, Fresh, Referred
<1>6. {"token", "escaped", "named_reference"} \subseteq Fresh \ {"reference"}
  BY DEF Fresh
<1>7. OpenEscape => ReferencesRead'
  <2>1. PICK l : l = [local EXCEPT !.escape = pos, !.first = pos, !.bytes = <<>>]
    OBVIOUS
  <2>2. Agrees(l)
    BY <2>1, AgreesWith
  <2>3. pc = "token" /\ Advance(1, "escaped", l) => ReferencesRead'
    BY <1>1, <1>6, <2>2
  <2> QED BY <2>1, <2>3 DEF OpenEscape, At
<1>8. LexEscapedAssertion \/ LexEscapedType => ReferencesRead'
  BY <1>2 DEF LexEscapedAssertion, LexEscapedType
<1>9. CASE LexProperty
  <2>1. PICK l, m, r : /\ l = [local EXCEPT !.positive = Peek = "p"]
                       /\ m = [local EXCEPT !.positive = ~@, !.name_lo = pos + 1]
                       /\ r = Reference("property", "}", pos + 1)
    OBVIOUS
  <2>2. Agrees(l)
    BY <2>1, AgreesWith
  <2>3. Advance(1, "property", l) => ReferencesRead'
    BY <1>1, <1>5, <2>2
  <2>4. ReferenceFields \subseteq DOMAIN local
    BY AgreesWith
  <2>5. pc \in {"negation", "property_name"} => local.kind = "property"
    BY DEF ReferencesRead, ReferenceAt
  <2>6. ASSUME NEW where \in {"negation", "property_name"}, NEW new, ReferenceFields \subseteq DOMAIN new,
               new.kind = "property", Advance(1, where, new)
        PROVE  ReferencesRead'
    <3>1. PICK p, held : p = pos + 1 /\ held = name.type
      OBVIOUS
    <3>2. ReferenceAt(where, new, p, held)
      BY <2>6 DEF ReferenceAt, Fresh, Referred
    <3> QED BY <2>6, <3>1, <3>2, StillReferring DEF Advance, SameText, ParserVars, InputVars
  <2>7. Advance(1, "negation", r) => ReferencesRead'
    <3>1. ReferenceFields \subseteq DOMAIN r /\ r.kind = "property"
      BY <2>1, <2>4 DEF Reference, ReferenceFields
    <3> QED BY <2>6, <3>1
  <2>8. pc = "negation" /\ Advance(1, "property_name", m) => ReferencesRead'
    <3>1. pc = "negation" => ReferenceFields \subseteq DOMAIN m /\ m.kind = "property"
      BY <2>1, <2>4, <2>5 DEF ReferenceFields
    <3> QED BY <2>6, <3>1
  <2>9. pc \in {"negation", "property_name"} /\ OpenName => ReferencesRead'
    BY <2>5, ReferringNames
  <2>10. \/ Advance(1, "property", l)
         \/ Advance(1, "negation", r)
         \/ pc = "negation" /\ Advance(1, "property_name", m)
         \/ pc \in {"negation", "property_name"} /\ OpenName
         \/ \E data, warning : EmitWarned(0, "CODE", data, warning)
    BY <1>9, <2>1, Zenon DEF LexProperty, At, Other
  <2> QED BY <1>2, <2>3, <2>7, <2>8, <2>9, <2>10
<1>10. CASE LexNamedReference
  <2>1. pc \in {"escaped", "named_reference"} /\ Advance(1, "named_reference", local) => ReferencesRead'
    BY <1>1, <1>3, <1>6
  <2>2. \A kind, quote : pc = "named_reference" /\ Advance(1, "reference", Reference(kind, quote, pos + 1))
                           => ReferencesRead'
    BY <1>0, <1>6, ReferenceBegins
  <2> QED BY <1>2, <1>10, <2>1, <2>2 DEF LexNamedReference, At
<1>11. LexBare => ReferencesRead'
  BY BareReferring
<1>12. CASE LexCommonEscape
  <2>1. \A n : Advance(n, "unicode", local) \/ Advance(n, "escape", local)
                 \/ Advance(n, "carriage_return", local) => ReferencesRead'
    BY <1>1, <1>3, <1>5
  <2>2. \A n : Retry(n) => ReferencesRead'
    <3>1. pc \in {"escaped", "carriage_return"}
      BY <1>12 DEF LexCommonEscape, At, Other
    <3> QED BY <1>0, <1>1, <1>6, <3>1
  <2> QED BY <1>2, <1>12, <2>1, <2>2 DEF LexCommonEscape
<1>13. LexEscape => ReferencesRead'
  <2>1. PICK l, m : l = [local EXCEPT !.meta = TRUE] /\ m = [local EXCEPT !.control = TRUE]
    OBVIOUS
  <2>2. Agrees(l) /\ Agrees(m)
    BY <2>1, AgreesWith
  <2>3. Advance(1, "meta", l) \/ Advance(1, "control", m) \/ Advance(1, "control_code", m) => ReferencesRead'
    BY <1>1, <1>5, <2>2
  <2>4. /\ Read(1, Number(16, 2, 0, "SUCCESS", "hex_byte"), local) => ReferencesRead'
        /\ Read(0, Number(8, 3, 0, "SUCCESS", "octal_byte"), local) => ReferencesRead'
    BY <1>0, <1>1, <1>3
  <2> QED BY <1>2, <1>4, <2>1, <2>3, <2>4 DEF LexEscape
<1>14. LexNumberedByte => ReferencesRead'
  BY <1>2, <1>4 DEF LexNumberedByte
<1>15. LexMeta => ReferencesRead'
  <2>1. Advance(1, "meta_code", local) \/ Advance(1, "escape", local) => ReferencesRead'
    BY <1>1, <1>3, <1>5
  <2> QED BY <1>2, <1>4, <2>1 DEF LexMeta
<1>16. LexControl => ReferencesRead'
  <2>1. Advance(1, "control_code", local) \/ Advance(1, "escape", local) => ReferencesRead'
    BY <1>1, <1>3, <1>5
  <2>2. PICK l : l = [local EXCEPT !.bytes = Append(@, WithMeta(127)), !.control = FALSE, !.meta = FALSE]
    OBVIOUS
  <2>3. Agrees(l)
    BY <2>2, AgreesWith
  <2>4. Advance(1, "bytes", l) => ReferencesRead'
    BY <1>1, <1>5, <2>3
  <2> QED BY <1>2, <1>4, <2>1, <2>2, <2>4 DEF LexControl
<1>17. LexBytes => ReferencesRead'
  <2>1. PICK l : l = [local EXCEPT !.escape = pos]
    OBVIOUS
  <2>2. Agrees(l)
    BY <2>1, AgreesWith
  <2>3. Advance(1, "escape", l) => ReferencesRead'
    BY <1>1, <1>5, <2>2
  <2> QED BY <1>2, <1>4, <2>1, <2>3 DEF LexBytes
<1>18. LexUnicode => ReferencesRead'
  <2>1. Advance(1, "brace_open", local) => ReferencesRead'
    BY <1>1, <1>3, <1>5
  <2>2. Read(0, Number(16, 4, 0, "SUCCESS", "unicode_number"), local) => ReferencesRead'
    BY <1>0, <1>1, <1>3
  <2> QED BY <1>2, <2>1, <2>2, Zenon DEF LexUnicode
<1>19. LexUnicodeNumber => ReferencesRead'
  BY <1>2, <1>4 DEF LexUnicodeNumber
<1>20. LexBrace => ReferencesRead'
  <2>1. Advance(1, "brace_open", local) => ReferencesRead'
    BY <1>1, <1>3, <1>5
  <2>2. Read(0, BraceNumber, local) => ReferencesRead'
    BY <1>0, <1>1, <1>3 DEF BraceNumber
  <2> QED BY <1>2, <2>1, <2>2, Zenon DEF LexBrace
<1>21. LexBraceNumber => ReferencesRead'
  <2>1. PICK l : l = [local EXCEPT !.code_hi = pos]
    OBVIOUS
  <2>2. Agrees(l)
    BY <2>1, AgreesWith
  <2>3. Advance(0, "brace_next", l) => ReferencesRead'
    BY <1>1, <1>5, <2>2
  <2> QED BY <1>2, <2>1, <2>3 DEF LexBraceNumber
<1>22. LexBraceNext => ReferencesRead'
  <2>1. Advance(1, "brace_next", local) => ReferencesRead'
    BY <1>1, <1>3, <1>5
  <2>2. /\ Deliver(1, BraceCode, FALSE) => ReferencesRead'
        /\ Deliver(0, BraceCode, TRUE) => ReferencesRead'
    BY <1>4
  <2> QED BY <1>2, <2>1, <2>2, Zenon DEF LexBraceNext
<1> QED BY <1>7, <1>8, <1>9, <1>10, <1>11, <1>12, <1>13, <1>14, <1>15, <1>16, <1>17, <1>18, <1>19,
           <1>20, <1>21, <1>22, Zenon DEF LexEscapes

(* The number of captures is a number.                                       *)
LEMMA CountIsNat ==
  ASSUME Covered, Counting
  PROVE  num_capture_groups \in Nat
<1>1. PICK n : n = Len(tokens) /\ n \in Nat
  BY LongerBy DEF Covered
<1>2. IsFiniteSet(1 .. n) /\ IsFiniteSet(1 .. n - 1)
  BY <1>1, FS_Interval
<1> DEFINE now == {i \in 1 .. n : tokens[i].type \in Captures}
           before == {i \in 1 .. n - 1 : tokens[i].type \in Captures}
<1>3. now \in SUBSET (1 .. n) /\ before \in SUBSET (1 .. n - 1)
  OBVIOUS
<1>4. Cardinality(now) \in Nat /\ Cardinality(before) \in Nat
  <2> HIDE DEF now, before
  <2>1. IsFiniteSet(now) /\ IsFiniteSet(before)
    BY <1>2, <1>3, FS_Subset
  <2> QED BY <2>1, FS_CardinalityType
<1>5. num_capture_groups \in {Cardinality(now), Cardinality(before)}
  BY <1>1 DEF Counting, OpenedNow, OpenedBefore
<1> QED BY <1>4, <1>5

(* The number of a reference: its first digit, the next and the last.        *)
LEMMA NumberBegins ==
  ASSUME LexerInv, Covered, Holds, ReferencesRead, pc \in {"reference", "sign"}, Peek \in Decimal,
         NEW l, "number" \in DOMAIN l, Agrees(l), Read(0, CaptureNumber, l)
  PROVE  ReferencesRead'
<1>0. /\ pos \in Nat /\ Len(pattern) \in Nat /\ name.type = "NONE"
      /\ Peek # "END" => pos < Len(pattern) /\ Peek = pattern[pos + 1]
  BY PlaceInText DEF Holds, MayHold
<1>1. Peek # "END" /\ Peek # "-"
  BY DEF Decimal, Octal
<1>2. PICK n : n = [CaptureNumber EXCEPT !.lo = pos + 0]
  OBVIOUS
<1>3. /\ CountFields \subseteq DOMAIN n /\ n.base = 10 /\ n.most = Len(pattern) /\ n.overflowed = FALSE
      /\ n.digits = 0 /\ n.value = 0 /\ n.error # "INTERNAL_ERROR" /\ n.after = "numbered"
  BY <1>2 DEF CaptureNumber, DecimalNumber, Number, CountFields
<1>4. PICK m : m = [l EXCEPT !.number = n]
  OBVIOUS
<1>5. m.number = n /\ Agrees(m)
  BY <1>4 DEF Agrees, ReferenceFields
<1>6. Advance(0, "number", m)
  BY <1>2, <1>4 DEF Read
<1>7. pc' = "number" /\ local' = m /\ pos' = pos /\ name' = name /\ SameText
  BY <1>0, <1>6 DEF Advance, SameText, ParserVars, InputVars
<1>8. /\ local.name_lo \in Nat /\ local.has_num = FALSE
      /\ IF HasMinus(local.name_lo) THEN local.sign = -1 ELSE local.sign = 1 /\ HasDigit(local.name_lo)
      /\ DigitsFrom(local.name_lo) = pos
  <2>1. CASE pc = "reference"
    <3>1. local.name_lo = pos /\ local.sign = 1 /\ local.has_num = FALSE
      BY <2>1 DEF ReferencesRead, ReferenceAt, Fresh
    <3>2. ~HasMinus(pos) /\ HasDigit(pos)
      BY <1>0, <1>1 DEF HasMinus, HasDigit
    <3> QED BY <1>0, <3>1, <3>2 DEF DigitsFrom
  <2>2. CASE pc = "sign"
    BY <2>2 DEF ReferencesRead, ReferenceAt, DigitsFrom
  <2> QED BY <2>1, <2>2
<1>9. Counts(pos, pos, n)
  <2>1. All(pos, pos, Decimal)
    BY <1>0 DEF All
  <2>2. ~NotDigit(pos)
    BY <1>0, <1>1 DEF NotDigit
  <2>3. Value(pos, pos, 10) = 0
    BY <1>0, ValueOfNone
  <2> QED BY <1>0, <1>3, <2>1, <2>2, <2>3 DEF Counts
<1>10. Numbered(m, pos)
  BY <1>5, <1>8, <1>9 DEF Numbered, Agrees
<1>11. PICK p : p = pos
  OBVIOUS
<1>12. ReferenceAt("number", m, p, "NONE")
  BY <1>3, <1>5, <1>10, <1>11 DEF ReferenceAt, Agrees, Fresh, Referred
<1> QED BY <1>0, <1>7, <1>11, <1>12, StillReferring

LEMMA NumberGoesOn ==
  ASSUME LexerInv, Covered, Holds, ReferencesRead, pc = "number", local.number.after = "numbered", NumberDigit
  PROVE  ReferencesRead'
<1>0. /\ HasShape(local) /\ pos \in Nat /\ Len(pattern) \in Nat /\ pos <= Len(pattern)
      /\ name.type = "NONE" /\ ReferenceFields \subseteq DOMAIN local
  BY PlaceInText DEF Holds, MayHold, ReferencesRead, ReferenceAt
<1>1. PICK n, lo : n = local.number /\ lo = DigitsFrom(local.name_lo)
  OBVIOUS
<1>2. Numbered(local, pos) /\ n.error # "INTERNAL_ERROR"
  BY <1>1 DEF ReferencesRead, ReferenceAt
<1>3. lo \in Nat /\ Counts(lo, pos, n)
  BY <1>1, <1>2 DEF Numbered, DigitsFrom
<1>4. /\ CountFields \subseteq DOMAIN n /\ n.base = 10 /\ n.most = Len(pattern) /\ n.overflowed = FALSE
      /\ n.digits = pos - lo /\ n.value = Value(lo, pos, 10) /\ lo <= pos /\ All(lo, pos, Decimal)
  BY <1>3 DEF Counts
<1>5. AtDigit
  BY DEF NumberDigit
<1>6. Peek = pattern[pos + 1] /\ pattern[pos + 1] \in Decimal
  BY <1>1, <1>4, <1>5, DigitThere
<1>7. PICK q, digit : q \in Nat /\ q = pos + 1 /\ digit = DigitValue(pattern[q])
  BY <1>0
<1>8. Value(lo, q, 10) = n.value * 10 + digit
  BY <1>0, <1>3, <1>4, <1>7, ValueOfNext
<1>9. All(lo, q, Decimal) /\ lo <= q /\ q # lo
  BY <1>0, <1>3, <1>4, <1>6, <1>7 DEF All
<1>10. PICK m : m = [n EXCEPT !.value = Appended(DigitValue(Peek)), !.digits = @ + 1]
  OBVIOUS
<1>11. PICK l : l = [local EXCEPT !.number = m]
  OBVIOUS
<1>12. Advance(1, "number", l)
  BY <1>1, <1>10, <1>11 DEF NumberDigit
<1>13. l.number = m /\ Agrees(l)
  BY <1>0, <1>11 DEF HasShape, Fields, Agrees, ReferenceFields
<1>14. /\ CountFields \subseteq DOMAIN m /\ m.base = 10 /\ m.most = Len(pattern) /\ m.overflowed = FALSE
       /\ m.digits = n.digits + 1 /\ m.error = n.error /\ m.after = "numbered"
       /\ m.value = n.value * 10 + digit
  BY <1>1, <1>4, <1>6, <1>7, <1>10 DEF CountFields, Appended
<1>15. Counts(lo, q, m)
  <2>1. m.digits = q - lo
    <3>1. m.digits = (pos - lo) + 1 /\ q = pos + 1 /\ pos \in Nat /\ lo \in Nat
      BY <1>0, <1>3, <1>4, <1>7, <1>14
    <3> QED BY <3>1
  <2> QED BY <1>8, <1>9, <1>14, <2>1 DEF Counts
<1>16. Numbered(l, q)
  BY <1>1, <1>2, <1>13, <1>15 DEF Numbered, Agrees
<1>17. ReferenceAt("number", l, q, "NONE")
  BY <1>2, <1>13, <1>14, <1>16 DEF ReferenceAt, Agrees, Fresh, Referred
<1> QED BY <1>0, <1>7, <1>12, <1>17, StillReferring DEF Advance, SameText, ParserVars, InputVars

LEMMA NumberReferring ==
  ASSUME LexerInv, Covered, Holds, ReferencesRead, pc = "number",
         NumberDigit \/ NumberTooLarge \/ NumberEnd
  PROVE  ReferencesRead'
<1>0. /\ HasShape(local) /\ pos \in Nat /\ Len(pattern) \in Nat /\ pos <= Len(pattern)
      /\ ReferenceFields \subseteq DOMAIN local /\ local.number.after \in Afters
      /\ name.type # "NONE" /\ local.kind # "property" => Nameable(local)
  BY PlaceInText DEF ReferencesRead, ReferenceAt, LexerInv, Located
<1>1. CASE local.number.after = "numbered"
  <2>1. name.type = "NONE" /\ Numbered(local, pos) /\ local.number.error # "INTERNAL_ERROR"
    BY <1>1 DEF Holds, MayHold, ReferencesRead, ReferenceAt
  <2>2. NumberTooLarge => ReferencesRead'
    BY <2>1, ReferringEnds DEF NumberTooLarge
  <2>3. CASE NumberEnd
    <3>1. PICK n, lo : n = local.number /\ lo = DigitsFrom(local.name_lo)
      OBVIOUS
    <3>2. lo \in Nat /\ Counts(lo, pos, n)
      BY <2>1, <3>1 DEF Numbered, DigitsFrom
    <3>3. /\ n.base = 10 /\ n.most = Len(pattern)
          /\ n.digits = pos - lo /\ lo <= pos /\ All(lo, pos, Decimal)
      BY <3>2 DEF Counts
    <3>4. Peek \notin Decimal
      <4>1. n.digits = n.most => lo = 0 /\ pos = Len(pattern)
        BY <1>0, <3>2, <3>3
      <4>2. "END" \notin Decimal
        BY DEF Decimal, Octal
      <4>3. n.digits = n.most => Peek = "END"
        BY <1>0, <4>1 DEF Peek, AtEnd
      <4> QED BY <1>0, <2>3, <3>1, <3>2, <3>3, <4>2, <4>3 DEF NumberEnd, AtDigit, DigitsOf
    <3>5. NotDigit(pos)
      BY <1>0, <3>4 DEF NotDigit, Peek, AtEnd
    <3>6. RunEnd(lo, Decimal) = pos
      BY <1>0, <3>2, <3>3, <3>5, RunEndIs
    <3>7. PICK p : p = pos
      OBVIOUS
    <3>8. ReferenceAt("numbered", local, p, "NONE")
      BY <1>0, <2>1, <3>1, <3>6, <3>7 DEF ReferenceAt, Fresh, Referred
    <3>9. Advance(0, "numbered", local)
      BY <1>1, <2>3 DEF NumberEnd
    <3> QED BY <1>0, <2>1, <3>7, <3>8, <3>9, StillReferring DEF Advance, SameText, ParserVars, InputVars
  <2> QED BY <1>1, <2>2, <2>3, NumberGoesOn
<1>2. CASE local.number.after # "numbered"
  <2>1. ASSUME NEW n, NEW where \in {"number", local.number.after}, NEW l, Agrees(l),
               l.number.after = local.number.after, Advance(n, where, l)
        PROVE  ReferencesRead'
    <3>1. PICK p, held : p = pos + n /\ held = name.type
      OBVIOUS
    <3>2. local.number.after = "depth_read" => Targeted(local)
      BY DEF ReferencesRead, ReferenceAt
    <3>3. Targeted(local) => Targeted(l)
      BY <2>1 DEF Targeted, Agrees
    <3>4. name.type # "NONE" /\ l.kind # "property" => Nameable(l)
      BY <1>0, <2>1 DEF Agrees, Nameable
    <3>5. /\ where \notin Fresh /\ where \notin {"reference", "sign", "numbered", "negation",
                                                 "property_name", "name", "named", "idle"}
          /\ where \in Referred => local.number.after = "depth_read"
      BY <1>0, <1>2, <2>1 DEF Afters, Fresh, Referred
    <3>6. ReferenceAt(where, l, p, held)
      BY <1>2, <2>1, <3>1, <3>2, <3>3, <3>4, <3>5 DEF ReferenceAt, Agrees
    <3> QED BY <2>1, <3>1, <3>5, <3>6, StillReferring DEF Advance, SameText, ParserVars, InputVars
  <2>2. NumberDigit => ReferencesRead'
    <3>1. PICK l : l = [local EXCEPT !.number.value = Appended(DigitValue(Peek)), !.number.digits = @ + 1]
      OBVIOUS
    <3>2. Agrees(l) /\ l.number.after = local.number.after
      BY <1>0, <3>1 DEF HasShape, Fields, Agrees, ReferenceFields
    <3> QED BY <2>1, <3>1, <3>2 DEF NumberDigit
  <2>3. NumberTooLarge => ReferencesRead'
    <3>1. PICK l : l = [local EXCEPT !.number.overflowed = TRUE]
      OBVIOUS
    <3>2. Agrees(l) /\ l.number.after = local.number.after
      BY <1>0, <3>1 DEF HasShape, Fields, Agrees, ReferenceFields
    <3> QED BY <2>1, <3>1, <3>2, ReferringEnds DEF NumberTooLarge
  <2>4. NumberEnd => ReferencesRead'
    BY <2>1, AgreesWith DEF NumberEnd
  <2> QED BY <2>2, <2>3, <2>4
<1> QED BY <1>1, <1>2

(* What a reference refers to is known, and stays.                           *)
LEMMA TargetGoesOn ==
  ASSUME ReferencesRead, NEW n, NEW where \in Referred, NEW l, ReferenceFields \subseteq DOMAIN l,
         Targeted(l), name.type # "NONE" /\ l.kind # "property" => Nameable(l), Advance(n, where, l)
  PROVE  ReferencesRead'
<1>1. PICK p, held : p = pos + n /\ held = name.type
  OBVIOUS
<1>2. where \notin Fresh \cup {"reference", "sign", "number", "numbered", "negation", "property_name",
                               "name", "named", "idle"}
  BY DEF Referred, Fresh
<1>3. ReferenceAt(where, l, p, held)
  BY <1>1, <1>2 DEF ReferenceAt
<1> QED BY <1>1, <1>2, <1>3, StillReferring DEF Advance, SameText, ParserVars, InputVars

LEMMA ReferenceReferring ==
  ASSUME LexerInv, Covered, Holds, ReferencesRead, LexReference \/ LexSign
  PROVE  ReferencesRead'
<1>0. /\ pos \in Nat /\ Len(pattern) \in Nat /\ name.type = "NONE" /\ "number" \in DOMAIN local
      /\ Peek # "END" => pos < Len(pattern) /\ Peek = pattern[pos + 1]
      /\ ReferenceFields \subseteq DOMAIN local /\ pc \in {"reference", "sign"}
  <2>1. pc \in {"reference", "sign"}
    BY DEF LexReference, LexSign, At, Other
  <2> QED BY <2>1, PlaceInText DEF Holds, MayHold, HasShape, Fields, ReferencesRead, ReferenceAt
<1>1. pc = "reference" => /\ local.name_lo = pos /\ local.sign = 1 /\ local.has_num = FALSE
  BY DEF ReferencesRead, ReferenceAt, Fresh
<1>2. Unterminated => ReferencesRead'
  BY ReferringEnds
<1>3. ASSUME Peek \in Decimal, NEW l, l = [local EXCEPT !.num_lo = pos], Read(0, CaptureNumber, l)
      PROVE  ReferencesRead'
  <2>1. Agrees(l) /\ "number" \in DOMAIN l
    BY <1>0, <1>3, AgreesWith
  <2> QED BY <1>0, <1>3, <2>1, NumberBegins
<1>4. ASSUME pc = "reference", Peek = "-", NEW l, l = [local EXCEPT !.num_lo = pos, !.sign = -1],
             Advance(1, "sign", l)
      PROVE  ReferencesRead'
  <2>1. l.sign = -1 /\ l.has_num = FALSE /\ l.name_lo = pos /\ ReferenceFields \subseteq DOMAIN l
    BY <1>0, <1>1, <1>4 DEF ReferenceFields
  <2>2. HasMinus(pos)
    BY <1>0, <1>4 DEF HasMinus
  <2>3. PICK p : p = pos + 1
    OBVIOUS
  <2>4. ReferenceAt("sign", l, p, "NONE")
    BY <1>0, <2>1, <2>2, <2>3 DEF ReferenceAt, Fresh, Referred
  <2> QED BY <1>0, <1>4, <2>3, <2>4, StillReferring DEF Advance, SameText, ParserVars, InputVars
<1>5. ASSUME pc = "reference", Peek \notin Decimal \cup {"-", "END"}, OpenName
      PROVE  ReferencesRead'
  <2>1. Nameable(local)
    BY <1>0, <1>1, <1>5 DEF Nameable, HasMinus, HasDigit
  <2> QED BY <1>5, <2>1, ReferringNames
<1>6. Peek \in Decimal /\ Read(0, CaptureNumber, local) => ReferencesRead'
  BY <1>0, AgreesWith, NumberBegins
<1>7. /\ \A at, code, span : FailAt(at, code, span) => ReferencesRead'
      /\ \A n, code : FailHere(n, code) => ReferencesRead'
  BY ReferringEnds
<1>8. LexReference => ReferencesRead'
  BY <1>2, <1>3, <1>4, <1>5, Zenon DEF LexReference, At, Other
<1>9. LexSign => ReferencesRead'
  BY <1>6, <1>7 DEF LexSign, At, Other
<1> QED BY <1>8, <1>9

(* A number, read to its last digit, is what the reference refers to.        *)
LEMMA NumberedReferring ==
  ASSUME LexerInv, Covered, Counting, Holds, ReferencesRead, LexNumbered
  PROVE  ReferencesRead'
<1>0. /\ pc = "numbered" /\ pos \in Nat /\ Len(pattern) \in Nat /\ pos <= Len(pattern)
      /\ name.type = "NONE" /\ ReferenceFields \subseteq DOMAIN local /\ num_capture_groups \in Nat
  <2>1. pc = "numbered"
    BY DEF LexNumbered
  <2> QED BY <2>1, PlaceInText, CountIsNat DEF Holds, MayHold, ReferencesRead, ReferenceAt
<1>1. PICK lo, value : lo = local.name_lo /\ value = local.number.value
  OBVIOUS
<1>2. Numbered(local, pos) /\ pos = RunEnd(DigitsFrom(lo), Decimal)
  BY <1>0, <1>1 DEF ReferencesRead, ReferenceAt
<1>3. PICK from : from = DigitsFrom(lo)
  OBVIOUS
<1>4. /\ lo \in Nat /\ from \in Nat /\ from <= pos /\ All(from, pos, Decimal)
      /\ value = Value(from, pos, 10)
      /\ IF HasMinus(lo) THEN local.sign = -1 ELSE local.sign = 1 /\ HasDigit(lo)
  BY <1>1, <1>2, <1>3 DEF Numbered, DigitsFrom, Counts
<1>5. value \in Nat
  BY <1>0, <1>4, ValueIsNat
<1>6. PICK number : number = IF IsRelative THEN FromLast(value) ELSE value
  OBVIOUS
<1>7. IsRelative <=> HasMinus(lo) /\ value > 0
  BY <1>1, <1>4 DEF IsRelative
<1>8. number = NumberOf(lo)
  BY <1>2, <1>3, <1>4, <1>6, <1>7 DEF NumberOf, FromLast
<1>9. ASSUME IsRelative => number > 0, NEW where \in {"depth", "close"}, NEW l,
             l = [local EXCEPT !.num = number, !.has_num = TRUE], Advance(0, where, l)
      PROVE  ReferencesRead'
  <2>1. l.name_lo = lo /\ l.num = number /\ l.has_num = TRUE /\ ReferenceFields \subseteq DOMAIN l
    BY <1>0, <1>1, <1>9 DEF ReferenceFields
  <2>2. number \in Nat
    BY <1>0, <1>5, <1>6, <1>9 DEF FromLast
  <2>3. Targeted(l)
    BY <1>4, <1>8, <2>1, <2>2 DEF Targeted, HasMinus, HasDigit
  <2>4. where \in Referred
    BY <1>9 DEF Referred
  <2> QED BY <1>0, <1>9, <2>1, <2>3, <2>4, TargetGoesOn
<1>10. \A n, code, at : Fail(n, code, at) => ReferencesRead'
  BY ReferringEnds
<1>11. \/ \E code, at : Fail(0, code, at)
       \/ /\ IsRelative => number > 0
          /\ \E where \in {"depth", "close"} : Advance(0, where, [local EXCEPT !.num = number, !.has_num = TRUE])
  BY <1>1, <1>6 DEF LexNumbered
<1> QED BY <1>9, <1>10, <1>11

LEMMA DepthReferring ==
  ASSUME LexerInv, Covered, Holds, ReferencesRead, LexDepth
  PROVE  ReferencesRead'
<1>0. /\ pc \in {"depth", "depth_sign", "depth_read"} /\ ReferenceFields \subseteq DOMAIN local
      /\ Targeted(local) /\ (name.type # "NONE" /\ local.kind # "property" => Nameable(local))
      /\ "number" \in DOMAIN local
  <2>1. pc \in {"depth", "depth_sign", "depth_read"}
    BY DEF LexDepth, At, Other
  <2> QED BY <2>1, PlaceInText DEF ReferencesRead, ReferenceAt, Referred, HasShape, Fields
<1>1. ASSUME NEW l, Agrees(l) \/ l = [local EXCEPT !.depth_lo = pos, !.sign = IF Peek = "+" THEN 1 ELSE -1]
      PROVE  /\ ReferenceFields \subseteq DOMAIN l /\ Targeted(l)
             /\ name.type # "NONE" /\ l.kind # "property" => Nameable(l)
  <2>1. /\ ReferenceFields \subseteq DOMAIN l
        /\ l.kind = local.kind /\ l.name_lo = local.name_lo
        /\ l.num = local.num /\ l.has_num = local.has_num
    BY <1>0, <1>1 DEF Agrees, ReferenceFields
  <2> QED BY <1>0, <2>1 DEF Targeted, Nameable
<1>2. AfterReference \in Referred /\ "depth_sign" \in Referred
  BY DEF AfterReference, Referred
<1>3. PICK l, m, r : /\ l = [local EXCEPT !.name_hi = pos]
                     /\ m = [local EXCEPT !.depth_lo = pos, !.sign = IF Peek = "+" THEN 1 ELSE -1]
                     /\ r = [local EXCEPT !.has_depth = TRUE, !.depth = local.sign * local.number.value,
                                          !.name_hi = pos]
  OBVIOUS
<1>4. Agrees(l) /\ Agrees(r)
  BY <1>3, AgreesWith
<1>5. Advance(0, AfterReference, l) \/ Advance(0, AfterReference, r) => ReferencesRead'
  BY <1>1, <1>2, <1>4, TargetGoesOn
<1>6. Advance(1, "depth_sign", m) => ReferencesRead'
  BY <1>1, <1>2, <1>3, TargetGoesOn
<1>7. ASSUME Read(0, CaptureDepth, local)
      PROVE  ReferencesRead'
  <2>1. PICK n : n = [CaptureDepth EXCEPT !.lo = pos + 0]
    OBVIOUS
  <2>2. n.after = "depth_read"
    BY <2>1 DEF CaptureDepth, DecimalNumber, Number
  <2>3. PICK new : new = [local EXCEPT !.number = n]
    OBVIOUS
  <2>4. new.number = n /\ Agrees(new)
    BY <1>0, <2>3, AgreesWith
  <2>5. Advance(0, "number", new)
    BY <1>7, <2>1, <2>3 DEF Read
  <2>6. PICK p, held : p = pos + 0 /\ held = name.type
    OBVIOUS
  <2>7. /\ ReferenceFields \subseteq DOMAIN new /\ Targeted(new)
        /\ held # "NONE" /\ new.kind # "property" => Nameable(new)
    BY <1>1, <2>4, <2>6
  <2>8. ReferenceAt("number", new, p, held)
    BY <2>2, <2>4, <2>6, <2>7 DEF ReferenceAt, Fresh, Referred
  <2> QED BY <2>5, <2>6, <2>8, StillReferring DEF Advance, SameText, ParserVars, InputVars
<1>8. \A n, code, lo : Fail(n, code, lo) => ReferencesRead'
  BY ReferringEnds
<1> QED BY <1>3, <1>5, <1>6, <1>7, <1>8, Zenon DEF LexDepth

LEMMA CloseReferring ==
  ASSUME LexerInv, ReferencesRead, LexClose
  PROVE  ReferencesRead'
<1>0. /\ pc = "close" /\ ReferenceFields \subseteq DOMAIN local
      /\ Targeted(local) /\ (name.type # "NONE" /\ local.kind # "property" => Nameable(local))
  <2>1. pc = "close"
    BY DEF LexClose, At, Other
  <2> QED BY <2>1 DEF ReferencesRead, ReferenceAt, Referred
<1>1. PICK l : l = [local EXCEPT !.name_hi = pos]
  OBVIOUS
<1>2. Agrees(l)
  BY <1>1, AgreesWith
<1>3. Advance(1, "condition_close", l) => ReferencesRead'
  <2>1. /\ ReferenceFields \subseteq DOMAIN l /\ Targeted(l)
        /\ name.type # "NONE" /\ l.kind # "property" => Nameable(l)
    BY <1>0, <1>2 DEF Agrees, Targeted, Nameable
  <2>2. "condition_close" \in Referred
    BY DEF Referred
  <2> QED BY <2>1, <2>2, TargetGoesOn
<1>4. /\ Unterminated => ReferencesRead'
      /\ \A n, code, lo : Fail(n, code, lo) => ReferencesRead'
      /\ \A n : Incomplete(n) => ReferencesRead'
  BY ReferringEnds
<1>5. Emit(1, "NAMED_GROUP_OPEN", Target) => ReferencesRead'
  <2>1. "NAMED_GROUP_OPEN" \notin Referring
    BY DEF Referring
  <2> QED BY <2>1, ReferringEnds
<1>6. (local.has_num => local.num # 0) /\ Emit(1, "BACK_REF", Target) => ReferencesRead'
  BY <1>0, TargetEmitted
<1>7. Emit(1, "CALL", Target) => ReferencesRead'
  BY <1>0, TargetEmitted
<1> QED BY <1>1, <1>3, <1>4, <1>5, <1>6, <1>7, Zenon DEF LexClose

(* Names refer to nothing by number.                                         *)
LEMMA NameReferring ==
  ASSUME LexerInv, ReferencesRead, LexName \/ TrimName \/ LexNamed
  PROVE  ReferencesRead'
<1>0. /\ pc \in {"name", "name_escape", "named"} /\ ReferenceFields \subseteq DOMAIN local
      /\ name.type # "NONE" /\ local.kind # "property" => Nameable(local)
      /\ pc \in {"name", "named"} => name.type # "NONE"
      /\ "type" \in DOMAIN name
  <2>1. pc \in {"name", "name_escape", "named"}
    BY DEF LexName, TrimName, LexNamed, At, Other
  <2> QED BY <2>1 DEF ReferencesRead, ReferenceAt, LexerInv, Owned
<1>1. /\ Unterminated => ReferencesRead'
      /\ \A at, code, span : FailAt(at, code, span) => ReferencesRead'
      /\ \A n, code, lo : Fail(n, code, lo) => ReferencesRead'
      /\ \A n, code : FailHere(n, code) => ReferencesRead'
      /\ \A n : OutOfMemory(n) => ReferencesRead'
  BY ReferringEnds
<1>2. Agrees(local)
  BY AgreesWith
<1>3. CASE LexName
  <2>1. PICK l : l = [local EXCEPT !.escape = pos, !.first = pos, !.bytes = <<>>]
    OBVIOUS
  <2>2. Agrees(l)
    BY <2>1, AgreesWith
  <2>3. Unread("name_escape") /\ Unread("unicode") /\ Unread("escape")
    BY DEF Unread, Fresh, Referred
  <2>4. /\ Advance(1, "name_escape", l) => ReferencesRead'
        /\ Advance(1, "unicode", local) \/ Advance(0, "escape", local) => ReferencesRead'
    BY <1>2, <2>2, <2>3, ReferringForms
  <2>5. \A bytes, is_next, n :
          pc = "name" /\ AppendToName(bytes, is_next, n, "name", local) => ReferencesRead'
    BY <1>0, <1>2, ReferringNames
  <2>6. \/ Unterminated \/ \E n, code : FailHere(n, code)
        \/ Advance(1, "name_escape", l)
        \/ Advance(1, "unicode", local) \/ Advance(0, "escape", local)
        \/ \E bytes, is_next, n : pc = "name" /\ AppendToName(bytes, is_next, n, "name", local)
    BY <1>3, <2>1, Zenon DEF LexName, At, Other
  <2> QED BY <1>1, <2>4, <2>5, <2>6
<1>4. CASE TrimName
  <2>1. CASE OutOfMemory(0)
    BY <1>1, <2>1
  <2>2. CASE ~OutOfMemory(0)
    <3>1. /\ pc = "name" /\ pc' = "named" /\ local' = local /\ pos' = pos /\ SameText
          /\ name'.type # "NONE"
      BY <1>0, <1>4, <2>2 DEF TrimName, Other, Own, SameText, ParserVars, InputVars
    <3>2. PICK p, held, l : p = pos /\ held = name'.type /\ l = local
      OBVIOUS
    <3>3. ReferenceAt("named", l, p, held)
      BY <1>0, <3>1, <3>2 DEF ReferenceAt, Fresh, Referred
    <3> QED BY <3>1, <3>2, <3>3, StillReferring
  <2> QED BY <2>1, <2>2
<1>5. CASE LexNamed
  <2>1. ASSUME local.kind # "property", NEW where \in {"depth", "close"}, Advance(0, where, local)
        PROVE  ReferencesRead'
    <3>1. Nameable(local)
      BY <1>0, <1>5, <2>1 DEF LexNamed
    <3>2. Targeted(local)
      BY <3>1 DEF Targeted, Nameable
    <3>3. where \in Referred
      BY <2>1 DEF Referred
    <3> QED BY <1>0, <2>1, <3>1, <3>2, <3>3, TargetGoesOn
  <2>2. \A addresses, hi, data : EmitReleasing(addresses, hi, "CHAR_PROP", data) => ReferencesRead'
    <3>1. "CHAR_PROP" \notin Referring
      BY DEF Referring
    <3> QED BY <3>1, ReferringForms
  <2>3. \/ \E n, code, lo : Fail(n, code, lo)
        \/ \E n, code : FailHere(n, code)
        \/ \E at, code, span : FailAt(at, code, span)
        \/ \E addresses, hi, data : EmitReleasing(addresses, hi, "CHAR_PROP", data)
        \/ local.kind # "property" /\ \E where \in {"depth", "close"} : Advance(0, where, local)
    <3>1. (IF TakesDepth THEN "depth" ELSE "close") \in {"depth", "close"}
      OBVIOUS
    <3> QED BY <1>5, <3>1, Zenon DEF LexNamed
  <2> QED BY <1>1, <2>1, <2>2, <2>3
<1> QED BY <1>3, <1>4, <1>5

LEMMA ReferencesReferring ==
  ASSUME LexerInv, Covered, Counting, Holds, ReferencesRead, LexReferences
  PROVE  ReferencesRead'
BY ReferenceReferring, NumberedReferring, DepthReferring, CloseReferring, NameReferring, Zenon
   DEF LexReferences

LEMMA StepReferring ==
  ASSUME LexerInv, Covered, Counting, Holds, BareRead, ReferencesRead, Next
  PROVE  ReferencesRead'
<1>1. CASE pc = "idle"
  <2>1. Lex
    BY <1>1, IdleSteps
  <2>2. name.type = "NONE"
    BY <1>1 DEF Holds, MayHold
  <2>3. PICK l, p : l = Local(pos) /\ p = pos
    OBVIOUS
  <2>4. PICK where \in {"token", "in_brace"} : where = IF in_unicode_escape_brace THEN "in_brace" ELSE "token"
    OBVIOUS
  <2>5. /\ pc' = where /\ local' = l /\ pos' = p /\ name' = name
    BY <2>1, <2>3, <2>4 DEF Lex
  <2>6. /\ ReferenceFields \subseteq DOMAIN l /\ l.sign = 1 /\ l.has_num = FALSE
    BY <2>3 DEF Local, ReferenceFields
  <2>8. ReferenceAt(pc, local, pos, name.type)'
    BY <2>2, <2>4, <2>5, <2>6 DEF ReferenceAt, Referred
  <2>9. ReferenceToken'
    BY <2>4, <2>5 DEF ReferenceToken
  <2> QED BY <2>8, <2>9 DEF ReferencesRead
<1>2. CASE pc # "idle"
  <2>1. pc \notin {"idle", "failed"}
    BY <1>2, BracePoints
  <2>2. pos \in Nat
    BY <2>1, PlaceInText
  <2>3. InvalidBytes => ReferencesRead'
    BY ReferringForms DEF InvalidBytes
  <2>4. NumberDigit \/ NumberTooLarge \/ NumberEnd => ReferencesRead'
    <3>1. NumberDigit \/ NumberTooLarge \/ NumberEnd => pc = "number"
      BY DEF NumberDigit, NumberTooLarge, NumberEnd, AtDigit
    <3> QED BY <3>1, NumberReferring
  <2>5. LexToken => ReferencesRead'
    BY <2>2, TokenReferring
  <2>6. LexEscapes => ReferencesRead'
    BY <2>1, EscapesReferring
  <2>7. LexReferences => ReferencesRead'
    BY ReferencesReferring
  <2>8. ~Lex
    BY <1>2 DEF Lex
  <2> QED BY <2>3, <2>4, <2>5, <2>6, <2>7, <2>8 DEF Next
<1> QED BY <1>1, <1>2

(* Before the first step, and where nothing changes.                         *)
LEMMA InitRefers ==
  ASSUME Init
  PROVE  Counting /\ Holds /\ BareRead /\ ReferencesRead
<1>1. /\ pc = "token" /\ pos = 0 /\ local = Local(0) /\ tokens = <<>> /\ name.type = "NONE"
      /\ num_capture_groups = 0
  BY DEF Init, NoName
<1>2. Counting
  <2>1. {i \in 1 .. Len(tokens) : tokens[i].type \in Captures} = {}
    BY <1>1
  <2> QED BY <1>1, <2>1, FS_EmptySet DEF Counting, OpenedNow
<1>3. Holds
  BY <1>1 DEF Holds
<1>4. BareRead
  BY <1>1 DEF BareRead, BareAt, BareToken, IsBare, Local
<1>5. ReferencesRead
  BY <1>1 DEF ReferencesRead, ReferenceAt, ReferenceToken, ReferenceFields, Referred, Local
<1> QED BY <1>2, <1>3, <1>4, <1>5

LEMMA StutterRefers ==
  ASSUME Counting, Holds, BareRead, ReferencesRead, UNCHANGED vars
  PROVE  (Counting /\ Holds /\ BareRead /\ ReferencesRead)'
<1>0. /\ UNCHANGED <<pc, pos, local, name, tokens, tok, num_capture_groups>> /\ SameText
  BY DEF vars, ParserVars, InputVars, SameText
<1>1. Counting'
  BY <1>0 DEF Counting, OpenedNow, OpenedBefore
<1>2. Holds'
  BY <1>0 DEF Holds
<1>3. PICK where, l, p, held : where = pc /\ l = local /\ p = pos /\ held = name.type
  OBVIOUS
<1>4. BareAt(where, l, p, held) /\ ReferenceAt(where, l, p, held)
  BY <1>3 DEF BareRead, ReferencesRead
<1>5. CASE pc # "idle"
  BY <1>0, <1>1, <1>2, <1>3, <1>4, <1>5, StillBare, StillReferring
<1>6. CASE pc = "idle"
  <2>1. PICK lo, token : lo = tok.lo /\ token = tok
    OBVIOUS
  <2>2. /\ IsGroup(lo)' = IsGroup(lo) /\ BareValue(lo)' = BareValue(lo)
        /\ RunEnd(lo + 1, Decimal)' = RunEnd(lo + 1, Decimal)
        /\ StartsBare(lo)' = StartsBare(lo)
    <3>1. \A from : RunEnd(from, Decimal)' = RunEnd(from, Decimal)
      BY <1>0 DEF RunEnd, All, SameText
    <3> QED BY <1>0, <3>1, SameBare
  <2>3. /\ IsGroup(tok.lo)' = IsGroup(lo) /\ BareValue(tok.lo)' = BareValue(lo)
        /\ RunEnd(tok.lo + 1, Decimal)' = RunEnd(lo + 1, Decimal)
        /\ StartsBare(tok.lo)' = StartsBare(lo)
    BY <1>0, <2>1, <2>2, Zenon DEF IsGroup, BareValue, RunEnd, StartsBare
  <2>4. BareToken'
    BY <1>0, <2>1, <2>3 DEF BareRead, BareToken
  <2>5. BareAt(pc, local, pos, name.type)'
    BY <1>0, <1>6 DEF BareRead, BareAt, IsBare
  <2>6. Targeted(l)' = Targeted(l)
    BY <1>0, SameReference
  <2>7. Targeted(local)' = Targeted(local)
    BY <1>0, <1>3, <2>6, Zenon DEF Targeted
  <2>8. ReferenceToken'
    BY <1>0, <2>1, <2>3, <2>7 DEF ReferencesRead, ReferenceToken
  <2>9. Nameable(l)' = Nameable(l)
    BY <1>0, SameReference
  <2>10. Nameable(local)' = Nameable(local)
    BY <1>0, <1>3, <2>9, Zenon DEF Nameable
  <2>11. ReferenceAt(pc, local, pos, name.type)'
    BY <1>0, <1>6, <2>10 DEF ReferencesRead, ReferenceAt, Fresh, Referred
  <2> QED BY <1>1, <1>2, <2>4, <2>5, <2>8, <2>11 DEF BareRead, ReferencesRead
<1> QED BY <1>5, <1>6

(* What has been read of a reference, once the token is returned.            *)
LEMMA BareWritten ==
  ASSUME LexerInv, Covered, pc = "idle"
  PROVE  /\ tok.lo \in Nat /\ tok.hi \in Nat
         /\ IsBareNumber <=> StartsBare(tok.lo) /\ tok.lo + 2 <= tok.hi
<1>1. PICK lo, hi \in Nat : lo = tok.lo /\ hi = tok.hi
  BY DEF Covered, TokenStands, LexerInv, Located
<1>2. /\ hi <= Len(pattern) /\ Len(pattern) \in Nat /\ pattern \in Seq(Symbols)
      /\ lo < hi \/ lo = Len(pattern)
  BY <1>1 DEF Covered, TokenStands, LexerInv, Located
<1>3. CASE lo < hi
  <2>1. /\ Len(Text(lo, hi)) = hi - lo
        /\ \A i \in 1 .. hi - lo : Text(lo, hi)[i] = pattern[lo + i]
    BY <1>2, <1>3, TextIs
  <2>2. PICK text : text = Text(lo, hi)
    OBVIOUS
  <2>3. Len(text) >= 2 <=> lo + 2 <= hi
    BY <2>1, <2>2
  <2>4. lo + 2 <= hi => text[1] = pattern[lo + 1] /\ text[2] = pattern[lo + 2] /\ lo + 1 < Len(pattern)
    BY <1>2, <2>1, <2>2
  <2> QED BY <1>1, <2>2, <2>3, <2>4 DEF IsBareNumber, Written, StartsBare
<1>4. CASE lo = Len(pattern)
  <2>1. ~(lo + 1 < Len(pattern))
    BY <1>4
  <2>2. Text(lo, hi) = <<>>
    BY <1>2, <1>4 DEF Text
  <2>3. Len(Text(lo, hi)) = 0
    BY <2>2
  <2> QED BY <1>1, <2>1, <2>3 DEF IsBareNumber, Written, StartsBare
<1> QED BY <1>1, <1>2, <1>3, <1>4

LEMMA ReadResolves ==
  ASSUME LexerInv, Covered, Counting, BareRead, ReferencesRead
  PROVE  ReferencesResolve
<1> SUFFICES ASSUME HasToken PROVE ReferencesResolve
  BY DEF ReferencesResolve
<1>1. pc = "idle" /\ num_capture_groups = OpenedBefore
  BY DEF HasToken, Counting
<1>2. /\ tok.lo \in Nat /\ tok.hi \in Nat
      /\ IsBareNumber <=> StartsBare(tok.lo) /\ tok.lo + 2 <= tok.hi
  BY <1>1, BareWritten
<1>3. ASSUME IsBareNumber
      PROVE  LET last == RunEnd(tok.lo + 1, Decimal)
                 number == Value(tok.lo + 1, last, 10)
                 is_group == number <= bare_back_ref_max_num_limit
                               /\ (number <= 9 \/ number <= OpenedBefore)
             IN  IF is_group THEN tok.type = "BACK_REF" /\ tok.hi = last /\ tok.data.num = number
                 ELSE tok.type = "CODE"
  <2>1. StartsBare(tok.lo) /\ tok.lo < tok.hi
    BY <1>2, <1>3
  <2>2. IF IsGroup(tok.lo)
          THEN tok.type = "BACK_REF" /\ tok.hi = RunEnd(tok.lo + 1, Decimal) /\ tok.data.num = BareValue(tok.lo)
          ELSE tok.type = "CODE"
    BY <1>1, <2>1 DEF BareRead, BareToken
  <2> QED BY <1>1, <2>2, Zenon DEF IsGroup, BareValue
<1>4. ASSUME tok.type \in {"BACK_REF", "CALL", "CONDITIONAL_OPEN"}, ~IsBareNumber
      PROVE  LET lo == local.name_lo
                 is_relative == pattern[lo + 1] = "-"
                 digits == IF is_relative THEN lo + 1 ELSE lo
                 number == Value(digits, RunEnd(digits, Decimal), 10)
             IN  /\ tok.data.has_num = (is_relative \/ pattern[lo + 1] \in Decimal)
                 /\ tok.data.has_num =>
                      tok.data.num = IF is_relative /\ number > 0 THEN OpenedBefore + 1 - number
                                     ELSE number
                 /\ tok.type # "CALL" /\ tok.data.has_num => tok.data.num > 0
  <2>1. /\ Targeted(local) /\ tok.data.has_num = local.has_num /\ tok.data.num = local.num
        /\ tok.type # "CALL" /\ tok.data.has_num => tok.data.num > 0
    BY <1>1, <1>2, <1>4 DEF ReferencesRead, ReferenceToken, Referring
  <2>2. PICK lo : lo = local.name_lo
    OBVIOUS
  <2>3. /\ HasMinus(lo) = (pattern[lo + 1] = "-") /\ HasDigit(lo) = (pattern[lo + 1] \in Decimal)
        /\ local.has_num = (HasMinus(lo) \/ HasDigit(lo))
        /\ local.has_num => local.num = NumberOf(lo)
    BY <2>1, <2>2 DEF Targeted, HasMinus, HasDigit
  <2>4. PICK digits : digits = IF pattern[lo + 1] = "-" THEN lo + 1 ELSE lo
    OBVIOUS
  <2>5. DigitsFrom(lo) = digits
    BY <2>3, <2>4 DEF DigitsFrom
  <2>6. PICK number : number = Value(digits, RunEnd(digits, Decimal), 10)
    OBVIOUS
  <2>7. NumberOf(lo) = IF pattern[lo + 1] = "-" /\ number > 0 THEN OpenedBefore + 1 - number ELSE number
    BY <1>1, <2>3, <2>5, <2>6 DEF NumberOf
  <2> QED BY <2>1, <2>2, <2>3, <2>4, <2>6, <2>7
<1> QED BY <1>3, <1>4, Zenon DEF ReferencesResolve

(* lex_capture_num_or_name and lex_impl: for every pattern and every limit,  *)
(* a reference by number is to the group of that number, counted back from   *)
(* the group opened last if it is negative, and never to number 0 but for a  *)
(* call; after a bare backslash it is a reference just if a single digit is  *)
(* written or a group of that number has been opened, and is else a code.    *)
THEOREM ReferencesAreResolved == Spec => []ReferencesResolve
<1>1. Init => Counting /\ Holds /\ BareRead /\ ReferencesRead
  BY InitRefers
<1>2. LexerInv /\ Covered /\ (Counting /\ Holds /\ BareRead /\ ReferencesRead) /\ [Next]_vars
        => (Counting /\ Holds /\ BareRead /\ ReferencesRead)'
  <2> SUFFICES ASSUME LexerInv, Covered, Counting, Holds, BareRead, ReferencesRead, [Next]_vars
               PROVE  (Counting /\ Holds /\ BareRead /\ ReferencesRead)'
    OBVIOUS
  <2>1. CASE Next
    <3>1. HasShape(local) /\ (pc = "number" => local.number.after \in Afters)
      BY DEF LexerInv, Located
    <3> QED BY <2>1, <3>1, StepCounts, StepHolds, StepBare, StepReferring
  <2>2. CASE UNCHANGED vars
    BY <2>2, StutterRefers
  <2> QED BY <2>1, <2>2
<1>3. LexerInv /\ Covered /\ (Counting /\ Holds /\ BareRead /\ ReferencesRead) => ReferencesResolve
  BY ReadResolves
<1> QED BY <1>1, <1>2, <1>3, LexerInvariant, AlwaysCovered, PTL DEF Spec

-----------------------------------------------------------------------------
(* An escape for a code point begins at lo, and one with a brace.            *)
StartsCode(lo) == lo + 1 < Len(pattern) /\ pattern[lo + 1] = "\\" /\ pattern[lo + 2] = "u"
StartsBrace(lo) == lo + 2 < Len(pattern) /\ StartsCode(lo) /\ pattern[lo + 3] = LeftBrace

(* A brace opened by a token has not been closed before p.                   *)
Unclosing == Symbols \ {RightBrace}
BraceOpenAt(p) ==
  \E i \in DOMAIN tokens : OpensBrace(tokens[i]) /\ All(tokens[i].lo, p, Unclosing)
TokensBefore(p) == p \in Nat /\ \A i \in DOMAIN tokens : tokens[i].lo \in Nat /\ tokens[i].lo <= p

BraceTracked ==
  /\ in_unicode_escape_brace \in BOOLEAN
  /\ in_unicode_escape_brace <=> BraceOpenAt(LastEnd)
  /\ TokensBefore(LastEnd)

(* Within an escape for a code point, the digits read so far from n.lo to p. *)
CodePoints == {"unicode", "unicode_number", "brace_open", "brace_number", "brace_next", "in_brace"}
Ahead(where, l) == IF where = "number" THEN l.number.after ELSE where
IsCode(where, l) == Ahead(where, l) \in CodePoints

HexFields == {"base", "lo", "after", "value", "digits"}
HexRead(n, p) ==
  /\ HexFields \subseteq DOMAIN n /\ n.base = 16
  /\ n.lo \in Nat /\ p \in Nat /\ n.lo <= p
  /\ All(n.lo, p, Hex) /\ n.value = Value(n.lo, p, 16)

InBrace(lo, p) ==
  /\ All(lo, p, Unclosing)
  /\ IF in_unicode_escape_brace THEN lo = LastEnd ELSE StartsBrace(lo) /\ lo + 3 <= p

CodeAt(where, l, p) ==
  /\ IF Ahead(where, l) \in {"unicode", "unicode_number"}
       THEN ~in_unicode_escape_brace /\ StartsCode(l.lo)
       ELSE InBrace(l.lo, p)
  /\ where = "unicode" => p = l.lo + 2
  /\ Ahead(where, l) = "unicode_number" => ~StartsBrace(l.lo)
  /\ where \in {"number", "unicode_number", "brace_number"} => HexRead(l.number, p)
  /\ where = "brace_next" => HexRead(l.number, l.code_hi)

(* Where a code is written in another way, or may yet be, after a backslash. *)
EscapePoints == {"property", "named_reference", "bare"} \cup BytePoints
HasBackslash(lo) == pattern[lo + 1] = "\\"

UnicodeAt(where, l, p, held) ==
  /\ where \in {"name", "name_escape"} => held # "NONE"
  /\ Ahead(where, l) \in EscapePoints /\ held = "NONE" => HasBackslash(l.lo)
  /\ where \notin {"idle", "failed"} => "code_hi" \in DOMAIN l
  /\ where \notin {"idle", "failed"} =>
       IF IsCode(where, l) /\ held = "NONE"
         THEN CodeAt(where, l, p)
         ELSE ~in_unicode_escape_brace /\ (where \notin Openings => ~StartsCode(l.lo))

(* What a token for a code point says.                                       *)
Coded(token) ==
  /\ token.type = "CODE"
  /\ All(token.data.lo, token.data.hi, Hex)
  /\ token.data.value = Value(token.data.lo, token.data.hi, 16)

CodeToken ==
  pc = "idle" =>
    /\ \/ OpensBrace(tok)
       \/ BraceOpenAt(tok.lo)
       \/ tok.type = "CODE" /\ StartsCode(tok.lo)
       => Coded(tok)
    /\ tok.type = "CODE" => Coded(tok) \/ HasBackslash(tok.lo)

UnicodeRead == BraceTracked /\ UnicodeAt(pc, local, pos, name.type) /\ CodeToken

LEMMA SameCode ==
  ASSUME UNCHANGED <<encoding, pattern>>, NEW lo, NEW p, NEW n, NEW token
  PROVE  /\ StartsCode(lo)' = StartsCode(lo)
         /\ StartsBrace(lo)' = StartsBrace(lo)
         /\ HexRead(n, p)' = HexRead(n, p)
         /\ OpensBrace(token)' = OpensBrace(token)
         /\ All(lo, p, Unclosing)' = All(lo, p, Unclosing)
<1>1. pattern' = pattern /\ encoding' = encoding
  OBVIOUS
<1>2. StartsCode(lo)' = StartsCode(lo) /\ StartsBrace(lo)' = StartsBrace(lo)
  BY <1>1, Zenon DEF StartsCode, StartsBrace
<1>3. OpensBrace(token)' = OpensBrace(token)
  BY <1>1, Zenon DEF OpensBrace, Text
<1>4. HexRead(n, p)' = HexRead(n, p)
  BY <1>1, SameValue, SameAll, Zenon DEF HexRead
<1>5. All(lo, p, Unclosing)' = All(lo, p, Unclosing)
  BY <1>1, SameAll, Zenon
<1> QED BY <1>2, <1>3, <1>4, <1>5

LEMMA SameBrace ==
  ASSUME UNCHANGED <<encoding, pattern, tokens>>
  PROVE  /\ LastEnd' = LastEnd
         /\ \A p : BraceOpenAt(p)' = BraceOpenAt(p) /\ TokensBefore(p)' = TokensBefore(p)
<1>1. LastEnd' = LastEnd
  BY DEF LastEnd
<1>2. ASSUME NEW p PROVE BraceOpenAt(p)' = BraceOpenAt(p)
  <2>1. pattern' = pattern /\ tokens' = tokens
    OBVIOUS
  <2>2. \A token : OpensBrace(token)' = OpensBrace(token)
    BY SameCode
  <2>3. \A i : OpensBrace(tokens[i])' = OpensBrace(tokens[i])
    BY <2>1, <2>2, Zenon DEF OpensBrace, Text
  <2>4. \A i : All(tokens[i].lo, p, Unclosing)' = All(tokens[i].lo, p, Unclosing)
    BY <2>1, Zenon DEF All
  <2> QED BY <2>1, <2>3, <2>4, Zenon DEF BraceOpenAt
<1>3. \A p : TokensBefore(p)' = TokensBefore(p)
  BY DEF TokensBefore
<1> QED BY <1>1, <1>2, <1>3

LEMMA StillTracked ==
  ASSUME BraceTracked, UNCHANGED <<encoding, pattern, tokens, in_unicode_escape_brace>>
  PROVE  BraceTracked'
<1>1. PICK end : end = LastEnd
  OBVIOUS
<1>2. LastEnd' = end /\ BraceOpenAt(end)' = BraceOpenAt(end) /\ TokensBefore(end)' = TokensBefore(end)
  BY <1>1, SameBrace
<1>3. BraceOpenAt(LastEnd)' = BraceOpenAt(end) /\ TokensBefore(LastEnd)' = TokensBefore(end)
  BY <1>2, Zenon DEF BraceOpenAt, TokensBefore
<1> QED BY <1>1, <1>3, Zenon DEF BraceTracked

LEMMA SameUnicodeAt ==
  ASSUME UNCHANGED <<encoding, pattern, tokens, in_unicode_escape_brace>>,
         NEW where, NEW l, NEW p, NEW held
  PROVE  UnicodeAt(where, l, p, held) => UnicodeAt(where, l, p, held)'
<1>1. /\ in_unicode_escape_brace' = in_unicode_escape_brace /\ LastEnd' = LastEnd
      /\ StartsCode(l.lo)' = StartsCode(l.lo) /\ StartsBrace(l.lo)' = StartsBrace(l.lo)
      /\ HexRead(l.number, p)' = HexRead(l.number, p)
      /\ HexRead(l.number, l.code_hi)' = HexRead(l.number, l.code_hi)
      /\ All(l.lo, p, Unclosing)' = All(l.lo, p, Unclosing)
  BY SameCode, SameBrace
<1>2. InBrace(l.lo, p) => InBrace(l.lo, p)'
  BY <1>1 DEF InBrace
<1>3. CodeAt(where, l, p) => CodeAt(where, l, p)'
  BY <1>1, <1>2 DEF CodeAt, Ahead
<1>4. HasBackslash(l.lo)' = HasBackslash(l.lo)
  BY Zenon DEF HasBackslash
<1> QED BY <1>1, <1>3, <1>4 DEF UnicodeAt, IsCode, Ahead

(* The next state stands at another point and has the same tokens.           *)
LEMMA StillUnicode ==
  ASSUME UnicodeRead, UNCHANGED <<encoding, pattern, tokens, in_unicode_escape_brace>>,
         NEW where, NEW l, NEW p, NEW held, UnicodeAt(where, l, p, held), where # "idle",
         pc' = where, local' = l, pos' = p, name'.type = held
  PROVE  UnicodeRead'
<1>1. UnicodeAt(where, l, p, held)'
  BY SameUnicodeAt
<1>2. UnicodeAt(pc, local, pos, name.type)'
  BY <1>1, Zenon DEF UnicodeAt, CodeAt, InBrace, IsCode, Ahead, HasBackslash
<1>3. BraceTracked'
  BY StillTracked DEF UnicodeRead
<1>4. CodeToken'
  BY DEF CodeToken
<1> QED BY <1>2, <1>3, <1>4 DEF UnicodeRead

(* A token does not begin before the last one ends.                          *)
LEMMA BeginsAfter ==
  ASSUME Covered, pc \notin {"idle", "failed"}
  PROVE  LastEnd \in Nat /\ local.lo \in Nat /\ LastEnd <= local.lo
<1>1. PICK lo, end : lo = local.lo /\ end = LastEnd
  OBVIOUS
<1>2. lo \in Nat /\ end \in Nat /\ AllIgnored(end, lo)
  BY <1>1 DEF Covered, Reading
<1>3. PICK cuts \in SUBSET (end .. lo) : {end, lo} \subseteq cuts
  BY <1>2 DEF AllIgnored
<1>4. lo \in end .. lo
  BY <1>3
<1> QED BY <1>1, <1>2, <1>4

LEMMA AllBefore ==
  ASSUME NEW lo \in Nat, NEW hi \in Nat, NEW p \in Nat, p <= hi, NEW symbols, All(lo, hi, symbols)
  PROVE  All(lo, p, symbols)
BY DEF All

LEMMA OpenBefore ==
  ASSUME TokensBefore(LastEnd), NEW hi \in Nat, LastEnd <= hi, BraceOpenAt(hi)
  PROVE  BraceOpenAt(LastEnd)
<1>1. PICK i \in DOMAIN tokens : OpensBrace(tokens[i]) /\ All(tokens[i].lo, hi, Unclosing)
  BY DEF BraceOpenAt
<1>2. PICK lo \in Nat : lo = tokens[i].lo
  BY DEF TokensBefore
<1>3. LastEnd \in Nat
  BY DEF TokensBefore
<1>4. All(lo, LastEnd, Unclosing)
  BY <1>1, <1>2, <1>3, AllBefore
<1> QED BY <1>1, <1>2, <1>4 DEF BraceOpenAt

LEMMA BraceIs ==
  ASSUME pattern \in Seq(Symbols), NEW token, NEW lo \in Nat, NEW hi \in Nat, lo = token.lo, hi = token.hi,
         hi <= Len(pattern), Len(pattern) \in Nat
  PROVE  OpensBrace(token) <=> lo + 3 <= hi /\ StartsBrace(lo)
<1>1. LeftBrace = "{"
  BY Zenon DEF LeftBrace
<1>2. CASE ~(lo + 3 <= hi)
  <2>1. ~(hi - lo >= 3)
    BY <1>2
  <2> QED BY <1>2, <2>1 DEF OpensBrace
<1>3. CASE lo + 3 <= hi
  <2>1. PICK end \in Nat : end = lo + 3
    OBVIOUS
  <2>2. lo < end /\ end <= Len(pattern) /\ hi - lo >= 3 /\ lo + 2 < Len(pattern) /\ lo + 1 < Len(pattern)
    BY <1>3, <2>1
  <2>3. Text(lo, end) = Triple("\\", "u", LeftBrace) <=>
          end = lo + 3 /\ pattern[lo + 1] = "\\" /\ pattern[lo + 2] = "u" /\ pattern[lo + 3] = LeftBrace
    BY <2>2, TextOf
  <2>4. Triple("\\", "u", LeftBrace) = <<"\\", "u", "{">>
    BY <1>1, Zenon DEF Triple
  <2>5. OpensBrace(token) <=> Text(lo, end) = <<"\\", "u", "{">>
    BY <2>1, <2>2 DEF OpensBrace
  <2> QED BY <1>3, <2>1, <2>2, <2>3, <2>4, <2>5, Zenon DEF StartsBrace, StartsCode
<1> QED BY <1>2, <1>3

LEMMA CodesWritten ==
  ASSUME LexerInv, Covered, UnicodeRead
  PROVE  UnicodeCodesAsWritten
<1> SUFFICES ASSUME HasToken PROVE UnicodeCodesAsWritten
  BY DEF UnicodeCodesAsWritten
<1>0. /\ pc = "idle" /\ LastEnd = tok.hi /\ tok.lo \in Nat /\ Len(pattern) \in Nat
  BY DEF HasToken, LastEnd, Covered, TokenStands, LexerInv, Located
<1>1. Unclosing = Symbols \ {"}"}
  BY Zenon DEF Unclosing, RightBrace
<1>2. in_unicode_escape_brace = (\E i \in {i \in DOMAIN tokens : OpensBrace(tokens[i])} :
                                   All(tokens[i].lo, tok.hi, Symbols \ {"}"}))
  BY <1>0, <1>1 DEF UnicodeRead, BraceTracked, BraceOpenAt
<1>3. (\E i \in {i \in DOMAIN tokens : OpensBrace(tokens[i])} :
         All(tokens[i].lo, tok.lo, Symbols \ {"}"})) => BraceOpenAt(tok.lo)
  BY <1>1 DEF BraceOpenAt
<1>4. tok.lo + 1 < Len(pattern) /\ pattern[tok.lo + 2] = "u" /\ tok.type = "CODE" =>
        Coded(tok) \/ StartsCode(tok.lo)
  BY <1>0 DEF StartsCode, HasBackslash, UnicodeRead, CodeToken
<1>5. OpensBrace(tok) \/ BraceOpenAt(tok.lo) \/ (tok.type = "CODE" /\ StartsCode(tok.lo)) => Coded(tok)
  BY <1>0 DEF UnicodeRead, CodeToken
<1> QED BY <1>2, <1>3, <1>4, <1>5 DEF UnicodeCodesAsWritten, Coded

LEMMA AppendIs ==
  ASSUME NEW s, IsSequence(s), NEW e
  PROVE  /\ Len(s) \in Nat /\ DOMAIN s = 1 .. Len(s)
         /\ DOMAIN Append(s, e) = 1 .. Len(s) + 1
         /\ \A i \in 1 .. Len(s) : Append(s, e)[i] = s[i]
         /\ Append(s, e)[Len(s) + 1] = e
<1>1. PICK T : s \in Seq(T)
  BY DEF IsSequence
<1>2. PICK R : R = T \cup {e}
  OBVIOUS
<1>3. s \in Seq(R) /\ e \in R
  BY <1>1, <1>2
<1> QED BY <1>3

(* The braces open once a token has been added.                              *)
LEMMA OpenWith ==
  ASSUME IsSequence(tokens), UNCHANGED <<encoding, pattern>>, tokens' = Append(tokens, tok'), NEW p
  PROVE  /\ BraceOpenAt(p)' <=> \/ BraceOpenAt(p)
                                \/ OpensBrace(tok)' /\ All(tok.lo, p, Unclosing)'
         /\ TokensBefore(p) /\ tok'.lo \in Nat /\ tok'.lo <= p => TokensBefore(p)'
<1>1. PICK n \in Nat : n = Len(tokens)
  BY AppendIs
<1>2. /\ DOMAIN tokens = 1 .. n /\ DOMAIN tokens' = 1 .. n + 1
      /\ \A i \in 1 .. n : tokens'[i] = tokens[i]
      /\ tokens'[n + 1] = tok'
  BY <1>1, AppendIs
<1>3. \A token : OpensBrace(token)' = OpensBrace(token) /\ All(token.lo, p, Unclosing)' = All(token.lo, p, Unclosing)
  BY SameCode
<1> DEFINE Open(token) == OpensBrace(token) /\ All(token.lo, p, Unclosing)
<1>4. \A token : Open(token)' <=> Open(token)
  BY <1>3
<1>5. ASSUME NEW i \in 1 .. n
      PROVE  Open(tokens[i])' <=> Open(tokens[i])
  <2>1. PICK token : token = tokens[i] /\ token = tokens'[i]
    BY <1>2
  <2>2. Open(tokens[i])' <=> Open(token)'
    BY <2>1, Zenon DEF OpensBrace, Text, All
  <2>3. Open(tokens[i]) <=> Open(token)
    BY <2>1
  <2> QED BY <1>4, <2>2, <2>3
<1>6. Open(tokens[n + 1])' <=> Open(tok)'
  BY <1>2, Zenon DEF OpensBrace, Text, All
<1>7. BraceOpenAt(p)' <=> \E i \in 1 .. n + 1 : Open(tokens[i])'
  BY <1>2, Zenon DEF BraceOpenAt
<1>8. BraceOpenAt(p) <=> \E i \in 1 .. n : Open(tokens[i])
  BY <1>2, Zenon DEF BraceOpenAt
<1>9. \A i : i \in 1 .. n + 1 <=> i \in 1 .. n \/ i = n + 1
  OBVIOUS
<1>10. BraceOpenAt(p)' <=> BraceOpenAt(p) \/ Open(tok)'
  <2> HIDE DEF Open
  <2> QED BY <1>5, <1>6, <1>7, <1>8, <1>9, Zenon
<1>11. TokensBefore(p) /\ tok'.lo \in Nat /\ tok'.lo <= p => TokensBefore(p)'
  BY <1>2 DEF TokensBefore
<1> QED BY <1>10, <1>11

LEMMA CodeEmitted ==
  ASSUME LexerInv', Covered, Covered', UnicodeRead, pc \notin {"idle", "failed"}, pc' = "idle", Adds,
         local.lo <= pos', in_unicode_escape_brace' \in BOOLEAN, NEW hi, hi = pos',
         in_unicode_escape_brace' <=>
           BraceOpenAt(hi) \/ (local.lo + 3 <= hi /\ StartsBrace(local.lo) /\ All(local.lo, hi, Unclosing)),
         \/ in_unicode_escape_brace
         \/ local.lo + 3 <= hi /\ StartsBrace(local.lo)
         \/ tok'.type = "CODE" /\ StartsCode(local.lo)
         => Coded(tok'),
         tok'.type = "CODE" => Coded(tok') \/ HasBackslash(local.lo)
  PROVE  UnicodeRead'
<1>1. PICK lo \in Nat : lo = local.lo
  BY BeginsAfter
<1>2. /\ encoding' = encoding /\ pattern' = pattern /\ tokens' = Append(tokens, tok')
      /\ tok'.lo = lo /\ tok'.hi = hi /\ UNCHANGED <<encoding, pattern>>
  BY <1>1 DEF Adds
<1>3. hi \in Nat /\ Len(pattern) \in Nat /\ hi <= Len(pattern) /\ pattern \in Seq(Symbols) /\ lo <= hi
  BY <1>1, <1>2 DEF LexerInv, Located, Covered
<1>4. /\ tokens' # <<>> /\ LastEnd' = hi
  <2>1. tokens' # <<>> /\ tokens'[Len(tokens')] = tok'
    BY DEF Covered, TokenStands
  <2> QED BY <1>2, <2>1 DEF LastEnd
<1>5. PICK token : token = tok'
  OBVIOUS
<1>6. OpensBrace(token) <=> lo + 3 <= hi /\ StartsBrace(lo)
  BY <1>2, <1>3, <1>5, BraceIs
<1>7. /\ OpensBrace(tok)' <=> OpensBrace(token)
      /\ \A p : All(tok.lo, p, Unclosing)' <=> All(lo, p, Unclosing)
  <2>1. OpensBrace(token)' = OpensBrace(token) /\ \A p : All(lo, p, Unclosing)' = All(lo, p, Unclosing)
    BY <1>2, SameCode
  <2>2. OpensBrace(tok)' <=> OpensBrace(token)'
    BY <1>5, Zenon DEF OpensBrace, Text
  <2>3. \A p : All(tok.lo, p, Unclosing)' <=> All(lo, p, Unclosing)'
    BY <1>2, Zenon DEF All
  <2> QED BY <2>1, <2>2, <2>3
<1>8. LastEnd \in Nat /\ LastEnd <= lo /\ TokensBefore(LastEnd)
  BY <1>1, BeginsAfter DEF UnicodeRead, BraceTracked
<1>9. IsSequence(tokens)
  BY DEF Covered
<1>10. BraceTracked'
  <2>1. TokensBefore(hi)
    BY <1>3, <1>8 DEF TokensBefore
  <2>2. TokensBefore(hi)'
    BY <1>2, <1>3, <1>9, <2>1, OpenWith
  <2>3. TokensBefore(LastEnd)'
    BY <1>4, <2>2, Zenon DEF TokensBefore
  <2>4. BraceOpenAt(hi)' <=> BraceOpenAt(hi) \/ (OpensBrace(token) /\ All(lo, hi, Unclosing))
    BY <1>2, <1>7, <1>9, OpenWith
  <2>5. BraceOpenAt(LastEnd)' <=> BraceOpenAt(hi)'
    BY <1>4, Zenon DEF BraceOpenAt, All
  <2>6. in_unicode_escape_brace' <=> BraceOpenAt(LastEnd)'
    BY <1>1, <1>6, <2>4, <2>5
  <2> QED BY <2>3, <2>6 DEF BraceTracked
<1>11. CodeToken'
  <2>1. BraceOpenAt(tok.lo)' => in_unicode_escape_brace \/ OpensBrace(token)
    <3>1. BraceOpenAt(lo)' => BraceOpenAt(lo) \/ OpensBrace(token)
      BY <1>2, <1>7, <1>9, OpenWith
    <3>2. BraceOpenAt(lo) => BraceOpenAt(LastEnd)
      BY <1>8, OpenBefore
    <3>3. BraceOpenAt(tok.lo)' <=> BraceOpenAt(lo)'
      BY <1>2, Zenon DEF BraceOpenAt, All
    <3> QED BY <3>1, <3>2, <3>3 DEF UnicodeRead, BraceTracked
  <2>2. StartsCode(tok.lo)' => StartsCode(lo)
    BY <1>2, Zenon DEF StartsCode
  <2>3. Coded(tok)' <=> Coded(token)
    <3>1. /\ All(token.data.lo, token.data.hi, Hex)' = All(token.data.lo, token.data.hi, Hex)
          /\ Value(token.data.lo, token.data.hi, 16)' = Value(token.data.lo, token.data.hi, 16)
      BY <1>2, SameAll, SameValue
    <3>2. Coded(token)' <=> Coded(token)
      BY <3>1, Zenon DEF Coded
    <3>3. Coded(tok)' <=> Coded(token)'
      BY <1>5, Zenon DEF Coded
    <3> QED BY <3>2, <3>3
  <2>4. (\/ OpensBrace(tok)
         \/ BraceOpenAt(tok.lo)
         \/ tok.type = "CODE" /\ StartsCode(tok.lo))' => Coded(tok)'
    BY <1>1, <1>5, <1>6, <1>7, <2>1, <2>2, <2>3
  <2>5. tok'.type = "CODE" => Coded(tok)' \/ HasBackslash(tok.lo)'
    BY <1>1, <1>2, <1>5, <2>3 DEF HasBackslash
  <2> QED BY <2>4, <2>5 DEF CodeToken
<1>12. UnicodeAt(pc, local, pos, name.type)'
  BY DEF UnicodeAt, Ahead, EscapePoints, BytePoints
<1> QED BY <1>10, <1>11, <1>12 DEF UnicodeRead

(* Outside such an escape, what a step leaves alone.                         *)
Ungranted == CodePoints \cup {"name", "name_escape"}
MayGo(where) ==
  /\ where \notin {"idle", "number"}
  /\ name.type = "NONE" => /\ where \notin Ungranted
                           /\ where \in EscapePoints => HasBackslash(local.lo)

Stays ==
  /\ in_unicode_escape_brace' = FALSE
  /\ pc' = "idle" => /\ tok'.type # "END"
                     /\ tok'.type = "CODE" => HasBackslash(local.lo)
  /\ pc' \notin {"idle", "failed", "token"} => local'.lo = local.lo
  /\ pc' \notin {"idle", "failed"} /\ "code_hi" \in DOMAIN local => "code_hi" \in DOMAIN local'
  /\ name'.type = "NONE" => /\ Ahead(pc', local') \notin Ungranted
                            /\ Ahead(pc', local') \in EscapePoints => HasBackslash(local.lo)

SameLo(l) ==
  /\ l.lo = local.lo /\ "number" \in DOMAIN l
  /\ "code_hi" \in DOMAIN local => "code_hi" \in DOMAIN l

LEMMA SameLoAs ==
  ASSUME HasShape(local)
  PROVE  /\ SameLo(local)
         /\ \A v : /\ SameLo([local EXCEPT !.terminator = v]) /\ SameLo([local EXCEPT !.explicit = v])
                   /\ SameLo([local EXCEPT !.has_max = v]) /\ SameLo([local EXCEPT !.min = v])
                   /\ SameLo([local EXCEPT !.max = v]) /\ SameLo([local EXCEPT !.option = v])
                   /\ SameLo([local EXCEPT !.positive = v]) /\ SameLo([local EXCEPT !.number = v])
                   /\ SameLo([local EXCEPT !.meta = v]) /\ SameLo([local EXCEPT !.control = v])
                   /\ SameLo([local EXCEPT !.escape = v]) /\ SameLo([local EXCEPT !.code_hi = v])
                   /\ SameLo([local EXCEPT !.name_hi = v]) /\ SameLo([local EXCEPT !.num_lo = v])
         /\ \A u, v : /\ SameLo([local EXCEPT !.num_lo = u, !.sign = v])
                      /\ SameLo([local EXCEPT !.num = u, !.has_num = v])
                      /\ SameLo([local EXCEPT !.depth_lo = u, !.sign = v])
                      /\ SameLo([local EXCEPT !.positive = u, !.name_lo = v])
         /\ \A u, v, w : /\ SameLo([local EXCEPT !.bytes = u, !.control = v, !.meta = w])
                         /\ SameLo([local EXCEPT !.escape = u, !.first = v, !.bytes = w])
                         /\ SameLo([local EXCEPT !.min = u, !.has_max = v, !.max = w])
                         /\ SameLo([local EXCEPT !.has_depth = u, !.depth = v, !.name_hi = w])
         /\ \A u, v, w, x : SameLo([local EXCEPT !.min = u, !.max = v, !.has_max = w, !.allows_reluctant = x])
         /\ \A kind, quote, lo : SameLo(Reference(kind, quote, lo))
<1>1. {"lo", "number"} \subseteq DOMAIN local
  BY DEF HasShape, Fields
<1> QED BY <1>1 DEF SameLo, Reference

LEMMA StayForms ==
  ASSUME HasShape(local), in_unicode_escape_brace = FALSE
  PROVE  /\ \A n, where, l : MayGo(where) /\ SameLo(l) /\ Advance(n, where, l) => Stays
         /\ \A n, condition, warning, where, l :
              MayGo(where) /\ SameLo(l) /\ Warn(condition, warning, n, where, l) => Stays
         /\ \A n : Retry(n) => Stays
         /\ \A n, l, base, most, limit, error_code, after :
              MayGo(after) /\ SameLo(l) /\ Read(n, Number(base, most, limit, error_code, after), l) => Stays
         /\ \A addresses, hi, type, data :
              /\ type # "END" /\ (type = "CODE" => HasBackslash(local.lo))
              /\ EmitReleasing(addresses, hi, type, data) /\ UNCHANGED in_unicode_escape_brace
              => Stays
         /\ \A addresses, at, code, span : FailReleasing(addresses, at, code, span) => Stays
<1> USE DEF Ungranted, EscapePoints, CodePoints, BytePoints
<1>1. ASSUME NEW n, NEW where, NEW l, MayGo(where), SameLo(l), Advance(n, where, l) PROVE Stays
  BY <1>1 DEF Advance, Stays, MayGo, SameLo, Ahead
<1>2. ASSUME NEW n, NEW condition, NEW warning, NEW where, NEW l, MayGo(where), SameLo(l),
             Warn(condition, warning, n, where, l)
      PROVE  Stays
  BY <1>2 DEF Warn, Stays, MayGo, SameLo, Ahead
<1>3. ASSUME NEW n, Retry(n) PROVE Stays
  <2>1. PICK l : l = Local(pos + n)
    OBVIOUS
  <2>2. "code_hi" \in DOMAIN l
    BY <2>1 DEF Local
  <2> QED BY <1>3, <2>1, <2>2 DEF Retry, Advance, Stays, Ahead
<1>4. ASSUME NEW n, NEW l, NEW base, NEW most, NEW limit, NEW error_code, NEW after, MayGo(after),
             SameLo(l), Read(n, Number(base, most, limit, error_code, after), l)
      PROVE  Stays
  <2>1. PICK number : number = [Number(base, most, limit, error_code, after) EXCEPT !.lo = pos + n]
    OBVIOUS
  <2>2. number.after = after
    BY <2>1 DEF Number
  <2>3. PICK new : new = [l EXCEPT !.number = number]
    OBVIOUS
  <2>4. new.number = number /\ new.lo = local.lo /\ ("code_hi" \in DOMAIN local => "code_hi" \in DOMAIN new)
    BY <1>4, <2>3 DEF SameLo
  <2>5. Advance(n, "number", new)
    BY <1>4, <2>1, <2>3 DEF Read
  <2> QED BY <1>4, <2>2, <2>4, <2>5 DEF Advance, Stays, MayGo, Ahead
<1>5. ASSUME NEW addresses, NEW hi, NEW type, NEW data, type # "END", type = "CODE" => HasBackslash(local.lo),
             EmitReleasing(addresses, hi, type, data), UNCHANGED in_unicode_escape_brace
      PROVE  Stays
  BY <1>5 DEF EmitReleasing, Stays, Ahead
<1>6. ASSUME NEW addresses, NEW at, NEW code, NEW span, FailReleasing(addresses, at, code, span)
      PROVE  Stays
  BY <1>6 DEF FailReleasing, Stays, Ahead
<1> QED BY <1>1, <1>2, <1>3, <1>4, <1>5, <1>6

LEMMA StayEnds ==
  ASSUME HasShape(local), in_unicode_escape_brace = FALSE
  PROVE  /\ \A at, code, span : FailAt(at, code, span) => Stays
         /\ \A n, code, lo : Fail(n, code, lo) => Stays
         /\ \A n, code : FailHere(n, code) => Stays
         /\ \A n : Incomplete(n) => Stays
         /\ \A n : OutOfMemory(n) => Stays
         /\ Unclosed => Stays
         /\ Unterminated => Stays
         /\ \A n, type, data : type \notin {"END", "CODE"} /\ Emit(n, type, data) => Stays
         /\ \A n, data : HasBackslash(local.lo) /\ Emit(n, "CODE", data) => Stays
         /\ \A n, type, data, warning :
              type \notin {"END", "CODE"} /\ EmitWarned(n, type, data, warning) => Stays
         /\ \A n, data, warning : HasBackslash(local.lo) /\ EmitWarned(n, "CODE", data, warning) => Stays
         /\ LiteralBrace => Stays
<1>1. \A at, code, span : FailAt(at, code, span) => Stays
  BY StayForms DEF FailAt
<1>2. \A n, code, lo : Fail(n, code, lo) => Stays
  BY <1>1 DEF Fail
<1>3. \A n, code : FailHere(n, code) => Stays
  BY <1>2 DEF FailHere
<1>4. \A n : Incomplete(n) => Stays
  BY <1>2 DEF Incomplete
<1>5. (\A n : OutOfMemory(n) => Stays) /\ (Unclosed => Stays)
  BY <1>3 DEF OutOfMemory, Unclosed
<1>6. Unterminated => Stays
  BY <1>2, <1>3, <1>4 DEF Unterminated
<1>7. \A addresses, hi, type, data :
        /\ type # "END" /\ (type = "CODE" => HasBackslash(local.lo))
        /\ EmitReleasing(addresses, hi, type, data) /\ UNCHANGED in_unicode_escape_brace
        => Stays
  BY StayForms
<1>8. /\ \A n, type, data : type \notin {"END", "CODE"} /\ Emit(n, type, data) => Stays
      /\ \A n, data : HasBackslash(local.lo) /\ Emit(n, "CODE", data) => Stays
  BY <1>7 DEF Emit, EmitAt
<1>9. /\ \A n, type, data, warning :
           type \notin {"END", "CODE"} /\ EmitWarned(n, type, data, warning) => Stays
      /\ \A n, data, warning : HasBackslash(local.lo) /\ EmitWarned(n, "CODE", data, warning) => Stays
  BY <1>7 DEF EmitWarned, EmitAt
<1>10. LiteralBrace => Stays
  BY <1>7 DEF LiteralBrace, EmitAt
<1> QED BY <1>1, <1>2, <1>3, <1>4, <1>5, <1>6, <1>8, <1>9, <1>10

LEMMA StayNames ==
  ASSUME LexerInv, in_unicode_escape_brace = FALSE
  PROVE  /\ \A bytes, is_next, n : \A where \in {"name", "in_brace"} :
              name.type # "NONE" /\ AppendToName(bytes, is_next, n, where, local) => Stays
         /\ OpenName => Stays
         /\ \A n, data, is_unclosed :
              (name.type # "NONE" \/ (is_unclosed = FALSE /\ HasBackslash(local.lo)))
                /\ Deliver(n, data, is_unclosed) => Stays
         /\ \A n, byte : (name.type # "NONE" \/ HasBackslash(local.lo)) /\ ReadByte(n, byte) => Stays
<1>0. HasShape(local) /\ "type" \in DOMAIN name
  BY DEF LexerInv, Located, Owned
<1>1. ASSUME NEW bytes, NEW is_next, NEW n, NEW where \in {"name", "in_brace"}, name.type # "NONE",
             AppendToName(bytes, is_next, n, where, local)
      PROVE  Stays
  <2>1. CASE OutOfMemory(n)
    BY <1>0, <2>1, StayEnds
  <2>2. CASE ~OutOfMemory(n)
    <3>1. /\ pc' = where /\ local' = local /\ in_unicode_escape_brace' = FALSE
      BY <1>1, <2>2 DEF AppendToName
    <3>2. name'.type # "NONE"
      BY <1>0, <1>1, <2>2 DEF AppendToName, Own
    <3> QED BY <1>1, <3>1, <3>2 DEF Stays
  <2> QED BY <2>1, <2>2
<1>2. OpenName => Stays
  BY DEF OpenName, NoName, Stays
<1>3. ASSUME NEW n, NEW data, NEW is_unclosed,
             name.type # "NONE" \/ (is_unclosed = FALSE /\ HasBackslash(local.lo)),
             Deliver(n, data, is_unclosed)
      PROVE  Stays
  <2>1. PICK where \in {"name", "in_brace"} : where = IF is_unclosed THEN "in_brace" ELSE "name"
    OBVIOUS
  <2>2. \/ name.type # "NONE" /\ AppendToName(Encode(data.value), FALSE, n, where, local)
        \/ FailHere(n, UnencodableCode(data.value))
        \/ /\ name.type = "NONE" /\ in_unicode_escape_brace' = is_unclosed
           /\ EmitReleasing({}, pos + n, "CODE", data)
    BY <1>3, <2>1 DEF Deliver, EmitAt
  <2>3. name.type = "NONE" /\ in_unicode_escape_brace' = is_unclosed
          /\ EmitReleasing({}, pos + n, "CODE", data) => Stays
    BY <1>0, <1>3, StayForms
  <2> QED BY <1>0, <1>1, <2>1, <2>2, <2>3, StayEnds
<1>4. ASSUME NEW n, NEW byte, name.type # "NONE" \/ HasBackslash(local.lo), ReadByte(n, byte)
      PROVE  Stays
  <2>1. PICK l : l = [local EXCEPT !.bytes = Append(@, WithMeta(WithControl(byte))),
                                   !.control = FALSE, !.meta = FALSE]
    OBVIOUS
  <2>2. SameLo(l)
    BY <1>0, <2>1, SameLoAs
  <2>3. Advance(n, "bytes", l)
    BY <1>4, <2>1 DEF ReadByte
  <2>4. MayGo("bytes")
    BY <1>4 DEF MayGo, Ungranted, CodePoints
  <2> QED BY <1>0, <2>2, <2>3, <2>4, StayForms
<1> QED BY <1>1, <1>2, <1>3, <1>4

LEMMA TokenStays ==
  ASSUME LexerInv, Holds, in_unicode_escape_brace = FALSE, LexToken, ~LexEnd
  PROVE  Stays
<1>0. HasShape(local)
  BY DEF LexerInv, Located
<1>1. /\ \A n, where, l : MayGo(where) /\ SameLo(l) /\ Advance(n, where, l) => Stays
      /\ \A n, condition, warning, where, l :
           MayGo(where) /\ SameLo(l) /\ Warn(condition, warning, n, where, l) => Stays
      /\ \A n : Retry(n) => Stays
      /\ \A n, l, base, most, limit, error_code, after :
           MayGo(after) /\ SameLo(l) /\ Read(n, Number(base, most, limit, error_code, after), l) => Stays
  BY <1>0, StayForms
<1>2. /\ \A at, code, span : FailAt(at, code, span) => Stays
      /\ \A n, code, lo : Fail(n, code, lo) => Stays
      /\ \A n : Incomplete(n) => Stays
      /\ \A n, type, data : type \notin {"END", "CODE"} /\ Emit(n, type, data) => Stays
      /\ \A n, type, data, warning :
           type \notin {"END", "CODE"} /\ EmitWarned(n, type, data, warning) => Stays
      /\ LiteralBrace => Stays
  BY <1>0, StayEnds
<1>3. /\ MayGo("comment") /\ MayGo("greed") /\ MayGo("bounds") /\ MayGo("comma") /\ MayGo("bounds_end")
      /\ MayGo("option") /\ MayGo("group") /\ MayGo("specifier") /\ MayGo("lookbehind")
      /\ MayGo("condition") /\ MayGo("reference") /\ MayGo("min") /\ MayGo("max")
  BY DEF MayGo, Ungranted, CodePoints, EscapePoints, BytePoints
<1>4. SameLo(local)
  BY <1>0, SameLoAs
<1>5. \A n, data : \/ Emit(n, "LOOKAROUND_OPEN", data) \/ Emit(n, "ATOMIC_OPEN", data)
                   \/ Emit(n, "ABSENCE_OPEN", data)
                   => Stays
  BY <1>2
<1>6. LexSimple \/ LexLiteral \/ SkipWhitespace => Stays
  BY <1>1, <1>2 DEF LexSimple, LexLiteral, SkipWhitespace
<1>8. OpenComment => Stays
  <2>1. SameLo([local EXCEPT !.terminator = "\n"])
    BY <1>0, SameLoAs
  <2> QED BY <1>1, <1>3, <2>1 DEF OpenComment
<1>9. Comment => Stays
  BY <1>1, <1>3, <1>4 DEF Comment
<1>10. LexQuantifier => Stays
  <2>1. PICK l : l = [local EXCEPT !.min = IF Peek = "+" THEN 1 ELSE 0, !.has_max = Peek = "?",
                                   !.max = IF Peek = "?" THEN 1 ELSE 0]
    OBVIOUS
  <2>2. SameLo(l)
    BY <1>0, <2>1, SameLoAs
  <2>3. Advance(1, "greed", l) => Stays
    BY <1>1, <1>3, <2>2
  <2> QED BY <2>1, <2>3 DEF LexQuantifier
<1>11. OpenBounds => Stays
  <2>1. Advance(1, "bounds", local) => Stays
    BY <1>1, <1>3, <1>4
  <2> QED BY <2>1, Zenon DEF OpenBounds
<1>12. LexMin => Stays
  <2>1. PICK l : l = [local EXCEPT !.explicit = TRUE]
    OBVIOUS
  <2>2. SameLo(l)
    BY <1>0, <2>1, SameLoAs
  <2>3. Read(0, Bound("min"), l) => Stays
    BY <1>1, <1>3, <2>2 DEF Bound, DecimalNumber
  <2>4. Advance(1, "comma", local) => Stays
    BY <1>1, <1>3, <1>4
  <2> QED BY <1>2, <2>1, <2>3, <2>4, Zenon DEF LexMin
<1>13. LexComma => Stays
  <2>1. PICK l, m : /\ l = [local EXCEPT !.min = local.number.value]
                    /\ m = [local EXCEPT !.min = local.number.value, !.max = local.number.value,
                                         !.has_max = TRUE, !.allows_reluctant = FALSE]
    OBVIOUS
  <2>2. SameLo(l) /\ SameLo(m)
    BY <1>0, <2>1, SameLoAs
  <2>3. Advance(1, "comma", l) \/ Advance(0, "bounds_end", m) => Stays
    BY <1>1, <1>3, <2>2
  <2> QED BY <1>2, <2>1, <2>3, Zenon DEF LexComma
<1>14. LexMax => Stays
  <2>1. PICK l, m : l = [local EXCEPT !.has_max = TRUE] /\ m = [local EXCEPT !.max = local.number.value]
    OBVIOUS
  <2>2. SameLo(l) /\ SameLo(m)
    BY <1>0, <2>1, SameLoAs
  <2>3. Read(0, Bound("max"), l) => Stays
    BY <1>1, <1>3, <2>2 DEF Bound, DecimalNumber
  <2>4. Advance(0, "bounds_end", local) \/ Advance(0, "bounds_end", m) => Stays
    BY <1>1, <1>3, <1>4, <2>2
  <2> QED BY <1>2, <2>1, <2>3, <2>4, Zenon DEF LexMax
<1>15. LexBoundsEnd => Stays
  <2>1. Advance(1, "greed", local) => Stays
    BY <1>1, <1>3, <1>4
  <2> QED BY <1>2, <2>1, Zenon DEF LexBoundsEnd
<1>16. LexQuantifierType => Stays
  BY <1>2 DEF LexQuantifierType
<1>17. OpenGroup => Stays
  <2>1. Advance(1, "group", local) \/ Advance(1, "specifier", local) => Stays
    BY <1>1, <1>3, <1>4
  <2> QED BY <1>2, <2>1 DEF OpenGroup
<1>18. \A n, kind, quote, lo : Advance(n, "reference", Reference(kind, quote, lo)) => Stays
  <2>1. \A kind, quote, lo : SameLo(Reference(kind, quote, lo))
    BY <1>0, SameLoAs
  <2> QED BY <1>1, <1>3, <2>1
<1>19. LexSpecifier => Stays
  <2>1. PICK l, o : l = [local EXCEPT !.terminator = ")"] /\ o = [local EXCEPT !.option = options]
    OBVIOUS
  <2>2. SameLo(l) /\ SameLo(o)
    BY <1>0, <2>1, SameLoAs
  <2>3. Advance(1, "comment", l) \/ Advance(0, "option", o) => Stays
    BY <1>1, <1>3, <2>2
  <2>4. Advance(1, "lookbehind", local) \/ Advance(1, "condition", local) => Stays
    BY <1>1, <1>3, <1>4
  <2>5. Advance(1, "reference", Reference("group", "'", pos + 1)) => Stays
    BY <1>18, Zenon
  <2> QED BY <1>2, <1>5, <2>1, <2>3, <2>4, <2>5, Zenon DEF LexSpecifier
<1>20. LexLookbehind \/ LexCondition => Stays
  <2>1. \/ Advance(0, "reference", Reference("group", ">", pos))
        \/ Advance(0, "reference", Reference("condition", ")", pos))
        \/ Advance(1, "reference", Reference("quoted_condition", Closing(Peek), pos + 1))
        => Stays
    BY <1>18, Zenon
  <2> QED BY <1>2, <1>5, <2>1, Zenon DEF LexLookbehind, LexCondition
<1>21. LexConditionClose => Stays
  BY <1>2 DEF LexConditionClose
<1>22. LexOption => Stays
  <2>1. PICK l, m : /\ l = [local EXCEPT !.option = Switched(@, Peek, local.positive)]
                    /\ m = [local EXCEPT !.positive = Negated(@)]
    OBVIOUS
  <2>2. SameLo(l) /\ SameLo(m)
    BY <1>0, <2>1, SameLoAs
  <2>3. Advance(1, "option", l) => Stays
    BY <1>1, <1>3, <2>2
  <2>4. Warn(~local.positive, "REDUNDANT_GROUP_OPTION_MINUS", 1, "option", m) => Stays
    BY <1>1, <1>3, <2>2
  <2> QED BY <1>2, <2>1, <2>3, <2>4 DEF LexOption
<1> QED BY <1>6, <1>8, <1>9, <1>10, <1>11, <1>12, <1>13, <1>14, <1>15, <1>16, <1>17, <1>19, <1>20,
           <1>21, <1>22, Zenon DEF LexToken

LEMMA ReferencesStay ==
  ASSUME LexerInv, Holds, UnicodeRead, in_unicode_escape_brace = FALSE, LexReferences
  PROVE  Stays
<1>0. HasShape(local) /\ (pc \in {"name", "name_escape"} => name.type # "NONE")
  BY DEF LexerInv, Located, UnicodeRead, UnicodeAt
<1>1. /\ \A n, where, l : MayGo(where) /\ SameLo(l) /\ Advance(n, where, l) => Stays
      /\ \A n, l, base, most, limit, error_code, after :
           MayGo(after) /\ SameLo(l) /\ Read(n, Number(base, most, limit, error_code, after), l) => Stays
      /\ \A addresses, hi, type, data :
           /\ type # "END" /\ (type = "CODE" => HasBackslash(local.lo))
           /\ EmitReleasing(addresses, hi, type, data) /\ UNCHANGED in_unicode_escape_brace
           => Stays
  BY <1>0, StayForms
<1>2. /\ \A at, code, span : FailAt(at, code, span) => Stays
      /\ \A n, code, lo : Fail(n, code, lo) => Stays
      /\ \A n, code : FailHere(n, code) => Stays
      /\ \A n : Incomplete(n) => Stays
      /\ \A n : OutOfMemory(n) => Stays
      /\ Unterminated => Stays
      /\ \A n, type, data : type \notin {"END", "CODE"} /\ Emit(n, type, data) => Stays
  BY <1>0, StayEnds
<1>3. /\ MayGo("sign") /\ MayGo("numbered") /\ MayGo("depth") /\ MayGo("close") /\ MayGo("depth_sign")
      /\ MayGo("depth_read") /\ MayGo("condition_close") /\ MayGo("named")
      /\ name.type # "NONE" => MayGo("name_escape") /\ MayGo("unicode") /\ MayGo("escape")
  BY DEF MayGo, Ungranted, CodePoints, EscapePoints, BytePoints
<1>4. SameLo(local)
  BY <1>0, SameLoAs
<1>5. OpenName => Stays
  BY StayNames
<1>6. LexReference => Stays
  <2>1. PICK l, m : l = [local EXCEPT !.num_lo = pos] /\ m = [local EXCEPT !.num_lo = pos, !.sign = -1]
    OBVIOUS
  <2>2. SameLo(l) /\ SameLo(m)
    BY <1>0, <2>1, SameLoAs
  <2>3. Read(0, CaptureNumber, l) \/ Advance(1, "sign", m) => Stays
    BY <1>1, <1>3, <2>2 DEF CaptureNumber, DecimalNumber
  <2> QED BY <1>2, <1>5, <2>1, <2>3, Zenon DEF LexReference
<1>7. LexSign => Stays
  <2>1. Read(0, CaptureNumber, local) => Stays
    BY <1>1, <1>3, <1>4 DEF CaptureNumber, DecimalNumber
  <2> QED BY <1>2, <2>1, Zenon DEF LexSign
<1>8. LexNumbered => Stays
  <2>1. ASSUME NEW number, NEW after \in {"depth", "close"},
               Advance(0, after, [local EXCEPT !.num = number, !.has_num = TRUE])
        PROVE  Stays
    <3>1. PICK l : l = [local EXCEPT !.num = number, !.has_num = TRUE]
      OBVIOUS
    <3>2. SameLo(l)
      BY <1>0, <3>1, SameLoAs
    <3> QED BY <1>1, <1>3, <2>1, <3>1, <3>2
  <2> QED BY <1>2, <2>1 DEF LexNumbered
<1>9. LexDepth => Stays
  <2>1. PICK l, m, d : /\ l = [local EXCEPT !.name_hi = pos]
                       /\ m = [local EXCEPT !.depth_lo = pos, !.sign = IF Peek = "+" THEN 1 ELSE -1]
                       /\ d = [local EXCEPT !.has_depth = TRUE, !.depth = local.sign * local.number.value,
                                            !.name_hi = pos]
    OBVIOUS
  <2>2. SameLo(l) /\ SameLo(m) /\ SameLo(d)
    BY <1>0, <2>1, SameLoAs
  <2>3. MayGo(AfterReference)
    BY <1>3 DEF AfterReference
  <2>4. /\ Advance(0, AfterReference, l) \/ Advance(1, "depth_sign", m) \/ Advance(0, AfterReference, d) => Stays
        /\ Read(0, CaptureDepth, local) => Stays
    BY <1>1, <1>3, <1>4, <2>2, <2>3 DEF CaptureDepth, DecimalNumber
  <2> QED BY <1>2, <2>1, <2>4, Zenon DEF LexDepth
<1>10. LexClose => Stays
  <2>1. PICK l : l = [local EXCEPT !.name_hi = pos]
    OBVIOUS
  <2>2. SameLo(l)
    BY <1>0, <2>1, SameLoAs
  <2>3. Advance(1, "condition_close", l) => Stays
    BY <1>1, <1>3, <2>2
  <2> QED BY <1>2, <2>1, <2>3 DEF LexClose
<1>11. LexName => Stays
  <2>1. PICK l : l = [local EXCEPT !.escape = pos, !.first = pos, !.bytes = <<>>]
    OBVIOUS
  <2>2. SameLo(l)
    BY <1>0, <2>1, SameLoAs
  <2>3. /\ name.type # "NONE" /\ Advance(1, "name_escape", l) => Stays
        /\ name.type # "NONE" /\ Advance(1, "unicode", local) => Stays
        /\ name.type # "NONE" /\ Advance(0, "escape", local) => Stays
        /\ name.type # "NONE" /\ AppendToName(Encode(Code(Peek)), TRUE, 1, "name", local) => Stays
    BY <1>1, <1>3, <1>4, <2>2, StayNames
  <2>4. LexName => name.type # "NONE"
    BY <1>0 DEF LexName, At, Other
  <2> QED BY <1>2, <2>1, <2>3, <2>4 DEF LexName
<1>12. TrimName => Stays
  <2>1. pc' = "named" /\ local' = local /\ UNCHANGED in_unicode_escape_brace => Stays
    BY DEF Stays, Ahead, Ungranted, CodePoints, EscapePoints, BytePoints
  <2> QED BY <1>2, <2>1 DEF TrimName
<1>13. LexNamed => Stays
  BY <1>1, <1>2, <1>3, <1>4 DEF LexNamed
<1> QED BY <1>6, <1>7, <1>8, <1>9, <1>10, <1>11, <1>12, <1>13, Zenon DEF LexReferences

(* Where the character after the backslash may stand for itself.             *)
LEMMA BackslashThere ==
  ASSUME Covered, UnicodeRead, pc \in {"escaped", "carriage_return"} \cup EscapePoints
  PROVE  name.type # "NONE" \/ HasBackslash(local.lo)
<1>1. pc \in {"escaped", "carriage_return"} => HasBackslash(local.lo)
  BY DEF Covered, Reading, OpeningAt, HasBackslash
<1>2. pc \in EscapePoints => Ahead(pc, local) = pc
  BY DEF Ahead, EscapePoints, BytePoints
<1> QED BY <1>1, <1>2 DEF UnicodeRead, UnicodeAt

LEMMA EscapesStay ==
  ASSUME LexerInv, Covered, Holds, UnicodeRead, in_unicode_escape_brace = FALSE, LexEscapes,
         pc \in CodePoints => name.type # "NONE", pc = "escaped" => Peek # "u"
  PROVE  Stays
<1>0. HasShape(local)
  BY DEF LexerInv, Located
<1>1. /\ \A n, where, l : MayGo(where) /\ SameLo(l) /\ Advance(n, where, l) => Stays
      /\ \A n, l, base, most, limit, error_code, after :
           MayGo(after) /\ SameLo(l) /\ Read(n, Number(base, most, limit, error_code, after), l) => Stays
      /\ \A n : Retry(n) => Stays
      /\ \A hi, data : HasBackslash(local.lo) /\ EmitAt(hi, "CODE", data)
                         /\ UNCHANGED in_unicode_escape_brace => Stays
  BY <1>0, StayForms DEF EmitAt
<1>2. /\ \A at, code, span : FailAt(at, code, span) => Stays
      /\ \A n, code, lo : Fail(n, code, lo) => Stays
      /\ \A n, code : FailHere(n, code) => Stays
      /\ Unclosed => Stays
      /\ \A n, type, data : type \notin {"END", "CODE"} /\ Emit(n, type, data) => Stays
      /\ \A n, data : HasBackslash(local.lo) /\ Emit(n, "CODE", data) => Stays
      /\ \A n, data, warning : HasBackslash(local.lo) /\ EmitWarned(n, "CODE", data, warning) => Stays
  BY <1>0, StayEnds
<1>3. SameLo(local)
  BY <1>0, SameLoAs
<1>4. /\ MayGo("escaped") /\ MayGo("negation") /\ MayGo("property_name") /\ MayGo("reference")
      /\ MayGo("carriage_return")
      /\ name.type # "NONE" => \A where : where \notin {"idle", "number"} => MayGo(where)
      /\ HasBackslash(local.lo) => \A where \in EscapePoints : MayGo(where)
  BY DEF MayGo, Ungranted, CodePoints, EscapePoints, BytePoints
<1>5. pc \in {"escaped", "carriage_return"} \cup EscapePoints =>
        /\ name.type # "NONE" \/ HasBackslash(local.lo)
        /\ \A where \in EscapePoints : MayGo(where)
        /\ \A n, byte : ReadByte(n, byte) => Stays
        /\ \A n, data : Deliver(n, data, FALSE) => Stays
  <2> SUFFICES ASSUME pc \in {"escaped", "carriage_return"} \cup EscapePoints
               PROVE  /\ name.type # "NONE" \/ HasBackslash(local.lo)
                      /\ \A where \in EscapePoints : MayGo(where)
                      /\ \A n, byte : ReadByte(n, byte) => Stays
                      /\ \A n, data : Deliver(n, data, FALSE) => Stays
    OBVIOUS
  <2>1. name.type # "NONE" \/ HasBackslash(local.lo)
    BY BackslashThere
  <2>2. \A where \in EscapePoints : where \notin {"idle", "number"}
    BY DEF EscapePoints, BytePoints
  <2> QED BY <1>4, <2>1, <2>2, StayNames
<1>6. /\ pc \in {"escaped", "carriage_return", "property", "named_reference", "bare"} =>
           name.type = "NONE" /\ HasBackslash(local.lo)
      /\ {"escaped", "carriage_return", "property", "named_reference", "bare"}
           \subseteq {"escaped", "carriage_return"} \cup EscapePoints
      /\ {"property", "named_reference", "bare", "escape", "hex_byte", "octal_byte", "meta", "meta_code",
          "control", "control_code", "bytes"} \subseteq EscapePoints
  <2>1. pc \in {"escaped", "carriage_return", "property", "named_reference", "bare"} => name.type = "NONE"
    BY DEF Holds, MayHold
  <2>2. /\ {"escaped", "carriage_return", "property", "named_reference", "bare"}
             \subseteq {"escaped", "carriage_return"} \cup EscapePoints
        /\ {"property", "named_reference", "bare", "escape", "hex_byte", "octal_byte", "meta", "meta_code",
            "control", "control_code", "bytes"} \subseteq EscapePoints
    BY DEF EscapePoints, BytePoints
  <2> QED BY <1>5, <2>1, <2>2
<1>7. OpenEscape => Stays
  <2>1. PICK l : l = [local EXCEPT !.escape = pos, !.first = pos, !.bytes = <<>>]
    OBVIOUS
  <2>2. SameLo(l)
    BY <1>0, <2>1, SameLoAs
  <2>3. Advance(1, "escaped", l) => Stays
    BY <1>1, <1>4, <2>2
  <2> QED BY <2>1, <2>3 DEF OpenEscape
<1>8. LexEscapedAssertion \/ LexEscapedType => Stays
  BY <1>2 DEF LexEscapedAssertion, LexEscapedType
<1>9. CASE LexProperty
  <2>1. PICK l, m, r : /\ l = [local EXCEPT !.positive = Peek = "p"]
                       /\ m = [local EXCEPT !.positive = ~@, !.name_lo = pos + 1]
                       /\ r = Reference("property", "}", pos + 1)
    OBVIOUS
  <2>2. SameLo(l) /\ SameLo(r)
    BY <1>0, <2>1, SameLoAs
  <2>3. SameLo(m)
    <3>1. m = [local EXCEPT !.positive = ~local.positive, !.name_lo = pos + 1]
      BY <2>1
    <3> QED BY <1>0, <3>1, SameLoAs
  <2>4. /\ pc = "escaped" /\ Advance(1, "property", l) => Stays
        /\ Advance(1, "negation", r) => Stays
        /\ Advance(1, "property_name", m) => Stays
        /\ OpenName => Stays
        /\ \A data, warning : pc = "property" /\ EmitWarned(0, "CODE", data, warning) => Stays
    BY <1>1, <1>2, <1>4, <1>5, <1>6, <2>2, <2>3, StayNames
  <2>5. \/ pc = "escaped" /\ Advance(1, "property", l)
        \/ Advance(1, "negation", r)
        \/ Advance(1, "property_name", m)
        \/ OpenName
        \/ \E data, warning : pc = "property" /\ EmitWarned(0, "CODE", data, warning)
    BY <1>9, <2>1, Zenon DEF LexProperty, At, Other
  <2> QED BY <2>4, <2>5
<1>10. CASE LexNamedReference
  <2>1. pc = "escaped" /\ Advance(1, "named_reference", local) => Stays
    BY <1>1, <1>3, <1>5, <1>6
  <2>2. \A kind, quote, lo : Advance(1, "reference", Reference(kind, quote, lo)) => Stays
    BY <1>0, <1>1, <1>4, SameLoAs
  <2>3. \A data, warning : pc = "named_reference" /\ EmitWarned(0, "CODE", data, warning) => Stays
    BY <1>2, <1>6
  <2> QED BY <1>10, <2>1, <2>2, <2>3, Zenon DEF LexNamedReference, At, Other
<1>11. CASE LexBare
  <2>1. pc = "escaped" \/ pc = "bare"
    BY <1>11 DEF LexBare, At
  <2>2. HasBackslash(local.lo) /\ MayGo("bare") /\ MayGo("escape")
    BY <1>5, <1>6, <2>1
  <2>3. /\ Read(0, DecimalNumber(bare_back_ref_max_num_limit, "INTERNAL_ERROR", "bare"), local) => Stays
        /\ \A n : Advance(n, "escape", local) => Stays
    BY <1>1, <1>3, <2>2 DEF DecimalNumber
  <2> QED BY <1>1, <1>2, <1>11, <2>2, <2>3 DEF LexBare
<1>12. CASE LexCommonEscape
  <2>1. pc \in {"escaped", "carriage_return"}
    BY <1>12 DEF LexCommonEscape, At, Other
  <2>2. HasBackslash(local.lo) /\ MayGo("escape") /\ MayGo("carriage_return")
    BY <1>4, <1>5, <1>6, <2>1
  <2>3. ~At("escaped", {"u"})
    BY DEF At
  <2>4. Advance(0, "escape", local) \/ Advance(1, "carriage_return", local) => Stays
    BY <1>1, <1>3, <2>2
  <2> QED BY <1>1, <1>2, <1>12, <2>2, <2>3, <2>4 DEF LexCommonEscape
<1>13. CASE LexEscape
  <2>1. PICK l, m : l = [local EXCEPT !.meta = TRUE] /\ m = [local EXCEPT !.control = TRUE]
    OBVIOUS
  <2>2. SameLo(l) /\ SameLo(m)
    BY <1>0, <2>1, SameLoAs
  <2>3. pc = "escape"
    BY <1>13 DEF LexEscape, At, Other
  <2>4. Advance(1, "meta", l) \/ Advance(1, "control", m) \/ Advance(1, "control_code", m) => Stays
    BY <1>1, <1>5, <1>6, <2>2, <2>3
  <2>5. /\ Read(1, Number(16, 2, 0, "SUCCESS", "hex_byte"), local) => Stays
        /\ Read(0, Number(8, 3, 0, "SUCCESS", "octal_byte"), local) => Stays
    BY <1>1, <1>3, <1>5, <1>6, <2>3
  <2>6. \A n, byte : ReadByte(n, byte) => Stays
    BY <1>5, <1>6, <2>3
  <2> QED BY <1>2, <1>13, <2>1, <2>4, <2>5, <2>6 DEF LexEscape
<1>14. LexNumberedByte => Stays
  BY <1>2, <1>5, <1>6 DEF LexNumberedByte
<1>15. CASE LexMeta
  <2>1. pc \in {"meta", "meta_code"}
    BY <1>15 DEF LexMeta, At, Other
  <2>2. /\ Advance(1, "meta_code", local) \/ Advance(1, "escape", local) => Stays
        /\ \A n, byte : ReadByte(n, byte) => Stays
    BY <1>1, <1>3, <1>5, <1>6, <2>1
  <2> QED BY <1>2, <1>15, <2>2 DEF LexMeta
<1>16. CASE LexControl
  <2>1. pc \in {"control", "control_code"}
    BY <1>16 DEF LexControl, At, Other
  <2>2. /\ Advance(1, "control_code", local) \/ Advance(1, "escape", local) => Stays
        /\ \A n, byte : ReadByte(n, byte) => Stays
    BY <1>1, <1>3, <1>5, <1>6, <2>1
  <2>3. PICK l : l = [local EXCEPT !.bytes = Append(@, WithMeta(127)), !.control = FALSE, !.meta = FALSE]
    OBVIOUS
  <2>4. SameLo(l)
    BY <1>0, <2>3, SameLoAs
  <2>5. Advance(1, "bytes", l) => Stays
    BY <1>1, <1>5, <1>6, <2>1, <2>4
  <2> QED BY <1>2, <1>16, <2>2, <2>3, <2>5 DEF LexControl
<1>17. CASE LexBytes
  <2>1. pc = "bytes"
    BY <1>17 DEF LexBytes, At, Other
  <2>2. PICK l : l = [local EXCEPT !.escape = pos]
    OBVIOUS
  <2>3. SameLo(l)
    BY <1>0, <2>2, SameLoAs
  <2>4. Advance(1, "escape", l) => Stays
    BY <1>1, <1>5, <1>6, <2>1, <2>3
  <2>5. \A n, data : Deliver(n, data, FALSE) => Stays
    BY <1>5, <1>6, <2>1
  <2> QED BY <1>2, <1>17, <2>2, <2>4, <2>5 DEF LexBytes
<1>18. pc \in CodePoints =>
         /\ MayGo("brace_open") /\ MayGo("brace_next") /\ MayGo("unicode_number") /\ MayGo("brace_number")
         /\ \A n, data, is_unclosed : Deliver(n, data, is_unclosed) => Stays
  BY <1>4, StayNames
<1>19. CASE LexUnicode
  <2>1. pc \in CodePoints
    BY <1>19 DEF LexUnicode, At, Other, CodePoints
  <2>2. /\ Advance(1, "brace_open", local) => Stays
        /\ Read(0, Number(16, 4, 0, "SUCCESS", "unicode_number"), local) => Stays
    BY <1>1, <1>3, <1>18, <2>1
  <2> QED BY <1>2, <1>19, <2>2, Zenon DEF LexUnicode
<1>20. LexUnicodeNumber => Stays
  BY <1>2, <1>18 DEF LexUnicodeNumber, CodePoints
<1>21. CASE LexBrace
  <2>1. pc \in CodePoints
    BY <1>21 DEF LexBrace, At, Other, CodePoints
  <2>2. /\ Advance(1, "brace_open", local) => Stays
        /\ Read(0, BraceNumber, local) => Stays
    BY <1>1, <1>3, <1>18, <2>1 DEF BraceNumber
  <2> QED BY <1>2, <1>21, <2>2, Zenon DEF LexBrace
<1>22. CASE LexBraceNumber
  <2>1. pc \in CodePoints
    BY <1>22 DEF LexBraceNumber, At, Other, CodePoints
  <2>2. PICK l : l = [local EXCEPT !.code_hi = pos]
    OBVIOUS
  <2>3. SameLo(l)
    BY <1>0, <2>2, SameLoAs
  <2>4. Advance(0, "brace_next", l) => Stays
    BY <1>1, <1>18, <2>1, <2>3
  <2> QED BY <1>2, <1>22, <2>2, <2>4 DEF LexBraceNumber
<1>23. CASE LexBraceNext
  <2>1. pc \in CodePoints
    BY <1>23 DEF LexBraceNext, At, Other, CodePoints
  <2>2. /\ Advance(1, "brace_next", local) => Stays
        /\ \A n, data, is_unclosed : Deliver(n, data, is_unclosed) => Stays
    BY <1>1, <1>3, <1>18, <2>1
  <2> QED BY <1>2, <1>23, <2>2, Zenon DEF LexBraceNext
<1> QED BY <1>7, <1>8, <1>9, <1>10, <1>11, <1>12, <1>13, <1>14, <1>15, <1>16, <1>17, <1>19, <1>20, <1>21,
           <1>22, <1>23, Zenon DEF LexEscapes

LEMMA NumberStays ==
  ASSUME LexerInv, UnicodeRead, in_unicode_escape_brace = FALSE, Next, pc = "number",
         IsCode(pc, local) => name.type # "NONE"
  PROVE  Stays
<1>1. PICK after : after = local.number.after
  OBVIOUS
<1>2. after \in Afters /\ HasShape(local) /\ Ahead(pc, local) = after
  BY <1>1 DEF LexerInv, Located, Ahead
<1>3. MayGo(after)
  <2>1. name.type = "NONE" /\ after \in EscapePoints => HasBackslash(local.lo)
    BY <1>2 DEF UnicodeRead, UnicodeAt
  <2>2. name.type = "NONE" => after \notin CodePoints
    BY <1>2 DEF IsCode
  <2>3. after \notin {"idle", "number", "name", "name_escape"}
    BY <1>2 DEF Afters
  <2> QED BY <2>1, <2>2, <2>3 DEF MayGo, Ungranted
<1>4. /\ \A l : SameLo(l) /\ Advance(0, after, l) => Stays
      /\ \A n, code, lo : Fail(n, code, lo) => Stays
      /\ \A addresses, at, code, span : FailReleasing(addresses, at, code, span) => Stays
  BY <1>2, <1>3, StayForms, StayEnds
<1>5. NumberEnd => Stays
  BY <1>1, <1>2, <1>4, SameLoAs DEF NumberEnd
<1>6. NumberTooLarge => Stays
  <2>1. PICK l : l = [local EXCEPT !.number.overflowed = TRUE]
    OBVIOUS
  <2>2. SameLo(l)
    BY <1>2, <2>1 DEF SameLo, HasShape, Fields
  <2> QED BY <1>1, <1>4, <2>1, <2>2 DEF NumberTooLarge
<1>7. NumberDigit => Stays
  <2>1. PICK l : l = [local EXCEPT !.number.value = Appended(DigitValue(Peek)), !.number.digits = @ + 1]
    OBVIOUS
  <2>2. l.lo = local.lo /\ l.number.after = after /\ ("code_hi" \in DOMAIN local => "code_hi" \in DOMAIN l)
    BY <1>1, <1>2, <2>1 DEF HasShape, Fields
  <2>3. Advance(1, "number", l) => Stays
    BY <1>3, <2>2 DEF Advance, Stays, Ahead, MayGo
  <2> QED BY <2>1, <2>3 DEF NumberDigit
<1>8. InvalidBytes => Stays
  BY <1>4 DEF InvalidBytes
<1> QED BY <1>5, <1>6, <1>7, <1>8, NumberSteps

LEMMA StepStays ==
  ASSUME LexerInv, Covered, Holds, UnicodeRead, in_unicode_escape_brace = FALSE, Next,
         pc # "idle", ~LexEnd, IsCode(pc, local) => name.type # "NONE", pc = "escaped" => Peek # "u"
  PROVE  Stays
<1>1. pc = "number" => Stays
  BY NumberStays
<1>2. InvalidBytes => Stays
  BY StayForms DEF InvalidBytes, LexerInv, Located
<1>3. ~Lex
  BY DEF Lex
<1>4. pc # "number" => ~NumberDigit /\ ~NumberTooLarge /\ ~NumberEnd
  BY DEF NumberDigit, NumberTooLarge, NumberEnd, AtDigit
<1>5. pc \in CodePoints => name.type # "NONE"
  BY DEF IsCode, Ahead, CodePoints
<1>6. LexToken => Stays
  BY TokenStays
<1>7. LexReferences => Stays
  BY ReferencesStay
<1>8. LexEscapes => Stays
  BY <1>5, EscapesStay
<1> QED BY <1>1, <1>2, <1>3, <1>4, <1>6, <1>7, <1>8 DEF Next

(* A step that has nothing to do with such an escape.                        *)
LEMMA PlainStep ==
  ASSUME LexerInv, LexerInv', Covered, Covered', UnicodeRead, in_unicode_escape_brace = FALSE,
         pc \notin {"idle", "failed"}, Adds, Stays,
         pc' \notin Openings \cup {"failed"} => ~StartsCode(local.lo)
  PROVE  UnicodeRead'
<1>0. /\ encoding' = encoding /\ pattern' = pattern /\ in_unicode_escape_brace' = in_unicode_escape_brace
      /\ pc' # "idle" => tokens' = tokens
  BY DEF Adds, Stays
<1>1. CASE pc' = "idle"
  <2>1. PICK lo, hi : lo = local.lo /\ hi = pos'
    OBVIOUS
  <2>2. tok'.lo = lo /\ tok'.hi = hi
    BY <1>1, <2>1 DEF Adds
  <2>3. lo <= hi
    <3>1. tok'.type # "END"
      BY <1>1 DEF Stays
    <3>2. TokenStands'
      BY DEF Covered
    <3>3. tok'.lo < tok'.hi /\ tok'.lo \in Nat /\ tok'.hi = pos'
      BY <1>1, <3>1, <3>2 DEF TokenStands
    <3>4. pos' \in Nat
      BY DEF LexerInv, Located
    <3> QED BY <2>1, <2>2, <3>3, <3>4
  <2>4. ~StartsCode(lo) /\ ~StartsBrace(lo)
    BY <1>1, <2>1 DEF Openings, StartsBrace
  <2>5. ~BraceOpenAt(hi)
    <3>1. LastEnd \in Nat /\ lo \in Nat /\ LastEnd <= lo
      BY <2>1, BeginsAfter
    <3>2. hi \in Nat
      BY <2>1 DEF LexerInv, Located
    <3>3. LastEnd <= hi
      BY <2>3, <3>1, <3>2
    <3>4. BraceOpenAt(hi) => BraceOpenAt(LastEnd)
      BY <3>2, <3>3, OpenBefore DEF UnicodeRead, BraceTracked
    <3> QED BY <3>4 DEF UnicodeRead, BraceTracked
  <2>6. tok'.type = "CODE" => HasBackslash(local.lo)
    BY <1>1 DEF Stays
  <2> QED BY <1>0, <1>1, <2>1, <2>3, <2>4, <2>5, <2>6, CodeEmitted
<1>2. CASE pc' # "idle"
  <2>1. PICK where, l, p, held : where = pc' /\ l = local' /\ p = pos' /\ held = name'.type
    OBVIOUS
  <2>2. /\ where \notin {"idle", "failed", "token"} => l.lo = local.lo
        /\ held = "NONE" => /\ Ahead(where, l) \notin Ungranted
                            /\ Ahead(where, l) \in EscapePoints => HasBackslash(local.lo)
    BY <2>1 DEF Stays
  <2>3. Ahead(where, l) \in EscapePoints => where \notin {"idle", "failed", "token"}
    BY DEF Ahead, EscapePoints, BytePoints
  <2>4. where \notin Openings \cup {"idle", "failed"} => ~StartsCode(l.lo)
    BY <2>1, <2>2 DEF Openings
  <2>5. UnicodeAt(where, l, p, held)
    <3>0. where \notin {"idle", "failed"} => "code_hi" \in DOMAIN l
      BY <2>1 DEF Stays, UnicodeRead, UnicodeAt
    <3>1. where \in {"name", "name_escape"} => held # "NONE"
      BY <2>2 DEF Ahead, Ungranted
    <3>2. Ahead(where, l) \in EscapePoints /\ held = "NONE" => HasBackslash(l.lo)
      BY <2>2, <2>3
    <3>3. ~(IsCode(where, l) /\ held = "NONE")
      BY <2>2 DEF IsCode, Ungranted
    <3> QED BY <2>4, <3>0, <3>1, <3>2, <3>3 DEF UnicodeAt
  <2> QED BY <1>0, <1>2, <2>1, <2>5, StillUnicode
<1> QED BY <1>1, <1>2

-----------------------------------------------------------------------------
(* Within an escape for a code point.                                        *)
LEMMA CodeGoes ==
  ASSUME UnicodeRead, name.type = "NONE", pc \notin {"idle", "failed"}, NEW n, NEW p, p = pos + n,
         NEW where, NEW l, where # "idle", SameLo(l), IsCode(where, l), CodeAt(where, l, p), Advance(n, where, l)
  PROVE  UnicodeRead'
<1>1. Ahead(where, l) \in CodePoints
  BY DEF IsCode
<1>2. Ahead(where, l) \notin EscapePoints /\ where \notin {"name", "name_escape"}
  BY <1>1 DEF Ahead, CodePoints, EscapePoints, BytePoints
<1>3. PICK held : held = name.type
  OBVIOUS
<1>4. UnicodeAt(where, l, p, held)
  BY <1>2, <1>3 DEF UnicodeRead, UnicodeAt, SameLo
<1> QED BY <1>3, <1>4, StillUnicode DEF Advance, ParserVars, InputVars

LEMMA CodeFails ==
  ASSUME UnicodeRead
  PROVE  /\ \A addresses, at, code, span : FailReleasing(addresses, at, code, span) => UnicodeRead'
         /\ \A at, code, span : FailAt(at, code, span) => UnicodeRead'
         /\ \A n, code, lo : Fail(n, code, lo) => UnicodeRead'
         /\ \A n, code : FailHere(n, code) => UnicodeRead'
         /\ Unclosed => UnicodeRead'
<1>1. ASSUME NEW addresses, NEW at, NEW code, NEW span, FailReleasing(addresses, at, code, span)
      PROVE  UnicodeRead'
  <2>1. PICK where, l, held : where = "failed" /\ l = local /\ held = "NONE"
    OBVIOUS
  <2>2. UnicodeAt(where, l, at, held)
    BY <2>1 DEF UnicodeAt, Ahead, EscapePoints, BytePoints
  <2>3. /\ pc' = where /\ local' = l /\ pos' = at /\ name'.type = held
        /\ UNCHANGED <<encoding, pattern, tokens, in_unicode_escape_brace>>
    BY <1>1, <2>1 DEF FailReleasing, NoName, ParserVars, InputVars
  <2> QED BY <2>1, <2>2, <2>3, StillUnicode
<1>2. \A at, code, span : FailAt(at, code, span) => UnicodeRead'
  BY <1>1 DEF FailAt
<1>3. \A n, code, lo : Fail(n, code, lo) => UnicodeRead'
  BY <1>2 DEF Fail
<1>4. \A n, code : FailHere(n, code) => UnicodeRead'
  BY <1>3 DEF FailHere
<1> QED BY <1>1, <1>2, <1>3, <1>4 DEF Unclosed

LEMMA CodeDelivered ==
  ASSUME LexerInv', Covered, Covered', UnicodeRead, pc \notin {"idle", "failed"}, Adds, pos \in Nat,
         name.type = "NONE", NEW n \in {0, 1}, NEW data, NEW is_unclosed \in BOOLEAN,
         Deliver(n, data, is_unclosed), All(data.lo, data.hi, Hex), data.value = Value(data.lo, data.hi, 16),
         NEW hi \in Nat, hi = pos + n, local.lo <= hi,
         is_unclosed <=>
           BraceOpenAt(hi) \/ (local.lo + 3 <= hi /\ StartsBrace(local.lo) /\ All(local.lo, hi, Unclosing))
  PROVE  UnicodeRead'
<1>1. EmitReleasing({}, pos + n, "CODE", data) /\ in_unicode_escape_brace' = is_unclosed
  BY DEF Deliver, EmitAt
<1>2. pc' = "idle" /\ pos' = hi /\ tok'.type = "CODE" /\ tok'.data = data
  BY <1>1 DEF EmitReleasing
<1>3. Coded(tok')
  BY <1>2 DEF Coded
<1> QED BY <1>1, <1>2, <1>3, CodeEmitted

(* What stands before p in a code point, or in its brace.                    *)
LEMMA CodePlace ==
  ASSUME LexerInv, Covered, UnicodeRead, IsCode(pc, local), name.type = "NONE"
  PROVE  /\ local.lo \in Nat /\ pos \in Nat /\ local.lo <= pos /\ HasShape(local)
         /\ Len(pattern) \in Nat /\ pattern \in Seq(Symbols) /\ pc \notin {"idle", "failed"}
         /\ CodeAt(pc, local, pos)
         /\ Peek # "END" => pos < Len(pattern) /\ Peek = pattern[pos + 1]
<1>1. pc \notin {"idle", "failed"} /\ pc \notin Openings
  BY DEF IsCode, Ahead, CodePoints, Openings
<1>2. CodeAt(pc, local, pos)
  BY <1>1 DEF UnicodeRead, UnicodeAt
<1>3. local.lo < pos \/ pos = local.lo
  BY <1>1 DEF Covered, Reading, Pends, Pending
<1> QED BY <1>1, <1>2, <1>3, PlaceInText

LEMMA AllFurther ==
  ASSUME NEW lo \in Nat, NEW p \in Nat, NEW q, q = p + 1, lo <= p, NEW symbols,
         All(lo, p, symbols), pattern[q] \in symbols
  PROVE  All(lo, q, symbols)
BY DEF All

LEMMA AllJoined ==
  ASSUME NEW lo \in Nat, NEW mid \in Nat, NEW hi \in Nat, lo <= mid, mid <= hi, NEW symbols,
         All(lo, mid, symbols), All(mid, hi, symbols)
  PROVE  All(lo, hi, symbols)
BY DEF All

LEMMA BraceFurther ==
  ASSUME NEW lo \in Nat, NEW p \in Nat, NEW q, q = p + 1, lo <= p, InBrace(lo, p), pattern[q] \in Unclosing
  PROVE  InBrace(lo, q)
<1>1. All(lo, q, Unclosing)
  BY AllFurther DEF InBrace
<1> QED BY <1>1 DEF InBrace

LEMMA HexBegins ==
  ASSUME HasShape(local), pos \in Nat, NEW most, NEW after \in {"unicode_number", "brace_number"},
         NEW n, n = Number(16, most, 0, "SUCCESS", after),
         NEW l, l = [local EXCEPT !.number = [n EXCEPT !.lo = pos + 0]]
  PROVE  SameLo(l) /\ l.number.after = after /\ HexRead(l.number, pos)
<1>1. PICK m : m = [n EXCEPT !.lo = pos + 0]
  OBVIOUS
<1>2. HexFields \subseteq DOMAIN m /\ m.base = 16 /\ m.lo = pos /\ m.value = 0 /\ m.after = after
  BY <1>1 DEF Number, HexFields
<1>3. l.number = m /\ SameLo(l)
  BY <1>1, SameLoAs DEF HasShape, Fields
<1>4. All(pos, pos, Hex)
  BY DEF All
<1>5. Value(pos, pos, 16) = 0
  BY ValueOfNone
<1> QED BY <1>2, <1>3, <1>4, <1>5 DEF HexRead

LEMMA HexGoesOn ==
  ASSUME NEW n, NEW p \in Nat, NEW q \in Nat, q = p + 1, HexRead(n, p), pattern[q] \in Hex,
         NEW m, m = [n EXCEPT !.value = n.value * 16 + DigitValue(pattern[q]), !.digits = n.digits + 1]
  PROVE  HexRead(m, q) /\ m.after = n.after
<1>1. HexFields \subseteq DOMAIN n /\ n.base = 16 /\ n.lo \in Nat /\ n.lo <= p /\ All(n.lo, p, Hex)
      /\ n.value = Value(n.lo, p, 16)
  BY DEF HexRead
<1>2. HexFields \subseteq DOMAIN m /\ m.base = 16 /\ m.lo = n.lo /\ m.after = n.after
      /\ m.value = n.value * 16 + DigitValue(pattern[q])
  BY <1>1 DEF HexFields
<1>3. PICK lo \in Nat : lo = n.lo
  BY <1>1
<1>4. All(lo, q, Hex)
  BY <1>1, <1>3, AllFurther
<1>5. Value(lo, q, 16) = Value(lo, p, 16) * 16 + DigitValue(pattern[q])
  BY <1>1, <1>3, ValueOfNext
<1> QED BY <1>1, <1>2, <1>3, <1>4, <1>5 DEF HexRead

LEMMA HexIsNoBrace == LeftBrace \notin Hex /\ RightBrace \notin Hex /\ RightBrace \notin Blanks
<1>1. RightBrace \notin Decimal /\ RightBrace \notin Blanks
  BY Zenon DEF RightBrace, Decimal, Octal, Blanks
<1>2. RightBrace \notin {"a", "b", "c", "d", "e", "f", "A", "B", "C", "D", "E", "F"}
  BY Zenon DEF RightBrace
<1> QED BY <1>1, <1>2, DigitIsNoBrace DEF Hex

LEMMA UnicodeSteps ==
  ASSUME Next, IsCode(pc, local), pc # "number"
  PROVE  InvalidBytes \/ LexUnicode \/ LexUnicodeNumber \/ LexBrace \/ LexBraceNumber \/ LexBraceNext
<1>0. pc \in CodePoints
  BY DEF IsCode, Ahead
<1> USE DEF CodePoints
<1>1. ~Lex /\ ~NumberDigit /\ ~NumberTooLarge /\ ~NumberEnd
  BY <1>0 DEF Lex, NumberDigit, NumberTooLarge, NumberEnd, AtDigit
<1>2. ~LexToken
  BY <1>0 DEF LexToken, LexEnd, SkipWhitespace, OpenComment, Comment, LexSimple, LexLiteral,
     LexQuantifier, OpenBounds, LexMin, LexComma, LexMax, LexBoundsEnd, LexQuantifierType,
     OpenGroup, LexSpecifier, LexLookbehind, LexCondition, LexConditionClose, LexOption, At, Other
<1>3. ~LexReferences
  BY <1>0 DEF LexReferences, LexReference, LexSign, LexNumbered, LexDepth, LexClose, LexName,
     TrimName, LexNamed, At, Other
<1>4. LexEscapes => LexUnicode \/ LexUnicodeNumber \/ LexBrace \/ LexBraceNumber \/ LexBraceNext
  BY <1>0 DEF LexEscapes, OpenEscape, LexEscapedAssertion, LexEscapedType, LexProperty,
     LexNamedReference, LexBare, LexCommonEscape, LexEscape, LexNumberedByte, LexMeta,
     LexControl, LexBytes, At, Other
<1> QED BY <1>1, <1>2, <1>3, <1>4 DEF Next

LEMMA UnicodeBegins ==
  ASSUME LexerInv, Covered, UnicodeRead, name.type = "NONE", pc = "unicode", LexUnicode
  PROVE  UnicodeRead'
<1>0. IsCode(pc, local)
  BY DEF IsCode, Ahead, CodePoints
<1>1. /\ \A at, code, span : FailAt(at, code, span) => UnicodeRead'
      /\ \A n, code, lo : Fail(n, code, lo) => UnicodeRead'
  BY CodeFails
<1>2. PICK lo, p \in Nat : lo = local.lo /\ p = pos
  BY <1>0, CodePlace
<1>3. /\ HasShape(local) /\ Len(pattern) \in Nat /\ pattern \in Seq(Symbols) /\ CodeAt(pc, local, pos)
      /\ Peek # "END" => pos < Len(pattern) /\ Peek = pattern[pos + 1]
  BY <1>0, CodePlace
<1>4. ~in_unicode_escape_brace /\ StartsCode(lo) /\ p = lo + 2
  BY <1>2, <1>3 DEF CodeAt, Ahead
<1>5. Peek \in Hex /\ Read(0, Number(16, 4, 0, "SUCCESS", "unicode_number"), local) => UnicodeRead'
  <2> SUFFICES ASSUME Peek \in Hex, Read(0, Number(16, 4, 0, "SUCCESS", "unicode_number"), local)
               PROVE  UnicodeRead'
    OBVIOUS
  <2>1. PICK n : n = Number(16, 4, 0, "SUCCESS", "unicode_number")
    OBVIOUS
  <2>2. PICK l : l = [local EXCEPT !.number = [n EXCEPT !.lo = pos + 0]]
    OBVIOUS
  <2>3. SameLo(l) /\ l.lo = lo /\ l.number.after = "unicode_number" /\ HexRead(l.number, p)
    BY <1>2, <1>3, <2>1, <2>2, HexBegins DEF SameLo
  <2>4. Advance(0, "number", l)
    BY <2>1, <2>2 DEF Read
  <2>5. ~StartsBrace(lo)
    <3>1. Peek # "END"
      BY DEF Hex, Decimal, Octal
    <3>2. Peek = pattern[lo + 3]
      BY <1>2, <1>3, <1>4, <3>1
    <3> QED BY <3>2, HexIsNoBrace DEF StartsBrace
  <2>6. CodeAt("number", l, p)
    BY <1>4, <2>3, <2>5 DEF CodeAt, Ahead
  <2>7. IsCode("number", l) /\ p = pos + 0
    BY <1>2, <2>3 DEF IsCode, Ahead, CodePoints
  <2> QED BY <2>3, <2>4, <2>6, <2>7, CodeGoes
<1>6. Peek = LeftBrace /\ Advance(1, "brace_open", local) => UnicodeRead'
  <2> SUFFICES ASSUME Peek = LeftBrace, Advance(1, "brace_open", local) PROVE UnicodeRead'
    OBVIOUS
  <2>1. LeftBrace # "END"
    BY Zenon DEF LeftBrace
  <2>2. PICK q \in Nat : q = lo + 3 /\ q = pos + 1
    BY <1>2, <1>4
  <2>3. q <= Len(pattern) /\ pattern[q] = LeftBrace
    BY <1>2, <1>3, <2>1, <2>2
  <2>4. StartsBrace(lo)
    BY <1>3, <1>4, <2>2, <2>3 DEF StartsBrace
  <2>5. All(lo, q, Unclosing)
    <3>1. ASSUME NEW i \in lo + 1 .. q PROVE pattern[i] \in Unclosing
      <4>1. i \in 1 .. Len(pattern)
        BY <2>2, <2>3
      <4>2. pattern[i] \in Symbols
        BY <1>3, <4>1
      <4>3. i \in {lo + 1, lo + 2, lo + 3}
        BY <2>2
      <4>4. pattern[i] \in {"\\", "u", LeftBrace}
        BY <1>4, <2>2, <2>3, <4>3 DEF StartsCode
      <4>5. RightBrace \notin {"\\", "u", LeftBrace}
        BY Zenon DEF LeftBrace, RightBrace
      <4> QED BY <4>2, <4>4, <4>5 DEF Unclosing
    <3> QED BY <3>1 DEF All
  <2>6. CodeAt("brace_open", local, q)
    BY <1>2, <1>4, <2>2, <2>4, <2>5 DEF CodeAt, Ahead, InBrace
  <2>7. IsCode("brace_open", local)
    BY DEF IsCode, Ahead, CodePoints
  <2> QED BY <1>3, <2>2, <2>6, <2>7, CodeGoes, SameLoAs
<1>7. LeftBrace = "{"
  BY Zenon DEF LeftBrace
<1> QED BY <1>1, <1>5, <1>6, <1>7, Zenon DEF LexUnicode, At, Other

LEMMA UnicodeNumber ==
  ASSUME LexerInv, LexerInv', Covered, Covered', UnicodeRead, Next, name.type = "NONE", pc = "number",
         IsCode(pc, local)
  PROVE  UnicodeRead'
<1>1. PICK lo, p \in Nat : lo = local.lo /\ p = pos /\ lo <= p
  BY CodePlace
<1>2. /\ HasShape(local) /\ Len(pattern) \in Nat /\ pattern \in Seq(Symbols) /\ CodeAt(pc, local, pos)
      /\ Peek # "END" => pos < Len(pattern) /\ Peek = pattern[pos + 1]
  BY CodePlace
<1>3. PICK n, after : n = local.number /\ after = local.number.after
  OBVIOUS
<1>4. after \in {"unicode_number", "brace_number"}
  BY <1>2, <1>3 DEF IsCode, Ahead, CodePoints, LexerInv, Located, Afters
<1>5. /\ HexRead(n, p)
      /\ after = "unicode_number" => ~in_unicode_escape_brace /\ StartsCode(lo) /\ ~StartsBrace(lo)
      /\ after = "brace_number" => InBrace(lo, p)
  BY <1>1, <1>2, <1>3, <1>4 DEF CodeAt, Ahead
<1>6. n.base = 16 /\ HexFields \subseteq DOMAIN n
  BY <1>5 DEF HexRead
<1>7. CASE NumberDigit
  <2>1. PICK q \in Nat : q = p + 1
    OBVIOUS
  <2>2. Peek = pattern[q] /\ pattern[q] \in Hex
    BY <1>1, <1>7, <2>1, DigitThere DEF NumberDigit
  <2>3. pattern[q] \in Unclosing
    <3>1. Peek # "END"
      BY <2>2 DEF Hex, Decimal, Octal
    <3>2. q \in 1 .. Len(pattern)
      BY <1>1, <1>2, <2>1, <3>1
    <3> QED BY <1>2, <2>2, <3>2, HexIsNoBrace DEF Unclosing
  <2>4. PICK m : m = [n EXCEPT !.value = n.value * 16 + DigitValue(pattern[q]), !.digits = n.digits + 1]
    OBVIOUS
  <2>5. PICK l : l = [local EXCEPT !.number = m]
    OBVIOUS
  <2>6. Advance(1, "number", l)
    <3>1. Appended(DigitValue(Peek)) = n.value * 16 + DigitValue(pattern[q])
      BY <1>3, <1>6, <2>2 DEF Appended
    <3>2. [local EXCEPT !.number.value = Appended(DigitValue(Peek)), !.number.digits = @ + 1] = l
      BY <1>3, <2>4, <2>5, <3>1
    <3> QED BY <1>7, <3>2 DEF NumberDigit
  <2>7. SameLo(l) /\ l.lo = lo /\ l.number = m
    BY <1>1, <1>2, <2>5, SameLoAs DEF HasShape, Fields
  <2>8. HexRead(m, q) /\ m.after = after
    <3>1. HexRead(m, q) /\ m.after = n.after
      BY <1>5, <2>1, <2>2, <2>4, HexGoesOn
    <3> QED BY <1>3, <3>1
  <2>9. after = "brace_number" => InBrace(lo, q)
    BY <1>1, <1>5, <2>1, <2>3, BraceFurther
  <2>10. CodeAt("number", l, q) /\ IsCode("number", l)
    BY <1>4, <1>5, <2>7, <2>8, <2>9 DEF CodeAt, IsCode, Ahead, CodePoints
  <2> QED BY <1>1, <2>1, <2>6, <2>7, <2>10, CodeGoes
<1>8. ~NumberTooLarge
  BY <1>3, <1>6 DEF NumberTooLarge, IsTooLarge
<1>9. CASE NumberEnd
  <2>1. Advance(0, after, local) /\ p = pos + 0
    BY <1>1, <1>3, <1>9 DEF NumberEnd
  <2>2. CodeAt(after, local, p) /\ IsCode(after, local)
    BY <1>1, <1>3, <1>4, <1>5 DEF CodeAt, IsCode, Ahead, CodePoints
  <2> QED BY <1>2, <1>4, <2>1, <2>2, CodeGoes, SameLoAs
<1>10. InvalidBytes => UnicodeRead'
  BY CodeFails DEF InvalidBytes
<1> QED BY <1>7, <1>8, <1>9, <1>10, NumberSteps

LEMMA UnicodeEnds ==
  ASSUME LexerInv, LexerInv', Covered, Covered', UnicodeRead, Adds, name.type = "NONE",
         pc = "unicode_number", LexUnicodeNumber
  PROVE  UnicodeRead'
<1>0. IsCode(pc, local)
  BY DEF IsCode, Ahead, CodePoints
<1>1. PICK lo, p \in Nat : lo = local.lo /\ p = pos /\ lo <= p
  BY <1>0, CodePlace
<1>2. CodeAt(pc, local, pos)
  BY <1>0, CodePlace
<1>3. PICK n : n = local.number
  OBVIOUS
<1>4. ~in_unicode_escape_brace /\ ~StartsBrace(lo) /\ HexRead(n, p)
  BY <1>1, <1>2, <1>3 DEF CodeAt, Ahead
<1>5. PICK data : data = CodeData(n.value, n.lo, p)
  OBVIOUS
<1>6. All(data.lo, data.hi, Hex) /\ data.value = Value(data.lo, data.hi, 16)
  BY <1>4, <1>5 DEF CodeData, HexRead
<1>7. ~BraceOpenAt(p)
  <2>1. LastEnd \in Nat /\ LastEnd <= p
    BY <1>1, BeginsAfter
  <2> QED BY <1>4, <2>1, OpenBefore DEF UnicodeRead, BraceTracked
<1>8. Deliver(0, data, FALSE) => UnicodeRead'
  <2>1. p = pos + 0
    BY <1>1
  <2> QED BY <1>1, <1>4, <1>6, <1>7, <2>1, CodeDelivered
<1> QED BY <1>1, <1>3, <1>5, <1>8, CodeFails DEF LexUnicodeNumber

LEMMA BraceGoes ==
  ASSUME LexerInv, Covered, UnicodeRead, name.type = "NONE", LexBrace
  PROVE  UnicodeRead'
<1>0. pc \in {"brace_open", "in_brace"} /\ IsCode(pc, local) /\ pc # "number"
  BY DEF LexBrace, At, Other, IsCode, Ahead, CodePoints
<1>1. PICK lo, p \in Nat : lo = local.lo /\ p = pos /\ lo <= p
  BY <1>0, CodePlace
<1>2. /\ HasShape(local) /\ Len(pattern) \in Nat /\ pattern \in Seq(Symbols)
      /\ Peek # "END" => pos < Len(pattern) /\ Peek = pattern[pos + 1]
      /\ InBrace(lo, p)
  BY <1>0, <1>1, CodePlace DEF CodeAt, Ahead
<1>3. Read(0, BraceNumber, local) => UnicodeRead'
  <2> SUFFICES ASSUME Read(0, BraceNumber, local) PROVE UnicodeRead'
    OBVIOUS
  <2>1. PICK n : n = Number(16, 6, 0, "SUCCESS", "brace_number")
    OBVIOUS
  <2>2. PICK l : l = [local EXCEPT !.number = [n EXCEPT !.lo = pos + 0]]
    OBVIOUS
  <2>3. SameLo(l) /\ l.lo = lo /\ l.number.after = "brace_number" /\ HexRead(l.number, p)
    BY <1>1, <1>2, <2>1, <2>2, HexBegins DEF SameLo
  <2>4. Advance(0, "number", l)
    BY <2>1, <2>2 DEF Read, BraceNumber
  <2>5. CodeAt("number", l, p) /\ IsCode("number", l) /\ p = pos + 0
    BY <1>1, <1>2, <2>3 DEF CodeAt, IsCode, Ahead, CodePoints
  <2> QED BY <1>0, <2>3, <2>4, <2>5, CodeGoes
<1>4. pc = "brace_open" /\ Peek \in Blanks /\ Advance(1, "brace_open", local) => UnicodeRead'
  <2> SUFFICES ASSUME pc = "brace_open", Peek \in Blanks, Advance(1, "brace_open", local) PROVE UnicodeRead'
    OBVIOUS
  <2>1. Peek # "END"
    BY Zenon DEF Blanks
  <2>2. PICK q \in Nat : q = p + 1
    OBVIOUS
  <2>3. q \in 1 .. Len(pattern) /\ pattern[q] \in Blanks
    BY <1>1, <1>2, <2>1, <2>2
  <2>4. pattern[q] \in Unclosing
    BY <1>2, <2>3, HexIsNoBrace DEF Unclosing
  <2>5. InBrace(lo, q)
    BY <1>1, <1>2, <2>2, <2>4, BraceFurther
  <2>6. CodeAt("brace_open", local, q) /\ IsCode("brace_open", local) /\ q = pos + 1
    BY <1>1, <2>2, <2>5 DEF CodeAt, IsCode, Ahead, CodePoints
  <2> QED BY <1>2, <2>6, CodeGoes, SameLoAs
<1>5. /\ Unclosed => UnicodeRead'
      /\ \A at, code, span : FailAt(at, code, span) => UnicodeRead'
  BY CodeFails
<1> QED BY <1>3, <1>4, <1>5, Zenon DEF LexBrace, At, Other

LEMMA BraceNumberGoes ==
  ASSUME LexerInv, Covered, UnicodeRead, name.type = "NONE", LexBraceNumber
  PROVE  UnicodeRead'
<1>0. pc = "brace_number" /\ IsCode(pc, local)
  BY DEF LexBraceNumber, At, Other, IsCode, Ahead, CodePoints
<1>1. PICK lo, p \in Nat : lo = local.lo /\ p = pos /\ lo <= p
  BY <1>0, CodePlace
<1>2. HasShape(local) /\ InBrace(lo, p) /\ HexRead(local.number, p)
  BY <1>0, <1>1, CodePlace DEF CodeAt, Ahead
<1>3. /\ \A n, code : FailHere(n, code) => UnicodeRead'
      /\ Unclosed => UnicodeRead'
      /\ \A at, code, span : FailAt(at, code, span) => UnicodeRead'
  BY CodeFails
<1>4. PICK l : l = [local EXCEPT !.code_hi = pos]
  OBVIOUS
<1>5. Advance(0, "brace_next", l) => UnicodeRead'
  <2>1. SameLo(l) /\ l.lo = lo /\ l.number = local.number
    BY <1>1, <1>2, <1>4, SameLoAs DEF HasShape, Fields
  <2>2. l.code_hi = p
    BY <1>0, <1>1, <1>4 DEF UnicodeRead, UnicodeAt
  <2>3. CodeAt("brace_next", l, p) /\ IsCode("brace_next", l) /\ p = pos + 0
    BY <1>1, <1>2, <2>1, <2>2 DEF CodeAt, IsCode, Ahead, CodePoints
  <2> QED BY <1>0, <2>1, <2>3, CodeGoes
<1> QED BY <1>3, <1>4, <1>5 DEF LexBraceNumber

LEMMA BraceCloses ==
  ASSUME LexerInv, LexerInv', Covered, Covered', UnicodeRead, Adds, name.type = "NONE", LexBraceNext
  PROVE  UnicodeRead'
<1>0. pc = "brace_next" /\ IsCode(pc, local)
  BY DEF LexBraceNext, At, Other, IsCode, Ahead, CodePoints
<1>1. PICK lo, p \in Nat : lo = local.lo /\ p = pos /\ lo <= p
  BY <1>0, CodePlace
<1>2. PICK n, code_hi : n = local.number /\ code_hi = local.code_hi
  OBVIOUS
<1>3. /\ HasShape(local) /\ Len(pattern) \in Nat /\ pattern \in Seq(Symbols)
      /\ Peek # "END" => pos < Len(pattern) /\ Peek = pattern[pos + 1]
      /\ InBrace(lo, p) /\ HexRead(n, code_hi)
  BY <1>0, <1>1, <1>2, CodePlace DEF CodeAt, Ahead
<1>4. PICK data : data = CodeData(n.value, n.lo, code_hi)
  OBVIOUS
<1>5. All(data.lo, data.hi, Hex) /\ data.value = Value(data.lo, data.hi, 16)
  BY <1>3, <1>4 DEF CodeData, HexRead
<1>6. PICK q \in Nat : q = p + 1
  OBVIOUS
<1>7. LastEnd \in Nat /\ LastEnd <= lo /\ TokensBefore(LastEnd)
  BY <1>0, <1>1, BeginsAfter DEF UnicodeRead, BraceTracked
<1>8. pc = "brace_next" /\ Peek \in Blanks /\ Advance(1, "brace_next", local) => UnicodeRead'
  <2> SUFFICES ASSUME Peek \in Blanks, Advance(1, "brace_next", local) PROVE UnicodeRead'
    OBVIOUS
  <2>1. Peek # "END"
    BY Zenon DEF Blanks
  <2>2. q \in 1 .. Len(pattern) /\ pattern[q] \in Blanks
    BY <1>1, <1>3, <1>6, <2>1
  <2>3. pattern[q] \in Unclosing
    BY <1>3, <2>2, HexIsNoBrace DEF Unclosing
  <2>4. InBrace(lo, q)
    BY <1>1, <1>3, <1>6, <2>3, BraceFurther
  <2>5. CodeAt("brace_next", local, q) /\ IsCode("brace_next", local) /\ q = pos + 1
    BY <1>1, <1>2, <1>3, <1>6, <2>4 DEF CodeAt, IsCode, Ahead, CodePoints
  <2> QED BY <1>0, <1>3, <2>5, CodeGoes, SameLoAs
<1>9. Peek = RightBrace /\ Deliver(1, data, FALSE) => UnicodeRead'
  <2> SUFFICES ASSUME Peek = RightBrace, Deliver(1, data, FALSE) PROVE UnicodeRead'
    OBVIOUS
  <2>1. RightBrace # "END"
    BY Zenon DEF RightBrace
  <2>2. pattern[q] \notin Unclosing
    BY <1>1, <1>3, <1>6, <2>1 DEF Unclosing
  <2>3. \A x \in Nat : x <= p => ~All(x, q, Unclosing)
    BY <1>6, <2>2 DEF All
  <2>4. ~BraceOpenAt(q)
    <3>1. \A i \in DOMAIN tokens : tokens[i].lo \in Nat /\ tokens[i].lo <= p
      BY <1>1, <1>7 DEF TokensBefore
    <3> QED BY <2>3, <3>1 DEF BraceOpenAt
  <2>5. ~All(lo, q, Unclosing) /\ q = pos + 1 /\ lo <= q
    BY <1>1, <1>6, <2>3
  <2> QED BY <1>0, <1>1, <1>5, <2>4, <2>5, CodeDelivered
<1>10. Deliver(0, data, TRUE) => UnicodeRead'
  <2> SUFFICES ASSUME Deliver(0, data, TRUE) PROVE UnicodeRead'
    OBVIOUS
  <2>1. CASE in_unicode_escape_brace
    <3>1. lo = LastEnd /\ All(lo, p, Unclosing)
      BY <1>3, <2>1 DEF InBrace
    <3>2. PICK i \in DOMAIN tokens : OpensBrace(tokens[i]) /\ All(tokens[i].lo, LastEnd, Unclosing)
      BY <2>1 DEF UnicodeRead, BraceTracked, BraceOpenAt
    <3>3. PICK x \in Nat : x = tokens[i].lo /\ x <= LastEnd
      BY <1>7 DEF TokensBefore
    <3>4. All(x, p, Unclosing)
      BY <1>1, <3>1, <3>2, <3>3, AllJoined
    <3>5. BraceOpenAt(p)
      BY <3>2, <3>3, <3>4 DEF BraceOpenAt
    <3>6. p = pos + 0
      BY <1>1
    <3> QED BY <1>0, <1>1, <1>5, <3>5, <3>6, CodeDelivered
  <2>2. CASE ~in_unicode_escape_brace
    <3>1. StartsBrace(lo) /\ lo + 3 <= p /\ All(lo, p, Unclosing) /\ p = pos + 0
      BY <1>1, <1>3, <2>2 DEF InBrace
    <3> QED BY <1>0, <1>1, <1>5, <3>1, CodeDelivered
  <2> QED BY <2>1, <2>2
<1>11. Unclosed => UnicodeRead'
  BY CodeFails
<1>12. RightBrace = "}" /\ data = BraceCode
  BY <1>2, <1>4, Zenon DEF RightBrace, BraceCode
<1> QED BY <1>0, <1>8, <1>9, <1>10, <1>11, <1>12, Zenon DEF LexBraceNext, At, Other

LEMMA CodeStep ==
  ASSUME LexerInv, LexerInv', Covered, Covered', UnicodeRead, Adds, Next, name.type = "NONE",
         IsCode(pc, local)
  PROVE  UnicodeRead'
<1>1. pc = "number" => UnicodeRead'
  BY UnicodeNumber
<1>2. InvalidBytes => UnicodeRead'
  BY CodeFails DEF InvalidBytes
<1>3. LexUnicode => UnicodeRead'
  BY UnicodeBegins DEF LexUnicode, At, Other
<1>4. LexUnicodeNumber => UnicodeRead'
  BY UnicodeEnds DEF LexUnicodeNumber
<1>5. LexBrace \/ LexBraceNumber \/ LexBraceNext => UnicodeRead'
  BY BraceGoes, BraceNumberGoes, BraceCloses
<1> QED BY <1>1, <1>2, <1>3, <1>4, <1>5, UnicodeSteps

LEMMA EscapedCode ==
  ASSUME LexerInv, Covered, Holds, UnicodeRead, Next, pc = "escaped", Peek = "u"
  PROVE  UnicodeRead'
<1>1. LexCommonEscape /\ name.type = "NONE"
  <2>1. ~InvalidBytes
    BY DEF InvalidBytes
  <2>2. ~LexEscapedAssertion
    BY DEF LexEscapedAssertion, At
  <2>3. ~(LexEscapedType \/ LexProperty \/ LexNamedReference)
    BY DEF LexEscapedType, LexProperty, LexNamedReference, CharTypes, At, Other
  <2>4. ~LexBare
    BY DEF LexBare, At, Decimal, Octal
  <2>5. name.type = "NONE"
    BY DEF Holds, MayHold
  <2> QED BY <2>1, <2>2, <2>3, <2>4, <2>5, EscapedSteps
<1>2. Advance(1, "unicode", local)
  BY <1>1 DEF LexCommonEscape, ByteEscapes, Escaped, At, Other
<1>3. PICK lo \in Nat : lo = local.lo
  BY PlaceInText
<1>4. /\ pos = lo + 1 /\ pattern[lo + 1] = "\\" /\ pos < Len(pattern) /\ pattern[pos + 1] = "u"
      /\ HasShape(local)
  BY <1>3, PlaceInText DEF OpeningAt
<1>5. PICK p : p = pos + 1 /\ p = lo + 2
  BY <1>4
<1>6. StartsCode(lo)
  BY <1>4, <1>5 DEF StartsCode
<1>7. ~in_unicode_escape_brace
  BY DEF UnicodeRead, UnicodeAt, IsCode, Ahead, CodePoints
<1>8. CodeAt("unicode", local, p) /\ IsCode("unicode", local)
  BY <1>3, <1>5, <1>6, <1>7 DEF CodeAt, IsCode, Ahead, CodePoints
<1> QED BY <1>1, <1>2, <1>4, <1>5, <1>8, CodeGoes, SameLoAs

(* A token that is not yet another one might begin such an escape.           *)
LEMMA NoCodeBegins ==
  ASSUME LexerInv, Covered, UnicodeRead, Next, pc \notin {"idle", "failed"},
         ~(IsCode(pc, local) /\ name.type = "NONE"), pc = "escaped" => Peek # "u",
         pc' \notin Openings \cup {"failed"}
  PROVE  ~StartsCode(local.lo)
<1>1. /\ local.lo \in Nat /\ pos \in Nat /\ Len(pattern) \in Nat /\ OpeningAt(pc, local, pos)
      /\ pc = "token" => pos = local.lo
      /\ Peek # "END" => pos < Len(pattern) /\ Peek = pattern[pos + 1]
      /\ Peek = "END" => pos = Len(pattern)
  BY PlaceInText
<1>2. CASE pc \notin Openings
  BY <1>2 DEF UnicodeRead, UnicodeAt
<1>3. CASE pc = "token"
  <2>1. Peek # "\\"
    <3> SUFFICES ASSUME Peek = "\\" PROVE FALSE
      OBVIOUS
    <3>1. OpenEscape => pc' = "escaped"
      BY DEF OpenEscape, Advance
    <3>2. ~LexLiteral
      BY Zenon DEF LexLiteral, Other, Special
    <3>3. ~(LexEnd \/ SkipWhitespace \/ OpenComment \/ LexSimple \/ LexQuantifier \/ OpenGroup)
      <4>1. ~SkipWhitespace
        BY Blank DEF SkipWhitespace, At
      <4>2. ~(LexEnd \/ OpenComment \/ LexSimple \/ LexQuantifier \/ OpenGroup)
        <5>1. ~LexEnd
          BY DEF LexEnd, At
        <5>2. ~OpenComment
          BY DEF OpenComment, At
        <5>3. ~LexSimple
          BY DEF LexSimple, At
        <5>4. ~LexQuantifier
          BY DEF LexQuantifier, At
        <5>5. ~OpenGroup
          BY <1>3 DEF OpenGroup, At, Other
        <5> QED BY <5>1, <5>2, <5>3, <5>4, <5>5
      <4> QED BY <4>1, <4>2
    <3>4. ~OpenBounds
      <4>1. "\\" # "{"
        BY Zenon
      <4> QED BY <4>1, Zenon DEF OpenBounds, At
    <3>5. ~InvalidBytes
      BY DEF InvalidBytes
    <3> QED BY <1>3, <3>1, <3>2, <3>3, <3>4, <3>5, TokenSteps DEF Openings
  <2> QED BY <1>1, <1>3, <2>1 DEF StartsCode
<1>4. CASE pc = "comment"
  BY <1>1, <1>4 DEF OpeningAt, CommentAt, StartsCode
<1>5. CASE pc \in {"group", "specifier"}
  BY <1>1, <1>5 DEF OpeningAt, StartsCode
<1>6. CASE pc = "carriage_return"
  BY <1>1, <1>6 DEF OpeningAt, StartsCode
<1>7. CASE pc = "escaped"
  <2>1. pos = local.lo + 1 /\ Peek # "u"
    BY <1>1, <1>7 DEF OpeningAt
  <2> QED BY <1>1, <2>1 DEF StartsCode
<1> QED BY <1>2, <1>3, <1>4, <1>5, <1>6, <1>7 DEF Openings

LEMMA EndUnicode ==
  ASSUME LexerInv, LexerInv', Covered, Covered', UnicodeRead, Adds, LexEnd
  PROVE  UnicodeRead'
<1>1. PICK lo \in Nat : lo = local.lo
  BY PlaceInText DEF LexEnd, At
<1>2. pc = "token" /\ lo = pos /\ pos + 0 = lo
  BY <1>1, PlaceInText DEF LexEnd, At
<1>3. /\ pc' = "idle" /\ pos' = lo /\ tok'.type = "END"
      /\ in_unicode_escape_brace' = in_unicode_escape_brace
  BY <1>2 DEF LexEnd, Emit, EmitAt, EmitReleasing
<1>4. in_unicode_escape_brace = FALSE
  BY <1>2 DEF UnicodeRead, BraceTracked, UnicodeAt, IsCode, Ahead, CodePoints
<1>5. ~BraceOpenAt(lo)
  <2>1. LastEnd \in Nat /\ LastEnd <= lo
    BY <1>1, <1>2, BeginsAfter
  <2> QED BY <1>4, <2>1, OpenBefore DEF UnicodeRead, BraceTracked
<1>6. ~(lo + 3 <= lo) /\ lo <= lo
  OBVIOUS
<1>7. pc \notin {"idle", "failed"} /\ tok'.type # "CODE"
  BY <1>2, <1>3
<1> QED BY <1>1, <1>3, <1>4, <1>5, <1>6, <1>7, CodeEmitted

(* The next call of lex goes on in the brace that was left open.             *)
LEMMA LexUnicodeRead ==
  ASSUME LexerInv, Covered, Holds, UnicodeRead, Lex
  PROVE  UnicodeRead'
<1>1. PICK where, l, p, held : /\ where = IF in_unicode_escape_brace THEN "in_brace" ELSE "token"
                               /\ l = Local(pos) /\ p = pos /\ held = name.type
  OBVIOUS
<1>2. /\ pc = "idle" /\ pc' = where /\ local' = l /\ pos' = p /\ name'.type = held
      /\ UNCHANGED <<encoding, pattern, tokens, in_unicode_escape_brace>>
  BY <1>1 DEF Lex, InputVars
<1>3. held = "NONE" /\ l.lo = p /\ "code_hi" \in DOMAIN l /\ p \in Nat
  BY <1>1, <1>2 DEF Holds, MayHold, Local, LexerInv, Located
<1>4. p = LastEnd
  BY <1>1, <1>2 DEF Covered, TokenStands, LastEnd
<1>5. CASE in_unicode_escape_brace
  <2>1. where = "in_brace"
    BY <1>1, <1>5
  <2>2. InBrace(l.lo, p)
    BY <1>3, <1>4, <1>5 DEF InBrace, All
  <2>3. UnicodeAt(where, l, p, held)
    BY <1>3, <2>1, <2>2 DEF UnicodeAt, CodeAt, IsCode, Ahead, CodePoints, EscapePoints, BytePoints
  <2> QED BY <1>2, <2>1, <2>3, StillUnicode
<1>6. CASE ~in_unicode_escape_brace
  <2>1. where = "token"
    BY <1>1, <1>6
  <2>2. UnicodeAt(where, l, p, held)
    BY <1>3, <1>6, <2>1 DEF UnicodeAt, IsCode, Ahead, CodePoints, EscapePoints, BytePoints, Openings
  <2> QED BY <1>2, <2>1, <2>2, StillUnicode
<1> QED BY <1>5, <1>6

LEMMA StepUnicode ==
  ASSUME LexerInv, LexerInv', Covered, Covered', Holds, UnicodeRead, Next
  PROVE  UnicodeRead'
<1>1. CASE pc = "idle"
  BY <1>1, IdleSteps, LexUnicodeRead
<1>2. CASE pc # "idle"
  <2>1. pc # "failed"
    BY BracePoints
  <2>2. Adds
    BY <1>2, StepAdds, NumberAfter DEF LexerInv, Located
  <2>3. CASE IsCode(pc, local) /\ name.type = "NONE"
    BY <2>2, <2>3, CodeStep
  <2>4. CASE ~(IsCode(pc, local) /\ name.type = "NONE")
    <3>1. in_unicode_escape_brace = FALSE
      BY <1>2, <2>1, <2>4 DEF UnicodeRead, BraceTracked, UnicodeAt
    <3>2. CASE LexEnd
      BY <2>2, <3>2, EndUnicode
    <3>3. CASE pc = "escaped" /\ Peek = "u"
      BY <3>3, EscapedCode
    <3>4. CASE ~LexEnd /\ ~(pc = "escaped" /\ Peek = "u")
      <4>1. Stays
        BY <1>2, <2>4, <3>1, <3>4, StepStays
      <4>2. pc' \notin Openings \cup {"failed"} => ~StartsCode(local.lo)
        BY <1>2, <2>1, <2>4, <3>4, NoCodeBegins
      <4> QED BY <1>2, <2>1, <2>2, <3>1, <4>1, <4>2, PlainStep
    <3> QED BY <3>2, <3>3, <3>4
  <2> QED BY <2>3, <2>4
<1> QED BY <1>1, <1>2

LEMMA StutterUnicode ==
  ASSUME UnicodeRead, UNCHANGED vars
  PROVE  UnicodeRead'
<1>1. UNCHANGED <<encoding, pattern, tokens, in_unicode_escape_brace, pc, local, pos, name, tok>>
  BY DEF vars, ParserVars, InputVars
<1>2. PICK where, l, p, held, token : /\ where = pc /\ l = local /\ p = pos /\ held = name.type
                                      /\ token = tok
  OBVIOUS
<1>3. UnicodeAt(where, l, p, held)
  BY <1>2 DEF UnicodeRead
<1>4. CASE pc # "idle"
  BY <1>1, <1>2, <1>3, <1>4, StillUnicode
<1>5. CASE pc = "idle"
  <2>1. BraceTracked'
    BY <1>1, StillTracked DEF UnicodeRead
  <2>2. UnicodeAt(pc, local, pos, name.type)'
    BY <1>1, <1>5 DEF UnicodeAt, Ahead, EscapePoints, BytePoints
  <2>3. PICK lo : lo = tok.lo
    OBVIOUS
  <2>4. /\ BraceOpenAt(tok.lo)' <=> BraceOpenAt(lo)
        /\ StartsCode(tok.lo)' <=> StartsCode(lo)
        /\ OpensBrace(tok)' <=> OpensBrace(token)
        /\ HasBackslash(tok.lo)' <=> HasBackslash(lo)
    <3>1. BraceOpenAt(lo)' = BraceOpenAt(lo)
      BY <1>1, SameBrace
    <3>2. BraceOpenAt(tok.lo)' <=> BraceOpenAt(lo)'
      BY <1>1, <2>3, Zenon DEF BraceOpenAt, All
    <3>3. StartsCode(lo)' = StartsCode(lo) /\ OpensBrace(token)' = OpensBrace(token)
      BY <1>1, SameCode
    <3>4. StartsCode(tok.lo)' <=> StartsCode(lo)'
      BY <1>1, <2>3, Zenon DEF StartsCode
    <3>5. OpensBrace(tok)' <=> OpensBrace(token)'
      BY <1>1, <1>2, Zenon DEF OpensBrace, Text
    <3>6. HasBackslash(tok.lo)' <=> HasBackslash(lo)
      BY <1>1, <2>3 DEF HasBackslash
    <3> QED BY <3>1, <3>2, <3>3, <3>4, <3>5, <3>6
  <2>5. Coded(tok)' <=> Coded(token)
    <3>1. /\ All(token.data.lo, token.data.hi, Hex)' = All(token.data.lo, token.data.hi, Hex)
          /\ Value(token.data.lo, token.data.hi, 16)' = Value(token.data.lo, token.data.hi, 16)
      BY <1>1, SameAll, SameValue
    <3>2. Coded(token)' <=> Coded(token)
      BY <3>1, Zenon DEF Coded
    <3>3. Coded(tok)' <=> Coded(token)'
      BY <1>1, <1>2, Zenon DEF Coded
    <3> QED BY <3>2, <3>3
  <2>6. CodeToken'
    BY <1>1, <1>2, <2>3, <2>4, <2>5 DEF UnicodeRead, CodeToken
  <2> QED BY <2>1, <2>2, <2>6 DEF UnicodeRead
<1> QED BY <1>4, <1>5

(* lex_unicode_escape and lex_unicode_escape_in_brace: for every pattern, the *)
(* lexer knows whether a brace of such an escape is open where it stands, and *)
(* whatever begins with `\u`, or stands in such a brace, is a code whose value *)
(* is the hexadecimal number written there.                                   *)
THEOREM UnicodeCodesAreWritten == Spec => []UnicodeCodesAsWritten
<1>1. Init => Holds /\ UnicodeRead
  <2> SUFFICES ASSUME Init PROVE UnicodeRead
    BY InitRefers
  <2>1. /\ pc = "token" /\ pos = 0 /\ local = Local(0) /\ tokens = <<>> /\ name.type = "NONE"
        /\ in_unicode_escape_brace = FALSE
    BY DEF Init, NoName
  <2>2. LastEnd = 0 /\ DOMAIN tokens = {}
    BY <2>1 DEF LastEnd
  <2>3. BraceTracked
    BY <2>1, <2>2 DEF BraceTracked, BraceOpenAt, TokensBefore
  <2>4. "code_hi" \in DOMAIN local
    BY <2>1 DEF Local
  <2>5. UnicodeAt(pc, local, pos, name.type)
    BY <2>1, <2>4 DEF UnicodeAt, IsCode, Ahead, CodePoints, EscapePoints, BytePoints, Openings
  <2> QED BY <2>1, <2>3, <2>5 DEF UnicodeRead, CodeToken
<1>2. LexerInv /\ LexerInv' /\ Covered /\ Covered' /\ (Holds /\ UnicodeRead) /\ [Next]_vars
        => (Holds /\ UnicodeRead)'
  <2> SUFFICES ASSUME LexerInv, LexerInv', Covered, Covered', Holds, UnicodeRead, [Next]_vars
               PROVE  (Holds /\ UnicodeRead)'
    OBVIOUS
  <2>1. CASE Next
    <3>1. HasShape(local) /\ (pc = "number" => local.number.after \in Afters)
      BY DEF LexerInv, Located
    <3> QED BY <2>1, <3>1, StepHolds, StepUnicode
  <2>2. CASE UNCHANGED vars
    <3>1. Holds'
      BY <2>2 DEF Holds, vars
    <3> QED BY <2>2, <3>1, StutterUnicode
  <2> QED BY <2>1, <2>2
<1>3. LexerInv /\ Covered /\ (Holds /\ UnicodeRead) => UnicodeCodesAsWritten
  BY CodesWritten
<1> QED BY <1>1, <1>2, <1>3, LexerInvariant, AlwaysCovered, PTL DEF Spec

=============================================================================
