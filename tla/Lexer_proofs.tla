----------------------------- MODULE Lexer_proofs -----------------------------
(***************************************************************************)
(* For every pattern, encoding and set of addresses: the lexer does not go *)
(* past the end of the pattern, a name's buffer has one owner, an option   *)
(* group says what its letters say, a brace is a quantifier just if bounds *)
(* are written in it, and the tokens cover the pattern.                    *)
(***************************************************************************)
EXTENDS LexerTokens, SequenceTheorems, FiniteSetTheorems, WellFoundedInduction, TLAPS

(* Points at which a name may have been read.                                *)
MayHold ==
  {"name", "name_escape", "named", "depth", "depth_sign", "depth_read", "close",
   "condition_close", "number", "escape", "hex_byte", "octal_byte", "meta", "meta_code", "control",
   "control_code", "bytes", "unicode", "unicode_number", "brace_open", "brace_number",
   "brace_next", "in_brace"}

(* Where a number goes on, and what must be true of the locals there.        *)
Afters ==
  {"min", "max", "numbered", "depth_read", "unicode_number", "brace_number", "hex_byte",
   "octal_byte", "bare"}
InBounds == {"bounds", "min", "comma", "max", "bounds_end"}

Fields == {"number", "lo", "escape", "terminator"}
HasShape(l) ==
  /\ Fields \subseteq DOMAIN l /\ "after" \in DOMAIN l.number
  /\ l.terminator # "END"

(* What a construct will read again begins before the end of the pattern.    *)
StandsAt(p, where, l) ==
  /\ where = "token" => l.lo = p
  /\ where \in InBounds => l.lo \in Nat /\ l.lo < Len(pattern)
  /\ where = "escaped" => l.escape \in Nat /\ l.escape + 1 = p
  /\ where = "bare" => l.escape \in Nat /\ l.escape + 1 < Len(pattern)
  /\ where = "meta_code" => p < Len(pattern)

Located ==
  /\ Len(pattern) \in Nat /\ pos \in Nat /\ pos <= Len(pattern)
  /\ HasShape(local)
  /\ StandsAt(pos, pc, local)
  /\ pc = "number" => local.number.after \in Afters /\ StandsAt(pos, local.number.after, local)

(* A name that was copied ends before a character, which lex_capture_num_or_- *)
(* name_with_depth is about to look at.                                       *)
Owned ==
  /\ heap = name.owns \cup tok.owns
  /\ pc # "idle" => tok.owns = {}
  /\ name.owns # {} => pc \in MayHold /\ (pc = "number" => local.number.after \in MayHold)
  /\ name.type = "OWNED" <=> name.owns # {}
  /\ {"type", "owns"} \subseteq DOMAIN name
  /\ pc = "named" => Peek \notin {"END", "BYTES"}
  /\ pc = "depth" /\ name.owns # {} => Peek # "BYTES"

LexerInv == Located /\ Owned

-----------------------------------------------------------------------------
(* Every way to go on keeps the invariant.                                   *)

LEMMA NotAtEnd ==
  ASSUME Located, Peek # "END" \/ pos < Len(pattern)
  PROVE  pos + 1 \in Nat /\ pos + 1 <= Len(pattern) /\ pos < Len(pattern)
BY DEF Located, Peek, AtEnd

LEMMA EmitKeeps ==
  ASSUME LexerInv, pc # "idle", NEW addresses, addresses \in {{}, name.owns}, NEW hi \in Nat,
         hi <= Len(pattern), NEW type, NEW data, EmitReleasing(addresses, hi, type, data)
  PROVE  LexerInv'
<1>1. /\ pos' = hi /\ pc' = "idle" /\ local' = local /\ pattern' = pattern /\ name' = NoName
      /\ tok'.owns = name.owns \ addresses /\ heap' = heap \ addresses
  BY DEF EmitReleasing, ParserVars, InputVars
<1>2. Located'
  BY <1>1 DEF LexerInv, Located, HasShape, StandsAt, InBounds
<1>3. Owned'
  BY <1>1 DEF LexerInv, Owned, NoName, MayHold
<1> QED BY <1>2, <1>3 DEF LexerInv

LEMMA EmitHere ==
  ASSUME LexerInv, pc # "idle", NEW n \in {0, 1}, n = 1 => Peek # "END" \/ pos < Len(pattern),
         NEW type, NEW data,
         Emit(n, type, data)
  PROVE  LexerInv'
<1>1. pos + n \in Nat /\ pos + n <= Len(pattern)
  BY NotAtEnd DEF LexerInv, Located
<1> QED BY <1>1, EmitKeeps DEF Emit, EmitAt

LEMMA FailKeeps ==
  ASSUME LexerInv, pc # "idle", NEW addresses, addresses = name.owns \/ name.owns = {},
         NEW at \in Nat, at <= Len(pattern), NEW code, NEW span,
         FailReleasing(addresses, at, code, span)
  PROVE  LexerInv'
<1>1. /\ pos' = at /\ pc' = "failed" /\ local' = local /\ pattern' = pattern /\ name' = NoName
      /\ tok' = tok /\ heap' = heap \ addresses
  BY DEF FailReleasing, ParserVars, InputVars
<1>2. Located'
  BY <1>1 DEF LexerInv, Located, HasShape, StandsAt, InBounds
<1>3. Owned'
  BY <1>1 DEF LexerInv, Owned, NoName, MayHold
<1> QED BY <1>2, <1>3 DEF LexerInv

LEMMA FailThere ==
  ASSUME LexerInv, pc # "idle", NEW n \in {0, 1}, n = 1 => Peek # "END" \/ pos < Len(pattern),
         NEW code, NEW lo,
         Fail(n, code, lo)
  PROVE  LexerInv'
<1>1. pos + n \in Nat /\ pos + n <= Len(pattern)
  BY NotAtEnd DEF LexerInv, Located
<1> QED BY <1>1, FailKeeps DEF Fail, FailAt

LEMMA FailsHere ==
  ASSUME LexerInv, pc # "idle", NEW n \in {0, 1}, n = 1 => Peek # "END" \/ pos < Len(pattern),
         NEW code,
         FailHere(n, code)
  PROVE  LexerInv'
BY FailThere DEF FailHere

LEMMA FailsAtPos ==
  ASSUME LexerInv, pc # "idle", NEW code, NEW span, FailAt(pos, code, span)
  PROVE  LexerInv'
BY FailKeeps DEF FailAt, LexerInv, Located

(* Advance: the locals fit where it goes on, and a name is not forgotten.    *)
LEMMA AdvanceKeeps ==
  ASSUME LexerInv, pc # "idle", NEW n \in Int, NEW where, NEW locals, Advance(n, where, locals),
         pos + n \in Nat, pos + n <= Len(pattern), HasShape(locals),
         StandsAt(pos + n, where, locals),
         where = "number" => /\ locals.number.after \in Afters
                             /\ StandsAt(pos + n, locals.number.after, locals),
         name.owns # {} => /\ where \in MayHold
                           /\ where = "number" => locals.number.after \in MayHold
                           /\ where = "depth" => n = 0 /\ Peek # "BYTES",
         where # "named"
  PROVE  LexerInv'
<1>1. /\ pos' = pos + n /\ pc' = where /\ local' = locals /\ pattern' = pattern /\ name' = name
      /\ tok' = tok /\ heap' = heap
  BY DEF Advance, ParserVars, InputVars
<1>2. Located'
  BY <1>1 DEF LexerInv, Located, StandsAt, HasShape
<1>3. ASSUME where = "depth", name.owns # {} PROVE Peek' # "BYTES"
  BY <1>1, <1>3 DEF Peek, AtEnd, LexerInv, Located
<1>4. Owned'
  BY <1>1, <1>3 DEF LexerInv, Owned
<1> QED BY <1>2, <1>4 DEF LexerInv

(* Points that ask nothing of the locals.                                     *)
IsPlain(where) ==
  where \notin InBounds \cup {"token", "escaped", "bare", "meta_code", "number", "named"}

LEMMA AdvancePlain ==
  ASSUME LexerInv, pc # "idle", NEW n \in {0, 1}, n = 1 => Peek # "END" \/ pos < Len(pattern),
         NEW where, NEW locals,
         Advance(n, where, locals), IsPlain(where), HasShape(locals),
         name.owns # {} => where \in MayHold \ {"depth"}
  PROVE  LexerInv'
<1>1. pos + n \in Nat /\ pos + n <= Len(pattern)
  BY NotAtEnd DEF LexerInv, Located
<1>2. StandsAt(pos + n, where, locals)
  BY DEF StandsAt, IsPlain
<1> QED BY <1>1, <1>2, AdvanceKeeps DEF IsPlain

LEMMA ReadKeeps ==
  ASSUME LexerInv, pc # "idle", NEW n \in {0, 1}, n = 1 => Peek # "END" \/ pos < Len(pattern),
         NEW base, NEW most,
         NEW limit, NEW error_code, NEW after, NEW locals,
         Read(n, Number(base, most, limit, error_code, after), locals), HasShape(locals),
         after \in Afters, StandsAt(pos + n, after, locals),
         name.owns # {} => after \in MayHold
  PROVE  LexerInv'
<1> DEFINE number == [Number(base, most, limit, error_code, after) EXCEPT !.lo = pos + n]
           new == [locals EXCEPT !.number = number]
<1>1. pos + n \in Nat /\ pos + n <= Len(pattern)
  BY NotAtEnd DEF LexerInv, Located
<1>2. number.after = after /\ "after" \in DOMAIN number
  BY DEF Number
<1>3. /\ new.number = number /\ new.lo = locals.lo /\ new.escape = locals.escape
      /\ new.terminator = locals.terminator /\ Fields \subseteq DOMAIN new
  BY DEF HasShape, Fields
<1>4. Advance(n, "number", new)
  BY DEF Read
<1> HIDE DEF number, new
<1>5. HasShape(new)
  BY <1>2, <1>3 DEF HasShape
<1>6. StandsAt(pos + n, "number", new) /\ StandsAt(pos + n, after, new)
  BY <1>3 DEF StandsAt, InBounds
<1>7. "number" \in MayHold /\ "number" # "depth" /\ "number" # "named"
  BY DEF MayHold
<1> QED BY <1>1, <1>2, <1>3, <1>4, <1>5, <1>6, <1>7, AdvanceKeeps

LEMMA RetryKeeps ==
  ASSUME LexerInv, pc # "idle", NEW n \in {0, 1}, n = 1 => Peek # "END" \/ pos < Len(pattern),
         Retry(n), name.owns = {}
  PROVE  LexerInv'
<1>1. pos + n \in Nat /\ pos + n <= Len(pattern)
  BY NotAtEnd DEF LexerInv, Located
<1>2. HasShape(Local(pos + n)) /\ StandsAt(pos + n, "token", Local(pos + n))
  BY <1>1 DEF HasShape, StandsAt, InBounds, Local, Fields, NoNumber, Number
<1> QED BY <1>1, <1>2, AdvanceKeeps DEF Retry

LEMMA NamelessAt ==
  ASSUME LexerInv
  PROVE  /\ pc \notin MayHold => name.owns = {}
         /\ pc = "number" /\ local.number.after \notin MayHold => name.owns = {}
         /\ HasShape(local) /\ pos \in Nat /\ pos <= Len(pattern) /\ Len(pattern) \in Nat
BY DEF LexerInv, Owned, Located

-----------------------------------------------------------------------------
(* Tokens.                                                                   *)

LEMMA BeginKeeps ==
  ASSUME LexerInv, LexEnd \/ SkipWhitespace \/ OpenComment \/ Comment \/ LexSimple \/ LexLiteral
  PROVE  LexerInv'
<1>1. CASE LexEnd
  BY <1>1, EmitHere DEF LexEnd, At
<1>2. CASE SkipWhitespace
  BY <1>2, RetryKeeps, NamelessAt DEF SkipWhitespace, At, Whitespace, MayHold
<1>3. CASE OpenComment
  <2>1. HasShape([local EXCEPT !.terminator = "\n"])
    BY NamelessAt DEF HasShape, Fields
  <2>2. IsPlain("comment") /\ pc = "token" /\ name.owns = {} /\ Peek # "END"
    BY <1>3, NamelessAt DEF IsPlain, InBounds, OpenComment, At, MayHold
  <2> QED BY <1>3, <2>1, <2>2, AdvancePlain DEF OpenComment
<1>4. CASE Comment
  <2>1. IsPlain("comment") /\ pc = "comment" /\ name.owns = {} /\ HasShape(local)
    BY <1>4, NamelessAt DEF IsPlain, InBounds, Comment, At, Other, MayHold
  <2>2. CASE At("comment", {"END"}) /\ Retry(0)
    BY <2>1, <2>2, RetryKeeps
  <2>3. CASE At("comment", {local.terminator}) /\ Retry(1)
    BY <2>1, <2>3, RetryKeeps DEF At, HasShape
  <2>4. CASE Other("comment", {local.terminator, "END"}) /\ Advance(1, "comment", local)
    BY <2>1, <2>4, AdvancePlain DEF Other
  <2> QED BY <1>4, <2>2, <2>3, <2>4 DEF Comment
<1>5. CASE LexSimple
  BY <1>5, EmitHere DEF LexSimple, At
<1>6. CASE LexLiteral
  <2>1. pc = "token" /\ Peek # "END"
    BY <1>6 DEF LexLiteral, Other
  <2>2. CASE EmitWarned(1, "LITERAL", Span(pos, pos + 1), "LITERAL_RIGHT_BRACKET")
    <3>1. pos + 1 \in Nat /\ pos + 1 <= Len(pattern)
      BY <2>1, NotAtEnd DEF LexerInv
    <3> QED BY <2>1, <2>2, <3>1, EmitKeeps DEF EmitWarned, EmitAt
  <2> QED BY <1>6, <2>1, <2>2, EmitHere DEF LexLiteral
<1> QED BY <1>1, <1>2, <1>3, <1>4, <1>5, <1>6

LEMMA BraceIsOneCharacter ==
  ASSUME LexerInv, pc \in InBounds, LiteralBrace
  PROVE  LexerInv'
<1>1. local.lo + 1 \in Nat /\ local.lo + 1 <= Len(pattern) /\ pc # "idle"
  BY DEF LexerInv, Located, StandsAt, InBounds
<1> QED BY <1>1, EmitKeeps DEF LiteralBrace, EmitAt

(* Within the bounds of a quantifier.                                        *)
LEMMA BoundsKeep ==
  ASSUME LexerInv, pc \in InBounds, name.owns = {}, NEW n \in {0, 1}, n = 1 => Peek # "END" \/ pos < Len(pattern),
         NEW where \in InBounds \cup {"greed"}, NEW locals, Advance(n, where, locals),
         HasShape(locals), locals.lo = local.lo
  PROVE  LexerInv'
<1>1. pos + n \in Nat /\ pos + n <= Len(pattern)
  BY NotAtEnd DEF LexerInv, Located
<1>2. StandsAt(pos + n, where, locals) /\ pc # "idle" /\ where # "number" /\ where # "named"
  BY DEF LexerInv, Located, StandsAt, InBounds
<1> QED BY <1>1, <1>2, AdvanceKeeps

LEMMA QuantifierKeeps ==
  ASSUME LexerInv,
         LexQuantifier \/ OpenBounds \/ LexMin \/ LexComma \/ LexMax \/ LexBoundsEnd
           \/ LexQuantifierType
  PROVE  LexerInv'
<1>0. HasShape(local) /\ (pc \in InBounds \cup {"token", "greed"} => name.owns = {} /\ pc # "idle")
  BY NamelessAt DEF InBounds, MayHold
<1>1. CASE LexQuantifier
  <2> DEFINE new == [local EXCEPT !.min = IF Peek = "+" THEN 1 ELSE 0, !.has_max = Peek = "?",
                                  !.max = IF Peek = "?" THEN 1 ELSE 0]
  <2>1. HasShape(new)
    BY <1>0 DEF HasShape, Fields
  <2>2. IsPlain("greed") /\ pc = "token" /\ Peek # "END" /\ Advance(1, "greed", new)
    BY <1>1 DEF IsPlain, InBounds, LexQuantifier, At
  <2> HIDE DEF new
  <2> QED BY <1>0, <2>1, <2>2, AdvancePlain
<1>2. CASE OpenBounds
  <2>1. pos + 1 \in Nat /\ pos + 1 <= Len(pattern) /\ pc = "token" /\ Advance(1, "bounds", local)
    BY <1>2, NotAtEnd DEF OpenBounds, At, LexerInv
  <2>2. StandsAt(pos + 1, "bounds", local)
    BY <2>1 DEF StandsAt, LexerInv, Located
  <2> QED BY <1>0, <2>1, <2>2, AdvanceKeeps
<1>3. CASE LexMin
  <2>1. CASE At("bounds", Decimal) /\ Read(0, Bound("min"), [local EXCEPT !.explicit = TRUE])
    <3> DEFINE new == [local EXCEPT !.explicit = TRUE]
    <3>1. HasShape(new) /\ new.lo = local.lo
      BY <1>0 DEF HasShape, Fields
    <3>2. pc = "bounds" /\ Read(0, Bound("min"), new)
      BY <2>1 DEF At
    <3> HIDE DEF new
    <3>3. StandsAt(pos + 0, "min", new) /\ "min" \in Afters
      BY <3>1, <3>2 DEF LexerInv, Located, StandsAt, InBounds, Afters
    <3> QED BY <1>0, <3>1, <3>2, <3>3, ReadKeeps DEF Bound, DecimalNumber, InBounds
  <2>2. CASE At("bounds", {","}) /\ Advance(1, "comma", local)
    BY <1>0, <2>2, BoundsKeep DEF At, InBounds
  <2>3. CASE Other("bounds", Decimal \cup {","}) /\ LiteralBrace
    BY <2>3, BraceIsOneCharacter DEF Other, InBounds
  <2> QED BY <1>3, <2>1, <2>2, <2>3 DEF LexMin
<1>4. CASE LexComma
  <2>1. CASE At("min", {"END"}) /\ LiteralBrace
    BY <2>1, BraceIsOneCharacter DEF At, InBounds
  <2>2. CASE At("min", {","}) /\ Advance(1, "comma", [local EXCEPT !.min = local.number.value])
    <3> DEFINE new == [local EXCEPT !.min = local.number.value]
    <3>1. HasShape(new) /\ new.lo = local.lo
      BY <1>0 DEF HasShape, Fields
    <3>2. pc = "min" /\ Peek # "END" /\ Advance(1, "comma", new)
      BY <2>2 DEF At
    <3> HIDE DEF new
    <3> QED BY <1>0, <3>1, <3>2, BoundsKeep DEF InBounds
  <2>3. CASE /\ Other("min", {"END", ","})
             /\ Advance(0, "bounds_end", [local EXCEPT !.min = local.number.value,
                                                       !.max = local.number.value, !.has_max = TRUE,
                                                       !.allows_reluctant = FALSE])
    <3> DEFINE new == [local EXCEPT !.min = local.number.value, !.max = local.number.value,
                                    !.has_max = TRUE, !.allows_reluctant = FALSE]
    <3>1. HasShape(new) /\ new.lo = local.lo
      BY <1>0 DEF HasShape, Fields
    <3>2. pc = "min" /\ Advance(0, "bounds_end", new)
      BY <2>3 DEF Other
    <3> HIDE DEF new
    <3> QED BY <1>0, <3>1, <3>2, BoundsKeep DEF InBounds
  <2> QED BY <1>4, <2>1, <2>2, <2>3 DEF LexComma
<1>5. CASE LexMax
  <2>1. CASE At("comma", Decimal) /\ Read(0, Bound("max"), [local EXCEPT !.has_max = TRUE])
    <3> DEFINE new == [local EXCEPT !.has_max = TRUE]
    <3>1. HasShape(new) /\ new.lo = local.lo
      BY <1>0 DEF HasShape, Fields
    <3>2. pc = "comma" /\ Read(0, Bound("max"), new)
      BY <2>1 DEF At
    <3> HIDE DEF new
    <3>3. StandsAt(pos + 0, "max", new) /\ "max" \in Afters
      BY <3>1, <3>2 DEF LexerInv, Located, StandsAt, InBounds, Afters
    <3> QED BY <1>0, <3>1, <3>2, <3>3, ReadKeeps DEF Bound, DecimalNumber, InBounds
  <2>2. CASE pc \in {"comma", "max"} /\ LiteralBrace
    BY <2>2, BraceIsOneCharacter DEF InBounds
  <2>3. CASE pc = "comma" /\ Advance(0, "bounds_end", local)
    BY <1>0, <2>3, BoundsKeep DEF InBounds
  <2>4. CASE /\ pc = "max"
             /\ Advance(0, "bounds_end", [local EXCEPT !.max = local.number.value])
    <3> DEFINE new == [local EXCEPT !.max = local.number.value]
    <3>1. HasShape(new) /\ new.lo = local.lo
      BY <1>0 DEF HasShape, Fields
    <3>2. pc = "max" /\ Advance(0, "bounds_end", new)
      BY <2>4
    <3> HIDE DEF new
    <3> QED BY <1>0, <3>1, <3>2, BoundsKeep DEF InBounds
  <2> QED BY <1>5, <2>1, <2>2, <2>3, <2>4 DEF LexMax, At, Other
<1>6. CASE LexBoundsEnd
  <2>1. pc = "bounds_end"
    BY <1>6 DEF LexBoundsEnd, At, Other
  <2>2. CASE Fail(0, "NUMBERS_OUT_OF_ORDER_IN_QUANTIFIER", local.lo)
    BY <2>1, <2>2, FailThere
  <2>3. CASE At("bounds_end", {"}"}) /\ Advance(1, "greed", local)
    BY <1>0, <2>1, <2>3, BoundsKeep DEF At, InBounds
  <2>4. CASE LiteralBrace
    BY <2>1, <2>4, BraceIsOneCharacter DEF InBounds
  <2> QED BY <1>6, <2>2, <2>3, <2>4 DEF LexBoundsEnd
<1>7. CASE LexQuantifierType
  BY <1>7, EmitHere DEF LexQuantifierType, At, Other
<1> QED BY <1>1, <1>2, <1>3, <1>4, <1>5, <1>6, <1>7

-----------------------------------------------------------------------------
(* Groups and options.                                                       *)

(* A step from a point where no name can have been read.                     *)
LEMMA NamelessStep ==
  ASSUME LexerInv, pc \notin MayHold \cup {"idle"}, NEW n \in {0, 1}, n = 1 => Peek # "END" \/ pos < Len(pattern),
         NEW where, NEW locals, Advance(n, where, locals), IsPlain(where), HasShape(locals)
  PROVE  LexerInv'
BY NamelessAt, AdvancePlain

LEMMA ReferenceShape ==
  ASSUME LexerInv, NEW kind, NEW terminator, NEW lo, terminator # "END"
  PROVE  HasShape(Reference(kind, terminator, lo))
BY NamelessAt DEF Reference, HasShape, Fields

LEMMA GroupKeeps ==
  ASSUME LexerInv, OpenGroup \/ LexSpecifier \/ LexLookbehind \/ LexCondition \/ LexConditionClose
  PROVE  LexerInv'
<1>0. /\ HasShape(local)
      /\ IsPlain("group") /\ IsPlain("specifier") /\ IsPlain("lookbehind") /\ IsPlain("condition")
      /\ IsPlain("reference") /\ IsPlain("option") /\ IsPlain("comment")
  BY NamelessAt DEF IsPlain, InBounds
<1>1. CASE OpenGroup
  BY <1>0, <1>1, EmitHere, NamelessStep DEF OpenGroup, At, Other, MayHold
<1>2. CASE LexSpecifier
  <2>1. pc = "specifier" /\ pc \notin MayHold \cup {"idle"}
    BY <1>2 DEF LexSpecifier, At, Other, MayHold
  <2>2. CASE At("specifier", {"END"}) /\ Incomplete(0)
    BY <2>1, <2>2, FailThere DEF Incomplete
  <2>3. CASE At("specifier", {"#"}) /\ Advance(1, "comment", [local EXCEPT !.terminator = ")"])
    <3>1. HasShape([local EXCEPT !.terminator = ")"])
      BY <1>0 DEF HasShape, Fields
    <3> QED BY <1>0, <2>1, <2>3, <3>1, NamelessStep DEF At
  <2>4. CASE \E type, data : Peek # "END" /\ Emit(1, type, data)
    BY <2>1, <2>4, EmitHere
  <2>5. CASE At("specifier", {"<"}) /\ Advance(1, "lookbehind", local)
    BY <1>0, <2>1, <2>5, NamelessStep DEF At
  <2>6. CASE At("specifier", {"'"}) /\ Advance(1, "reference", Reference("group", "'", pos + 1))
    <3>1. HasShape(Reference("group", "'", pos + 1))
      BY ReferenceShape
    <3> QED BY <1>0, <2>1, <2>6, <3>1, NamelessStep DEF At
  <2>7. CASE At("specifier", {"("}) /\ Advance(1, "condition", local)
    BY <1>0, <2>1, <2>7, NamelessStep DEF At
  <2>8. CASE Advance(0, "option", [local EXCEPT !.option = options])
    <3>1. HasShape([local EXCEPT !.option = options])
      BY <1>0 DEF HasShape, Fields
    <3> QED BY <1>0, <2>1, <2>8, <3>1, NamelessStep
  <2>9. CASE FailAt(pos, "UNDEFINED_GROUP_OPTION", Span(pos, pos + 1))
    BY <2>1, <2>9, FailsAtPos
  <2>10. ASSUME At("specifier", {"=", "!", ">", "~"}) PROVE Peek # "END"
    BY <2>10 DEF At
  <2> QED BY <1>2, <2>2, <2>3, <2>4, <2>5, <2>6, <2>7, <2>8, <2>9, <2>10 DEF LexSpecifier, At
<1>3. CASE LexLookbehind
  <2>1. pc = "lookbehind" /\ pc \notin MayHold \cup {"idle"}
    BY <1>3 DEF LexLookbehind, At, Other, MayHold
  <2>2. HasShape(Reference("group", ">", pos))
    BY ReferenceShape
  <2>3. CASE At("lookbehind", {"END"}) /\ Incomplete(0)
    BY <2>1, <2>3, FailThere DEF Incomplete
  <2>4. CASE /\ At("lookbehind", {"=", "!"})
             /\ Emit(1, "LOOKAROUND_OPEN", Lookaround(TRUE, Peek = "="))
    BY <2>1, <2>4, EmitHere DEF At
  <2>5. CASE Advance(0, "reference", Reference("group", ">", pos))
    BY <1>0, <2>1, <2>2, <2>5, NamelessStep
  <2> QED BY <1>3, <2>3, <2>4, <2>5 DEF LexLookbehind
<1>4. CASE LexCondition
  <2>1. pc = "condition" /\ pc \notin MayHold \cup {"idle"}
    BY <1>4 DEF LexCondition, At, Other, MayHold
  <2>2. CASE Advance(0, "reference", Reference("condition", ")", pos))
    <3>1. HasShape(Reference("condition", ")", pos))
      BY ReferenceShape
    <3> QED BY <1>0, <2>1, <2>2, <3>1, NamelessStep
  <2>3. CASE /\ At("condition", {"'", "<"})
             /\ Advance(1, "reference", Reference("quoted_condition", Closing(Peek), pos + 1))
    <3>1. Closing(Peek) # "END" /\ Peek # "END"
      BY <2>3 DEF Closing, At
    <3>2. HasShape(Reference("quoted_condition", Closing(Peek), pos + 1))
      BY <3>1, ReferenceShape
    <3> QED BY <1>0, <2>1, <2>3, <3>1, <3>2, NamelessStep
  <2>4. CASE Incomplete(0)
    BY <2>1, <2>4, FailThere DEF Incomplete
  <2> QED BY <1>4, <2>2, <2>3, <2>4 DEF LexCondition
<1>5. CASE LexConditionClose
  <2>1. pc = "condition_close"
    BY <1>5 DEF LexConditionClose, At, Other
  <2>2. CASE FailAt(pos, "INVALID_CONDITIONAL_CAPTURE_NUMBER", Span(local.name_lo, local.name_hi))
    BY <2>1, <2>2, FailsAtPos
  <2>3. CASE Incomplete(0)
    BY <2>1, <2>3, FailThere DEF Incomplete
  <2>4. CASE At("condition_close", {")"}) /\ Emit(1, "CONDITIONAL_OPEN", Target)
    BY <2>1, <2>4, EmitHere DEF At
  <2> QED BY <1>5, <2>2, <2>3, <2>4 DEF LexConditionClose
<1> QED BY <1>1, <1>2, <1>3, <1>4, <1>5

LEMMA OptionKeeps ==
  ASSUME LexerInv, LexOption
  PROVE  LexerInv'
<1>0. HasShape(local) /\ IsPlain("option")
  BY NamelessAt DEF IsPlain, InBounds
<1>1. pc = "option" /\ pc \notin MayHold \cup {"idle"}
  BY DEF LexOption, At, Other, MayHold
<1>2. CASE Incomplete(0)
  BY <1>1, <1>2, FailThere DEF Incomplete
<1>3. CASE \E code, span : FailAt(pos, code, span)
  BY <1>1, <1>3, FailsAtPos
<1>4. CASE /\ At("option", OptionSymbols \ {"-", ":"})
           /\ Advance(1, "option", [local EXCEPT !.option = Switched(@, Peek, local.positive)])
  <2> DEFINE new == [local EXCEPT !.option = Switched(@, Peek, local.positive)]
  <2>1. HasShape(new)
    BY <1>0 DEF HasShape, Fields
  <2>2. Peek # "END" /\ Advance(1, "option", new)
    BY <1>4 DEF At, OptionSymbols
  <2> HIDE DEF new
  <2> QED BY <1>0, <1>1, <2>1, <2>2, NamelessStep
<1>5. CASE /\ At("option", {"-"})
           /\ Warn(~local.positive, "REDUNDANT_GROUP_OPTION_MINUS", 1, "option",
                   [local EXCEPT !.positive = Negated(@)])
  <2> DEFINE new == [local EXCEPT !.positive = Negated(@)]
  <2>1. HasShape(new)
    BY <1>0 DEF HasShape, Fields
  <2>2. /\ pos' = pos + 1 /\ pc' = "option" /\ local' = new /\ pattern' = pattern /\ name' = name
        /\ tok' = tok /\ heap' = heap
    BY <1>5 DEF Warn, ParserVars, InputVars
  <2> HIDE DEF new
  <2>3. pos + 1 \in Nat /\ pos + 1 <= Len(pattern)
    BY <1>5, NotAtEnd DEF At, LexerInv
  <2>4. Located'
    BY <1>0, <2>1, <2>2, <2>3 DEF LexerInv, Located, StandsAt, HasShape, InBounds
  <2>5. Owned'
    BY <1>1, <2>2 DEF LexerInv, Owned
  <2> QED BY <2>4, <2>5 DEF LexerInv
<1>6. CASE \E type, data : At("option", {":", ")"}) /\ Emit(1, type, data)
  BY <1>1, <1>6, EmitHere DEF At
<1> QED BY <1>2, <1>3, <1>4, <1>5, <1>6 DEF LexOption, At

-----------------------------------------------------------------------------
(* References and names.                                                     *)

LEMMA OpenNameKeeps ==
  ASSUME LexerInv, pc # "idle", name.owns = {}, OpenName
  PROVE  LexerInv'
<1>1. /\ pos' = pos /\ pc' = "name" /\ local' = local /\ pattern' = pattern
      /\ tok' = tok /\ heap' = heap
      /\ name' = [NoName EXCEPT !.type = "VIEW", !.lo = pos, !.hi = pos]
  BY DEF OpenName, ParserVars, InputVars
<1>2. name'.type = "VIEW" /\ name'.owns = {} /\ {"type", "owns"} \subseteq DOMAIN name'
  BY <1>1 DEF NoName
<1>3. Located'
  BY <1>1 DEF LexerInv, Located, StandsAt, HasShape, InBounds
<1>4. Owned'
  BY <1>1, <1>2 DEF LexerInv, Owned
<1> QED BY <1>3, <1>4 DEF LexerInv

LEMMA UnterminatedFails ==
  ASSUME LexerInv, pc # "idle", Unterminated
  PROVE  LexerInv'
BY FailThere, FailsHere DEF Unterminated, Incomplete

LEMMA NumberOfCapture ==
  ASSUME LexerInv, pc \notin MayHold \cup {"idle"}, NEW locals, HasShape(locals),
         Read(0, CaptureNumber, locals)
  PROVE  LexerInv'
<1>1. StandsAt(pos + 0, "numbered", locals) /\ "numbered" \in Afters
  BY DEF StandsAt, InBounds, Afters
<1> QED BY <1>1, NamelessAt, ReadKeeps DEF CaptureNumber, DecimalNumber

LEMMA ReferenceKeeps ==
  ASSUME LexerInv, LexReference \/ LexSign \/ LexNumbered
  PROVE  LexerInv'
<1>0. HasShape(local) /\ IsPlain("sign") /\ IsPlain("depth") /\ IsPlain("close")
  BY NamelessAt DEF IsPlain, InBounds
<1>1. pc \in {"reference", "sign", "numbered"} /\ pc \notin MayHold \cup {"idle"}
  BY DEF LexReference, LexSign, LexNumbered, At, Other, MayHold
<1>2. CASE LexReference
  <2>1. CASE Unterminated
    BY <1>1, <2>1, UnterminatedFails
  <2>2. CASE Read(0, CaptureNumber, [local EXCEPT !.num_lo = pos])
    <3>1. HasShape([local EXCEPT !.num_lo = pos])
      BY <1>0 DEF HasShape, Fields
    <3> QED BY <1>1, <2>2, <3>1, NumberOfCapture
  <2>3. CASE /\ At("reference", {"-"})
             /\ Advance(1, "sign", [local EXCEPT !.num_lo = pos, !.sign = -1])
    <3>1. HasShape([local EXCEPT !.num_lo = pos, !.sign = -1])
      BY <1>0 DEF HasShape, Fields
    <3> QED BY <1>0, <1>1, <2>3, <3>1, NamelessStep DEF At
  <2>4. CASE OpenName
    BY <1>1, <2>4, NamelessAt, OpenNameKeeps
  <2> QED BY <1>2, <2>1, <2>2, <2>3, <2>4 DEF LexReference
<1>3. CASE LexSign
  BY <1>0, <1>1, <1>3, FailsHere, FailsAtPos, NumberOfCapture DEF LexSign
<1>4. CASE LexNumbered
  <2>1. CASE \E code, lo : Fail(0, code, lo)
    BY <1>1, <2>1, FailThere
  <2>2. CASE \E number : Advance(0, IF TakesDepth THEN "depth" ELSE "close",
                                 [local EXCEPT !.num = number, !.has_num = TRUE])
    <3>1. PICK number : Advance(0, IF TakesDepth THEN "depth" ELSE "close",
                                [local EXCEPT !.num = number, !.has_num = TRUE])
      BY <2>2
    <3>2. HasShape([local EXCEPT !.num = number, !.has_num = TRUE])
      BY <1>0 DEF HasShape, Fields
    <3> QED BY <1>0, <1>1, <3>1, <3>2, NamelessStep
  <2> QED BY <1>4, <2>1, <2>2 DEF LexNumbered
<1> QED BY <1>2, <1>3, <1>4

LEMMA DepthKeeps ==
  ASSUME LexerInv, LexDepth
  PROVE  LexerInv'
<1>0. /\ HasShape(local) /\ IsPlain("depth_sign") /\ IsPlain(AfterReference)
      /\ AfterReference \in MayHold \ {"depth"} /\ "depth_sign" \in MayHold
  BY NamelessAt DEF IsPlain, InBounds, AfterReference, MayHold
<1>1. pc \in {"depth", "depth_sign", "depth_read"}
  BY DEF LexDepth, At, Other
<1>2. CASE Advance(0, AfterReference, [local EXCEPT !.name_hi = pos])
  <2>1. HasShape([local EXCEPT !.name_hi = pos])
    BY <1>0 DEF HasShape, Fields
  <2> QED BY <1>0, <1>1, <1>2, <2>1, AdvancePlain
<1>3. CASE /\ At("depth", {"+", "-"})
           /\ Advance(1, "depth_sign",
                      [local EXCEPT !.depth_lo = pos, !.sign = IF Peek = "+" THEN 1 ELSE -1])
  <2> DEFINE new == [local EXCEPT !.depth_lo = pos, !.sign = IF Peek = "+" THEN 1 ELSE -1]
  <2>1. HasShape(new)
    BY <1>0 DEF HasShape, Fields
  <2>2. Peek # "END" /\ Advance(1, "depth_sign", new)
    BY <1>3 DEF At
  <2> HIDE DEF new
  <2> QED BY <1>0, <1>1, <2>1, <2>2, AdvancePlain
<1>4. CASE Fail(0, "INCOMPLETE_CAPTURE_DEPTH", local.depth_lo)
  BY <1>1, <1>4, FailThere
<1>5. CASE Read(0, CaptureDepth, local)
  <2>1. StandsAt(pos + 0, "depth_read", local) /\ "depth_read" \in Afters /\ "depth_read" \in MayHold
    BY DEF StandsAt, InBounds, Afters, MayHold
  <2> QED BY <1>0, <1>1, <1>5, <2>1, ReadKeeps DEF CaptureDepth, DecimalNumber
<1>6. CASE Advance(0, AfterReference,
                   [local EXCEPT !.has_depth = TRUE, !.depth = local.sign * local.number.value,
                                 !.name_hi = pos])
  <2> DEFINE new == [local EXCEPT !.has_depth = TRUE, !.depth = local.sign * local.number.value,
                                  !.name_hi = pos]
  <2>1. HasShape(new)
    BY <1>0 DEF HasShape, Fields
  <2>2. Advance(0, AfterReference, new)
    BY <1>6
  <2> HIDE DEF new
  <2> QED BY <1>0, <1>1, <2>1, <2>2, AdvancePlain
<1> QED BY <1>2, <1>3, <1>4, <1>5, <1>6 DEF LexDepth

LEMMA CloseKeeps ==
  ASSUME LexerInv, LexClose
  PROVE  LexerInv'
<1>0. HasShape(local) /\ IsPlain("condition_close") /\ "condition_close" \in MayHold \ {"depth"}
  BY NamelessAt DEF IsPlain, InBounds, MayHold
<1>1. pc = "close"
  BY DEF LexClose, At, Other
<1>2. CASE Unterminated
  BY <1>1, <1>2, UnterminatedFails
<1>3. CASE Fail(0, "INVALID_BACK_REF", local.name_lo)
  BY <1>1, <1>3, FailThere
<1>4. CASE At("close", {local.terminator}) /\ \E type : Emit(1, type, Target)
  BY <1>0, <1>1, <1>4, EmitHere DEF At, HasShape
<1>5. CASE /\ At("close", {local.terminator})
           /\ Advance(1, "condition_close", [local EXCEPT !.name_hi = pos])
  <2>1. HasShape([local EXCEPT !.name_hi = pos]) /\ Peek # "END"
    BY <1>0, <1>5 DEF HasShape, Fields, At
  <2> QED BY <1>0, <1>1, <1>5, <2>1, AdvancePlain
<1>6. CASE Peek # "END" /\ \E code : Fail(1, code, local.lo)
  BY <1>1, <1>6, FailThere
<1>7. CASE Incomplete(0)
  BY <1>1, <1>7, FailThere DEF Incomplete
<1> QED BY <1>2, <1>3, <1>4, <1>5, <1>6, <1>7 DEF LexClose, Other

(* A name grows in its buffer, or in a new one that replaces it.             *)
LEMMA AppendKeeps ==
  ASSUME LexerInv, pc # "idle", NEW n \in {0, 1}, n = 1 => Peek # "END" \/ pos < Len(pattern),
         NEW text, NEW is_next,
         NEW where \in {"name", "in_brace"}, AppendToName(text, is_next, n, where, local)
  PROVE  LexerInv'
<1>1. pos + n \in Nat /\ pos + n <= Len(pattern)
  BY NotAtEnd DEF LexerInv, Located
<1>2. ASSUME pos' = pos + n, pc' = where, local' = local, pattern' = pattern
      PROVE  Located'
  BY <1>1, <1>2 DEF LexerInv, Located, StandsAt, HasShape, InBounds
<1>3. CASE /\ \E hi : name' = [name EXCEPT !.text = Joined(text), !.hi = hi]
           /\ pos' = pos + n /\ pc' = where /\ local' = local /\ pattern' = pattern
           /\ heap' = heap /\ tok' = tok
  <2>1. /\ name'.owns = name.owns /\ name'.type = name.type
        /\ {"type", "owns"} \subseteq DOMAIN name'
    BY <1>3 DEF LexerInv, Owned
  <2>2. Owned'
    BY <1>3, <2>1 DEF LexerInv, Owned, MayHold
  <2> QED BY <1>2, <1>3, <2>2 DEF LexerInv
<1>4. CASE /\ \E address \in Addresses \ heap :
                /\ name' = Own(address, Capacity(Len(Joined(text))), Joined(text))
                /\ heap' = FreeOld(address)
           /\ pos' = pos + n /\ pc' = where /\ local' = local /\ pattern' = pattern
           /\ tok' = tok
  <2>1. PICK address : /\ name' = Own(address, Capacity(Len(Joined(text))), Joined(text))
                       /\ heap' = FreeOld(address)
    BY <1>4
  <2>2. /\ name'.owns = {address} /\ name'.type = "OWNED"
        /\ {"type", "owns"} \subseteq DOMAIN name'
    BY <2>1 DEF Own, LexerInv, Owned
  <2>3. heap' = {address}
    BY <2>1 DEF FreeOld, LexerInv, Owned
  <2>4. Owned'
    BY <1>4, <2>2, <2>3 DEF LexerInv, Owned, MayHold
  <2> QED BY <1>2, <1>4, <2>4 DEF LexerInv
<1>5. CASE OutOfMemory(n)
  BY <1>5, FailsHere DEF OutOfMemory
<1>6. \/ \E hi : name' = [name EXCEPT !.text = Joined(text), !.hi = hi]
                 /\ pos' = pos + n /\ pc' = where /\ local' = local /\ pattern' = pattern
                 /\ heap' = heap /\ tok' = tok
      \/ /\ \E address \in Addresses \ heap :
              /\ name' = Own(address, Capacity(Len(Joined(text))), Joined(text))
              /\ heap' = FreeOld(address)
         /\ pos' = pos + n /\ pc' = where /\ local' = local /\ pattern' = pattern
         /\ tok' = tok
      \/ OutOfMemory(n)
  BY DEF AppendToName, ParserVars, InputVars
<1> QED BY <1>3, <1>4, <1>5, <1>6

LEMMA NameKeeps ==
  ASSUME LexerInv, LexName
  PROVE  LexerInv'
<1>0. /\ HasShape(local) /\ IsPlain("name_escape") /\ IsPlain("unicode") /\ IsPlain("escape")
      /\ {"name_escape", "unicode", "escape"} \subseteq MayHold \ {"depth"}
  BY NamelessAt DEF IsPlain, InBounds, MayHold
<1>1. pc \in {"name", "name_escape"} /\ pc # "idle"
  BY DEF LexName, At, Other
<1>2. CASE Unterminated
  BY <1>1, <1>2, UnterminatedFails
<1>3. CASE /\ At("name", {"\\"})
           /\ Advance(1, "name_escape", [local EXCEPT !.escape = pos, !.first = pos, !.bytes = <<>>])
  <2> DEFINE new == [local EXCEPT !.escape = pos, !.first = pos, !.bytes = <<>>]
  <2>1. HasShape(new)
    BY <1>0 DEF HasShape, Fields
  <2>2. Peek # "END" /\ Advance(1, "name_escape", new)
    BY <1>3 DEF At
  <2> HIDE DEF new
  <2> QED BY <1>0, <1>1, <2>1, <2>2, AdvancePlain
<1>4. CASE Peek # "END" /\ AppendToName(Encode(Code(Peek)), TRUE, 1, "name", local)
  BY <1>1, <1>4, AppendKeeps
<1>5. CASE FailHere(0, "UNEXPECTED_END_OF_PATTERN")
  BY <1>1, <1>5, FailsHere
<1>6. CASE At("name_escape", {"u"}) /\ Advance(1, "unicode", local)
  BY <1>0, <1>1, <1>6, AdvancePlain DEF At
<1>7. CASE Advance(0, "escape", local)
  BY <1>0, <1>1, <1>7, AdvancePlain
<1> QED BY <1>2, <1>3, <1>4, <1>5, <1>6, <1>7 DEF LexName, Other

LEMMA TrimKeeps ==
  ASSUME LexerInv, TrimName
  PROVE  LexerInv'
<1>1. pc = "name" /\ Peek \notin {"END", "BYTES"}
  BY DEF TrimName, Other
<1>2. ASSUME pos' = pos, pc' = "named", local' = local, pattern' = pattern
      PROVE  Located' /\ Peek' \notin {"END", "BYTES"}
  <2>1. Located'
    BY <1>2 DEF LexerInv, Located, StandsAt, HasShape, InBounds
  <2>2. Peek' = Peek
    BY <1>2 DEF Peek, AtEnd
  <2> QED BY <1>1, <2>1, <2>2
<1>3. CASE /\ pos' = pos /\ pc' = "named" /\ local' = local /\ pattern' = pattern
           /\ name' = name /\ heap' = heap /\ tok' = tok
  <2>1. Owned'
    BY <1>1, <1>2, <1>3 DEF LexerInv, Owned, MayHold
  <2> QED BY <1>2, <1>3, <2>1 DEF LexerInv
<1>4. CASE /\ \E address : /\ name' = Own(address, Len(name.text), name.text)
                           /\ heap' = FreeOld(address)
           /\ pos' = pos /\ pc' = "named" /\ local' = local /\ pattern' = pattern
           /\ tok' = tok
  <2>1. PICK address : /\ name' = Own(address, Len(name.text), name.text)
                       /\ heap' = FreeOld(address)
    BY <1>4
  <2>2. /\ name'.owns = {address} /\ name'.type = "OWNED"
        /\ {"type", "owns"} \subseteq DOMAIN name'
    BY <2>1 DEF Own, LexerInv, Owned
  <2>3. heap' = {address}
    BY <1>1, <2>1 DEF FreeOld, LexerInv, Owned
  <2>4. Owned'
    BY <1>1, <1>2, <1>4, <2>2, <2>3 DEF LexerInv, Owned, MayHold
  <2> QED BY <1>2, <1>4, <2>4 DEF LexerInv
<1>5. CASE OutOfMemory(0)
  BY <1>1, <1>5, FailsHere DEF OutOfMemory
<1> QED BY <1>3, <1>4, <1>5 DEF TrimName, ParserVars, InputVars

LEMMA NamedKeeps ==
  ASSUME LexerInv, LexNamed
  PROVE  LexerInv'
<1>0. HasShape(local) /\ pos + 0 \in Nat /\ pos + 0 = pos /\ pos <= Len(pattern)
  BY NamelessAt
<1>1. /\ pc = "named" /\ Peek \notin {"END", "BYTES"}
      /\ pos + 1 \in Nat /\ pos + 1 <= Len(pattern)
  BY NotAtEnd DEF LexNamed, LexerInv, Owned
<1>2. CASE Fail(0, "EMPTY_CHAR_PROP_NAME", local.lo)
  BY <1>1, <1>2, FailThere
<1>3. CASE FailHere(0, "EMPTY_GROUP_NAME")
  BY <1>1, <1>3, FailsHere
<1>4. CASE FailAt(pos + 1, "INVALID_CHAR_PROP_NAME", Span(local.name_lo, pos))
  BY <1>1, <1>4, FailKeeps DEF FailAt
<1>5. CASE \E data : EmitReleasing(name.owns, pos + 1, "CHAR_PROP", data)
  BY <1>1, <1>5, EmitKeeps
<1>6. CASE Advance(0, IF TakesDepth THEN "depth" ELSE "close", local)
  <2> DEFINE where == IF TakesDepth THEN "depth" ELSE "close"
  <2>1. /\ StandsAt(pos + 0, where, local) /\ where \in MayHold
        /\ where # "number" /\ where # "named"
    BY DEF StandsAt, InBounds, MayHold
  <2>2. Advance(0, where, local)
    BY <1>6
  <2> HIDE DEF where
  <2> QED BY <1>0, <1>1, <2>1, <2>2, AdvanceKeeps
<1> QED BY <1>2, <1>3, <1>4, <1>5, <1>6 DEF LexNamed

-----------------------------------------------------------------------------
(* Code points and bytes, in a name or as a token.                           *)

Delivers(n, data) == Deliver(n, data, FALSE) \/ Deliver(n, data, TRUE)

LEMMA DeliverKeeps ==
  ASSUME LexerInv, pc # "idle", NEW n \in {0, 1}, n = 1 => Peek # "END" \/ pos < Len(pattern),
         NEW data, Delivers(n, data)
  PROVE  LexerInv'
<1>1. pos + n \in Nat /\ pos + n <= Len(pattern)
  BY NotAtEnd DEF LexerInv, Located
<1>2. CASE \E where \in {"name", "in_brace"} :
             AppendToName(Encode(data.value), FALSE, n, where, local)
  BY <1>2, AppendKeeps
<1>3. CASE FailHere(n, UnencodableCode(data.value))
  BY <1>3, FailsHere
<1>4. CASE EmitAt(pos + n, "CODE", data)
  BY <1>1, <1>4, EmitKeeps DEF EmitAt
<1> QED BY <1>2, <1>3, <1>4 DEF Deliver, Delivers

LEMMA UnicodeKeeps ==
  ASSUME LexerInv, LexUnicode \/ LexUnicodeNumber
  PROVE  LexerInv'
<1>0. /\ HasShape(local) /\ IsPlain("brace_open") /\ "brace_open" \in MayHold \ {"depth"}
      /\ "unicode_number" \in MayHold /\ "unicode_number" \in Afters
      /\ StandsAt(pos + 0, "unicode_number", local)
  BY NamelessAt DEF IsPlain, InBounds, MayHold, Afters, StandsAt
<1>1. pc \in {"unicode", "unicode_number"}
  BY DEF LexUnicode, LexUnicodeNumber, At, Other
<1>2. CASE \E code : Fail(0, code, local.escape)
  BY <1>1, <1>2, FailThere
<1>3. CASE Read(0, Number(16, 4, 0, "SUCCESS", "unicode_number"), local)
  BY <1>0, <1>1, <1>3, ReadKeeps
<1>4. CASE At("unicode", {"{"}) /\ Advance(1, "brace_open", local)
  BY <1>0, <1>1, <1>4, AdvancePlain DEF At
<1>5. CASE Deliver(0, CodeData(local.number.value, local.number.lo, pos), FALSE)
  <2>1. Delivers(0, CodeData(local.number.value, local.number.lo, pos))
    BY <1>5 DEF Delivers
  <2> QED BY <1>1, <2>1, DeliverKeeps
<1> QED BY <1>2, <1>3, <1>4, <1>5 DEF LexUnicode, LexUnicodeNumber

LEMMA Least ==
  ASSUME NEW T \in SUBSET Nat, T # {}
  PROVE  \E n \in T : \A k \in T : n <= k
<1> DEFINE R == OpToRel(<, Nat)
<1>1. IsWellFoundedOn(R, Nat)
  BY NatLessThanWellFounded
<1>2. \A i, j \in Nat : i < j => <<i, j>> \in R
  BY DEF OpToRel
<1> HIDE DEF R
<1>3. PICK i \in T : \A j \in T : <<j, i>> \notin R
  BY <1>1, WFMin
<1>4. \A j \in T : ~(j < i)
  BY <1>2, <1>3
<1> QED BY <1>4

(* The digits from a position on end somewhere.                              *)
LEMMA DigitsEnd ==
  ASSUME LexerInv
  PROVE  EndOfDigits \in Nat /\ EndOfDigits <= Len(pattern)
<1> DEFINE IsEnd(hi) == /\ \A i \in pos + 1 .. hi : pattern[i] \in Hex
                        /\ hi < Len(pattern) => pattern[hi + 1] \notin Hex
           Stops == {hi \in Nat : /\ hi >= pos /\ hi <= Len(pattern)
                                  /\ hi < Len(pattern) => pattern[hi + 1] \notin Hex}
<1>1. Len(pattern) \in Nat /\ pos \in Nat /\ pos <= Len(pattern)
  BY NamelessAt
<1>2. Len(pattern) \in Stops
  BY <1>1
<1>3. PICK hi \in Stops : \A other \in Stops : hi <= other
  <2>1. Stops \subseteq Nat /\ Stops # {}
    BY <1>2
  <2> HIDE DEF Stops
  <2> QED BY <2>1, Least
<1>4. ASSUME NEW i \in pos + 1 .. hi PROVE pattern[i] \in Hex
  <2>1. i - 1 \in Nat /\ i - 1 >= pos /\ i - 1 < hi /\ i - 1 + 1 = i /\ hi <= Len(pattern)
    BY <1>1, <1>3
  <2>2. i - 1 \notin Stops
    BY <1>3, <2>1
  <2> QED BY <1>1, <2>1, <2>2
<1>5. hi \in pos .. Len(pattern) /\ IsEnd(hi)
  BY <1>1, <1>3, <1>4
<1>6. EndOfDigits \in pos .. Len(pattern)
  BY <1>5 DEF EndOfDigits
<1> QED BY <1>1, <1>6

LEMMA BraceKeeps ==
  ASSUME LexerInv, LexBrace \/ LexBraceNumber \/ LexBraceNext
  PROVE  LexerInv'
<1>0. /\ HasShape(local) /\ IsPlain("brace_open") /\ IsPlain("brace_next")
      /\ {"brace_open", "brace_next", "brace_number"} \subseteq MayHold \ {"depth"}
      /\ "brace_number" \in Afters /\ StandsAt(pos + 0, "brace_number", local)
  BY NamelessAt DEF IsPlain, InBounds, MayHold, Afters, StandsAt
<1>1. pc \in {"brace_open", "in_brace", "brace_number", "brace_next"}
  BY DEF LexBrace, LexBraceNumber, LexBraceNext, At, Other
<1>2. CASE \E code : FailHere(0, code)
  BY <1>1, <1>2, FailsHere
<1>3. CASE \E where \in {"brace_open", "brace_next"} :
             Peek \in Blanks /\ Advance(1, where, local)
  <2>1. Peek # "END"
    BY <1>3 DEF Blanks
  <2> QED BY <1>0, <1>1, <1>3, <2>1, AdvancePlain
<1>4. CASE \E code, span : FailAt(pos, code, span)
  BY <1>1, <1>4, FailsAtPos
<1>5. CASE Read(0, BraceNumber, local)
  BY <1>0, <1>1, <1>5, ReadKeeps DEF BraceNumber
<1>6. CASE \E span : FailAt(EndOfDigits, "CODE_POINT_OUT_OF_RANGE", span)
  BY <1>1, <1>6, DigitsEnd, FailKeeps DEF FailAt
<1>7. CASE Advance(0, "brace_next", [local EXCEPT !.code_hi = pos])
  <2>1. HasShape([local EXCEPT !.code_hi = pos])
    BY <1>0 DEF HasShape, Fields
  <2> QED BY <1>0, <1>1, <1>7, <2>1, AdvancePlain
<1>8. CASE At("brace_next", {"}"}) /\ Deliver(1, BraceCode, FALSE)
  <2>1. Delivers(1, BraceCode) /\ Peek # "END"
    BY <1>8 DEF Delivers, At
  <2> QED BY <1>1, <2>1, DeliverKeeps
<1>9. CASE Deliver(0, BraceCode, TRUE)
  <2>1. Delivers(0, BraceCode)
    BY <1>9 DEF Delivers
  <2> QED BY <1>1, <2>1, DeliverKeeps
<1>10. CASE LexBrace
  BY <1>2, <1>3, <1>4, <1>5, <1>10 DEF LexBrace, At, Unclosed
<1>11. CASE LexBraceNumber
  BY <1>2, <1>6, <1>7, <1>11 DEF LexBraceNumber, At, Unclosed
<1>12. CASE LexBraceNext
  BY <1>2, <1>3, <1>8, <1>9, <1>12 DEF LexBraceNext, At, Unclosed
<1> QED BY <1>10, <1>11, <1>12

(* A byte of an escape, kept with those before it.                           *)
LEMMA ByteKept ==
  ASSUME LexerInv, pc \in MayHold, NEW n \in {0, 1}, n = 1 => Peek # "END" \/ pos < Len(pattern),
         NEW new,
         Advance(n, "bytes", [local EXCEPT !.bytes = new, !.control = FALSE, !.meta = FALSE])
  PROVE  LexerInv'
<1>1. /\ HasShape([local EXCEPT !.bytes = new, !.control = FALSE, !.meta = FALSE])
      /\ IsPlain("bytes") /\ "bytes" \in MayHold \ {"depth"} /\ pc # "idle"
  BY NamelessAt DEF HasShape, Fields, IsPlain, InBounds, MayHold
<1> QED BY <1>1, AdvancePlain

LEMMA ByteRead ==
  ASSUME LexerInv, pc \in MayHold, NEW n \in {0, 1}, n = 1 => Peek # "END" \/ pos < Len(pattern),
         NEW byte,
         ReadByte(n, byte)
  PROVE  LexerInv'
BY ByteKept DEF ReadByte

LEMMA EscapeKeeps ==
  ASSUME LexerInv, LexEscape \/ LexNumberedByte
  PROVE  LexerInv'
<1>0. /\ HasShape(local)
      /\ {"hex_byte", "octal_byte"} \subseteq MayHold \cap Afters
      /\ \A where \in {"meta", "control", "control_code"} :
           IsPlain(where) /\ where \in MayHold \ {"depth"}
      /\ \A n \in {0, 1} : \A after \in {"hex_byte", "octal_byte"} : StandsAt(pos + n, after, local)
  BY NamelessAt DEF IsPlain, InBounds, MayHold, Afters, StandsAt
<1>1. pc \in {"escape", "hex_byte", "octal_byte"} /\ pc \in MayHold /\ pc # "idle"
  BY DEF LexEscape, LexNumberedByte, At, Other, MayHold
<1>2. CASE LexEscape
  <2>1. CASE Fail(0, "INCOMPLETE_ESCAPE", local.escape)
    BY <1>1, <2>1, FailThere
  <2>2. CASE FailAt(pos, "INVALID_ESCAPE", Span(local.escape, pos + 1))
    BY <1>1, <2>2, FailsAtPos
  <2>3. CASE At("escape", {"x"}) /\ Read(1, Number(16, 2, 0, "SUCCESS", "hex_byte"), local)
    BY <1>0, <1>1, <2>3, ReadKeeps DEF At
  <2>4. CASE Read(0, Number(8, 3, 0, "SUCCESS", "octal_byte"), local)
    BY <1>0, <1>1, <2>4, ReadKeeps
  <2>5. CASE Peek \in {"M", "c", "C"} /\ \E code : Fail(1, code, local.escape)
    BY <1>1, <2>5, FailThere
  <2>6. CASE At("escape", {"M"}) /\ Advance(1, "meta", [local EXCEPT !.meta = TRUE])
    <3>1. HasShape([local EXCEPT !.meta = TRUE])
      BY <1>0 DEF HasShape, Fields
    <3> QED BY <1>0, <1>1, <2>6, <3>1, AdvancePlain DEF At
  <2>7. CASE /\ At("escape", {"c", "C"})
             /\ Advance(1, IF Peek = "C" THEN "control" ELSE "control_code",
                        [local EXCEPT !.control = TRUE])
    <3>1. HasShape([local EXCEPT !.control = TRUE]) /\ Peek # "END"
      BY <1>0, <2>7 DEF HasShape, Fields, At
    <3> QED BY <1>0, <1>1, <2>7, <3>1, AdvancePlain
  <2>8. CASE Peek # "END" /\ ReadByte(1, SimpleByte(Peek))
    BY <1>1, <2>8, ByteRead
  <2> QED BY <1>2, <2>1, <2>2, <2>3, <2>4, <2>5, <2>6, <2>7, <2>8 DEF LexEscape, At, Other
<1>3. CASE LexNumberedByte
  BY <1>1, <1>3, FailThere, ByteRead DEF LexNumberedByte
<1> QED BY <1>2, <1>3

LEMMA MetaKeeps ==
  ASSUME LexerInv, LexMeta
  PROVE  LexerInv'
<1>0. HasShape(local) /\ IsPlain("escape") /\ {"escape", "meta_code"} \subseteq MayHold \ {"depth"}
  BY NamelessAt DEF IsPlain, InBounds, MayHold
<1>1. pc \in {"meta", "meta_code"} /\ pc \in MayHold /\ pc # "idle"
  BY DEF LexMeta, At, Other, MayHold
<1>2. pc = "meta_code" => pos < Len(pattern)
  BY DEF LexerInv, Located, StandsAt
<1>3. CASE At("meta", {"END"}) /\ Fail(0, "INCOMPLETE_META_ESCAPE", local.escape)
  BY <1>1, <1>3, FailThere
<1>4. CASE Other("meta", {"END"}) /\ Fail(1, "INCOMPLETE_META_ESCAPE", local.escape)
  BY <1>1, <1>4, FailThere DEF Other
<1>5. CASE At("meta", {"-"}) /\ HyphenLeads /\ Advance(1, "meta_code", local)
  <2>1. /\ pos + 1 \in Nat /\ pos + 1 <= Len(pattern) /\ pos + 1 < Len(pattern)
    BY <1>5, NotAtEnd DEF At, HyphenLeads, LexerInv
  <2>2. StandsAt(pos + 1, "meta_code", local)
    BY <2>1 DEF StandsAt, InBounds
  <2> QED BY <1>0, <1>1, <1>5, <2>1, <2>2, AdvanceKeeps
<1>6. CASE At("meta_code", {"\\"}) /\ Advance(1, "escape", local)
  BY <1>0, <1>1, <1>6, AdvancePlain DEF At
<1>7. CASE At("meta_code", {"WIDE"}) /\ Fail(1, "INVALID_META_ESCAPE_CODE", local.escape)
  BY <1>1, <1>7, FailThere DEF At
<1>8. CASE Other("meta_code", {"\\", "WIDE"}) /\ ReadByte(1, Code(Peek))
  BY <1>1, <1>2, <1>8, ByteRead DEF Other
<1> QED BY <1>3, <1>4, <1>5, <1>6, <1>7, <1>8 DEF LexMeta

LEMMA ControlKeeps ==
  ASSUME LexerInv, LexControl
  PROVE  LexerInv'
<1>0. /\ HasShape(local) /\ IsPlain("escape") /\ IsPlain("control_code")
      /\ {"escape", "control_code"} \subseteq MayHold \ {"depth"}
  BY NamelessAt DEF IsPlain, InBounds, MayHold
<1>1. pc \in {"control", "control_code"} /\ pc \in MayHold /\ pc # "idle"
  BY DEF LexControl, At, Other, MayHold
<1>2. CASE Fail(0, "INCOMPLETE_CONTROL_ESCAPE", local.escape)
  BY <1>1, <1>2, FailThere
<1>3. CASE Other("control", {"END"}) /\ Fail(1, "INCOMPLETE_CONTROL_ESCAPE", local.escape)
  BY <1>1, <1>3, FailThere DEF Other
<1>4. CASE At("control", {"-"}) /\ Advance(1, "control_code", local)
  BY <1>0, <1>1, <1>4, AdvancePlain DEF At
<1>5. CASE At("control_code", {"\\"}) /\ Advance(1, "escape", local)
  BY <1>0, <1>1, <1>5, AdvancePlain DEF At
<1>6. CASE At("control_code", {"WIDE"}) /\ Fail(1, "INVALID_CONTROL_ESCAPE_CODE", local.escape)
  BY <1>1, <1>6, FailThere DEF At
<1>7. CASE /\ At("control_code", {"?"})
           /\ Advance(1, "bytes", [local EXCEPT !.bytes = Append(@, WithMeta(127)),
                                                !.control = FALSE, !.meta = FALSE])
  BY <1>1, <1>7, ByteKept DEF At
<1>8. CASE Other("control_code", {"\\", "WIDE", "?", "END"}) /\ ReadByte(1, Code(Peek))
  BY <1>1, <1>8, ByteRead DEF Other
<1> QED BY <1>2, <1>3, <1>4, <1>5, <1>6, <1>7, <1>8 DEF LexControl

LEMMA BytesKeep ==
  ASSUME LexerInv, LexBytes
  PROVE  LexerInv'
<1>0. HasShape(local) /\ IsPlain("escape") /\ "escape" \in MayHold \ {"depth"}
  BY NamelessAt DEF IsPlain, InBounds, MayHold
<1>1. pc = "bytes"
  BY DEF LexBytes, At, Other
<1>2. CASE At("bytes", {"\\"}) /\ Advance(1, "escape", [local EXCEPT !.escape = pos])
  <2>1. HasShape([local EXCEPT !.escape = pos]) /\ Peek # "END"
    BY <1>0, <1>2 DEF HasShape, Fields, At
  <2> QED BY <1>0, <1>1, <1>2, <2>1, AdvancePlain
<1>3. CASE \E code : Fail(0, code, local.first)
  BY <1>1, <1>3, FailThere
<1>4. CASE Deliver(0, CodeData(Decode(local.bytes), local.lo, pos), FALSE)
  <2>1. Delivers(0, CodeData(Decode(local.bytes), local.lo, pos))
    BY <1>4 DEF Delivers
  <2> QED BY <1>1, <2>1, DeliverKeeps
<1> QED BY <1>2, <1>3, <1>4 DEF LexBytes

-----------------------------------------------------------------------------
(* After a backslash.                                                        *)

LEMMA OpenEscapeKeeps ==
  ASSUME LexerInv, OpenEscape
  PROVE  LexerInv'
<1> DEFINE new == [local EXCEPT !.escape = pos, !.first = pos, !.bytes = <<>>]
<1>1. HasShape(new) /\ new.escape = pos /\ pos \in Nat
  BY NamelessAt DEF HasShape, Fields
<1>2. pc = "token" /\ name.owns = {} /\ Peek # "END" /\ Advance(1, "escaped", new)
  BY NamelessAt DEF OpenEscape, At, MayHold
<1> HIDE DEF new
<1>3. pos + 1 \in Nat /\ pos + 1 <= Len(pattern)
  BY <1>2, NotAtEnd DEF LexerInv
<1>4. StandsAt(pos + 1, "escaped", new)
  BY <1>1 DEF StandsAt, InBounds
<1> QED BY <1>1, <1>2, <1>3, <1>4, AdvanceKeeps

LEMMA WarnedKeeps ==
  ASSUME LexerInv, pc # "idle", NEW type, NEW data, NEW warning, EmitWarned(0, type, data, warning)
  PROVE  LexerInv'
<1>1. pos + 0 \in Nat /\ pos + 0 <= Len(pattern)
  BY NamelessAt
<1> QED BY <1>1, EmitKeeps DEF EmitWarned, EmitAt

LEMMA PropertyKeeps ==
  ASSUME LexerInv, LexProperty
  PROVE  LexerInv'
<1>0. /\ HasShape(local)
      /\ IsPlain("property") /\ IsPlain("negation") /\ IsPlain("property_name")
  BY NamelessAt DEF IsPlain, InBounds
<1>1. pc \in {"escaped", "property", "negation", "property_name"} /\ pc \notin MayHold \cup {"idle"}
  BY DEF LexProperty, At, Other, MayHold
<1>2. CASE At("escaped", {"p", "P"}) /\ Advance(1, "property", [local EXCEPT !.positive = Peek = "p"])
  <2> DEFINE new == [local EXCEPT !.positive = Peek = "p"]
  <2>1. HasShape(new)
    BY <1>0 DEF HasShape, Fields
  <2>2. Peek # "END" /\ Advance(1, "property", new)
    BY <1>2 DEF At
  <2> HIDE DEF new
  <2> QED BY <1>0, <1>1, <2>1, <2>2, NamelessStep
<1>3. CASE \E data, warning : EmitWarned(0, "CODE", data, warning)
  BY <1>1, <1>3, WarnedKeeps
<1>4. CASE At("property", {"{"}) /\ Advance(1, "negation", Reference("property", "}", pos + 1))
  <2>1. HasShape(Reference("property", "}", pos + 1))
    BY ReferenceShape
  <2> QED BY <1>0, <1>1, <1>4, <2>1, NamelessStep DEF At
<1>5. CASE /\ At("negation", {"^"})
           /\ Advance(1, "property_name", [local EXCEPT !.positive = ~@, !.name_lo = pos + 1])
  <2> DEFINE new == [local EXCEPT !.positive = ~@, !.name_lo = pos + 1]
  <2>1. HasShape(new)
    BY <1>0 DEF HasShape, Fields
  <2>2. Peek # "END" /\ Advance(1, "property_name", new)
    BY <1>5 DEF At
  <2> HIDE DEF new
  <2> QED BY <1>0, <1>1, <2>1, <2>2, NamelessStep
<1>6. CASE OpenName
  BY <1>1, <1>6, NamelessAt, OpenNameKeeps
<1> QED BY <1>2, <1>3, <1>4, <1>5, <1>6 DEF LexProperty

LEMMA NamedReferenceKeeps ==
  ASSUME LexerInv, LexNamedReference
  PROVE  LexerInv'
<1>0. HasShape(local) /\ IsPlain("named_reference") /\ IsPlain("reference")
  BY NamelessAt DEF IsPlain, InBounds
<1>1. pc \in {"escaped", "named_reference"} /\ pc \notin MayHold \cup {"idle"}
  BY DEF LexNamedReference, At, Other, MayHold
<1>2. CASE At("escaped", {"k", "g"}) /\ Advance(1, "named_reference", local)
  BY <1>0, <1>1, <1>2, NamelessStep DEF At
<1>3. CASE /\ At("named_reference", {"<", "'"})
           /\ \E kind : Advance(1, "reference", Reference(kind, Closing(Peek), pos + 1))
  <2>1. Closing(Peek) # "END" /\ Peek # "END"
    BY <1>3 DEF Closing, At
  <2>2. PICK kind : Advance(1, "reference", Reference(kind, Closing(Peek), pos + 1))
    BY <1>3
  <2>3. HasShape(Reference(kind, Closing(Peek), pos + 1))
    BY <2>1, ReferenceShape
  <2> QED BY <1>0, <1>1, <2>1, <2>2, <2>3, NamelessStep
<1>4. CASE \E data, warning : EmitWarned(0, "CODE", data, warning)
  BY <1>1, <1>4, WarnedKeeps
<1> QED BY <1>2, <1>3, <1>4 DEF LexNamedReference

(* A bare number that is no reference is read again from its first digit.    *)
LEMMA BareKeeps ==
  ASSUME LexerInv, LexBare
  PROVE  LexerInv'
<1>1. pc \in {"escaped", "bare"} /\ name.owns = {} /\ HasShape(local)
  BY NamelessAt DEF LexBare, At, MayHold
<1>2. CASE /\ At("escaped", Decimal \ {"0"})
           /\ Read(0, DecimalNumber(bare_back_ref_max_num_limit, "INTERNAL_ERROR", "bare"), local)
  <2>1. pc = "escaped" /\ Peek # "END"
    BY <1>2 DEF At, Decimal, Octal
  <2>2. local.escape \in Nat /\ local.escape + 1 = pos /\ pos < Len(pattern)
    BY <2>1, NotAtEnd DEF LexerInv, Located, StandsAt
  <2>3. StandsAt(pos + 0, "bare", local) /\ "bare" \in Afters
    BY <2>2 DEF StandsAt, InBounds, Afters
  <2> QED BY <1>1, <1>2, <2>1, <2>3, ReadKeeps DEF DecimalNumber
<1>3. pc = "bare" =>
        /\ local.escape \in Nat /\ local.escape + 1 \in Nat /\ local.escape + 2 \in Nat
        /\ local.escape + 1 + 1 = local.escape + 2
        /\ local.escape + 2 <= Len(pattern) /\ pos \in Nat /\ Len(pattern) \in Nat
  BY DEF LexerInv, Located, StandsAt
<1>4. ASSUME pc = "bare", NEW data, Emit(0, "BACK_REF", data)
      PROVE  LexerInv'
  BY <1>4, EmitHere
<1>5. ASSUME pc = "bare", NEW n, n = (local.escape + 1) - pos, Advance(n, "escape", local)
      PROVE  LexerInv'
  <2>1. n \in Int /\ pos + n \in Nat /\ pos + n <= Len(pattern)
    BY <1>3, <1>5
  <2>2. StandsAt(pos + n, "escape", local)
    BY <2>1 DEF StandsAt, InBounds
  <2> QED BY <1>1, <1>5, <2>1, <2>2, AdvanceKeeps
<1>6. ASSUME pc = "bare", NEW data, EmitAt(local.escape + 1 + 1, "CODE", data)
      PROVE  LexerInv'
  BY <1>3, <1>6, EmitKeeps DEF EmitAt
<1> DEFINE reference == [Target EXCEPT !.has_num = TRUE, !.num = local.number.value]
           first == local.escape + 1
           digit == CodeData(Code(pattern[first + 1]), local.lo, first + 1)
<1>7. \/ At("escaped", Decimal \ {"0"})
         /\ Read(0, DecimalNumber(bare_back_ref_max_num_limit, "INTERNAL_ERROR", "bare"), local)
      \/ pc = "bare" /\ Emit(0, "BACK_REF", reference)
      \/ pc = "bare" /\ Advance(first - pos, "escape", local)
      \/ pc = "bare" /\ EmitAt(first + 1, "CODE", digit)
  BY DEF LexBare
<1>8. CASE pc = "bare" /\ Emit(0, "BACK_REF", reference)
  BY <1>4, <1>8
<1>9. CASE pc = "bare" /\ EmitAt(first + 1, "CODE", digit)
  BY <1>6, <1>9
<1>10. CASE pc = "bare" /\ Advance(first - pos, "escape", local)
  BY <1>5, <1>10
<1> HIDE DEF first, reference, digit
<1> QED BY <1>2, <1>7, <1>8, <1>9, <1>10

LEMMA CommonEscapeKeeps ==
  ASSUME LexerInv, LexEscapedAssertion \/ LexEscapedType \/ LexCommonEscape
  PROVE  LexerInv'
<1>0. /\ HasShape(local)
      /\ IsPlain("unicode") /\ IsPlain("escape") /\ IsPlain("carriage_return")
  BY NamelessAt DEF IsPlain, InBounds
<1>1. /\ pc \in {"escaped", "carriage_return"} /\ pc \notin MayHold \cup {"idle"}
      /\ name.owns = {}
  BY NamelessAt DEF LexEscapedAssertion, LexEscapedType, LexCommonEscape, At, Other, MayHold
<1>2. CASE LexEscapedAssertion
  <2>1. \E type, data : Peek # "END" /\ Emit(1, type, data)
    BY <1>2 DEF LexEscapedAssertion, At
  <2> QED BY <1>1, <2>1, EmitHere
<1>3. CASE LexEscapedType
  <2>1. Peek # "END"
    BY <1>3 DEF LexEscapedType, At, CharTypes
  <2> QED BY <1>1, <1>3, <2>1, EmitHere DEF LexEscapedType
<1>4. CASE LexCommonEscape
  <2>1. CASE FailHere(0, "INCOMPLETE_ESCAPE")
    BY <1>1, <2>1, FailsHere
  <2>2. CASE At("escaped", {"u"}) /\ Advance(1, "unicode", local)
    BY <1>0, <1>1, <2>2, NamelessStep DEF At
  <2>3. CASE Advance(0, "escape", local)
    BY <1>0, <1>1, <2>3, NamelessStep
  <2>4. CASE Peek = "\n" /\ Retry(1)
    BY <1>1, <2>4, RetryKeeps
  <2>5. CASE At("escaped", {"\r"}) /\ Advance(1, "carriage_return", local)
    BY <1>0, <1>1, <2>5, NamelessStep DEF At
  <2>6. CASE Emit(0, "CODE", CodeData(13, local.lo, pos))
    BY <1>1, <2>6, EmitHere
  <2>7. CASE Other("escaped", Escaped) /\ Emit(1, "CODE", CodeData(Code(Peek), local.lo, pos + 1))
    <3>1. Peek # "END"
      BY <2>7 DEF Other, Escaped
    <3> QED BY <1>1, <2>7, <3>1, EmitHere
  <2> QED BY <1>4, <2>1, <2>2, <2>3, <2>4, <2>5, <2>6, <2>7 DEF LexCommonEscape, At
<1> QED BY <1>2, <1>3, <1>4

-----------------------------------------------------------------------------
(* Numbers, invalid bytes and the call of lex.                               *)

LEMMA NumberKeeps ==
  ASSUME LexerInv, NumberDigit \/ NumberTooLarge \/ NumberEnd
  PROVE  LexerInv'
<1> DEFINE after == local.number.after
<1>1. /\ pc = "number" /\ after \in Afters /\ HasShape(local) /\ StandsAt(pos, after, local)
      /\ name.owns # {} => after \in MayHold
      /\ pos \in Nat /\ pos + 0 = pos /\ pos <= Len(pattern)
  BY DEF LexerInv, Located, Owned, NumberDigit, NumberTooLarge, NumberEnd, AtDigit
<1>2. after \notin {"named", "number", "depth"} /\ "number" \in MayHold
  BY <1>1 DEF Afters, MayHold
<1>3. CASE NumberDigit
  <2> DEFINE new == [local EXCEPT !.number.value = Appended(DigitValue(Peek)),
                                  !.number.digits = @ + 1]
  <2>1. Peek # "END"
    BY <1>3 DEF NumberDigit, AtDigit, DigitsOf, Octal, Decimal, Hex
  <2>2. /\ new.number.after = after /\ "after" \in DOMAIN new.number
        /\ Fields \subseteq DOMAIN new
        /\ new.lo = local.lo /\ new.escape = local.escape /\ new.terminator = local.terminator
    BY <1>1 DEF HasShape, Fields
  <2>3. Advance(1, "number", new)
    BY <1>3 DEF NumberDigit
  <2> HIDE DEF new
  <2>4. HasShape(new)
    BY <1>1, <2>2 DEF HasShape
  <2>5. StandsAt(pos + 1, "number", new) /\ StandsAt(pos + 1, after, new)
    BY <1>1, <2>2 DEF StandsAt, InBounds, Afters
  <2>6. pos + 1 \in Nat /\ pos + 1 <= Len(pattern)
    BY <2>1, NotAtEnd DEF LexerInv
  <2> QED BY <1>1, <1>2, <2>2, <2>3, <2>4, <2>5, <2>6, AdvanceKeeps
<1>4. CASE NumberTooLarge
  <2>1. CASE Advance(0, after, [local EXCEPT !.number.overflowed = TRUE])
    <3> DEFINE new == [local EXCEPT !.number.overflowed = TRUE]
    <3>1. /\ "after" \in DOMAIN new.number /\ Fields \subseteq DOMAIN new
          /\ new.lo = local.lo /\ new.escape = local.escape /\ new.terminator = local.terminator
      BY <1>1 DEF HasShape, Fields
    <3>2. Advance(0, after, new)
      BY <2>1
    <3> HIDE DEF new
    <3>3. HasShape(new) /\ StandsAt(pos + 0, after, new)
      BY <1>1, <3>1 DEF HasShape, StandsAt
    <3> QED BY <1>1, <1>2, <3>2, <3>3, AdvanceKeeps
  <2>2. CASE Fail(1, local.number.error, local.number.lo)
    <3>1. Peek # "END"
      BY <1>4 DEF NumberTooLarge, AtDigit, DigitsOf, Octal, Decimal, Hex
    <3> QED BY <1>1, <2>2, <3>1, FailThere
  <2> QED BY <1>4, <2>1, <2>2 DEF NumberTooLarge
<1>5. CASE NumberEnd
  <2>1. Advance(0, after, local) /\ StandsAt(pos + 0, after, local)
    BY <1>1, <1>5 DEF NumberEnd
  <2> HIDE DEF after
  <2> QED BY <1>1, <1>2, <2>1, AdvanceKeeps
<1> QED BY <1>3, <1>4, <1>5

(* The one error that releases nothing comes where no name is held.          *)
LEMMA InvalidBytesKeep ==
  ASSUME LexerInv, InvalidBytes
  PROVE  LexerInv'
<1>1. pc # "idle" /\ Peek = "BYTES" /\ pos \in Nat /\ pos <= Len(pattern)
  BY NamelessAt DEF InvalidBytes, Decides
<1>2. pc = "depth" => name.owns = {}
  BY <1>1 DEF LexerInv, Owned
<1>3. \E addresses : /\ addresses = name.owns \/ name.owns = {}
                     /\ FailReleasing(addresses, pos, "INVALID_BYTE_SEQUENCE", Span(pos, pos))
  BY <1>2 DEF InvalidBytes
<1> QED BY <1>1, <1>3, FailKeeps

LEMMA LexKeeps ==
  ASSUME LexerInv, Lex
  PROVE  LexerInv'
<1>1. /\ pc = "idle" /\ pos' = pos /\ pattern' = pattern /\ name' = name
      /\ heap' = heap \ tok.owns /\ tok' = NoToken /\ local' = Local(pos)
      /\ pc' \in {"in_brace", "token"}
  BY DEF Lex, InputVars
<1>2. HasShape(Local(pos)) /\ Local(pos).lo = pos
  BY NamelessAt DEF HasShape, Local, Fields, NoNumber, Number
<1>3. Located'
  BY <1>1, <1>2 DEF LexerInv, Located, StandsAt, HasShape, InBounds
<1>4. Owned'
  BY <1>1 DEF LexerInv, Owned, MayHold, NoToken
<1> QED BY <1>3, <1>4 DEF LexerInv

LEMMA InitHolds == Init => LexerInv
<1> SUFFICES ASSUME Init PROVE LexerInv
  OBVIOUS
<1>1. Len(pattern) \in Nat
  BY LexerAssumption DEF Init
<1>2. HasShape(Local(0)) /\ Local(0).lo = 0
  BY DEF HasShape, Local, Fields, NoNumber, Number
<1>3. Located
  BY <1>1, <1>2 DEF Init, Located, StandsAt, HasShape, InBounds
<1>4. Owned
  BY DEF Init, Owned, NoName, NoToken, MayHold
<1> QED BY <1>3, <1>4 DEF LexerInv

-----------------------------------------------------------------------------

(* lex and everything it calls, in any order of characters and failures.     *)
THEOREM LexerInvariant == Spec => []LexerInv
<1>1. ASSUME LexerInv, UNCHANGED vars PROVE LexerInv'
  <2>1. Located'
    BY <1>1 DEF LexerInv, Located, StandsAt, HasShape, InBounds, vars, ParserVars, InputVars
  <2>2. Owned'
    BY <1>1 DEF LexerInv, Owned, Peek, AtEnd, vars, ParserVars, InputVars
  <2> QED BY <2>1, <2>2 DEF LexerInv
<1>2. ASSUME LexerInv, LexToken PROVE LexerInv'
  BY <1>2, BeginKeeps, QuantifierKeeps, GroupKeeps, OptionKeeps DEF LexToken
<1>3. ASSUME LexerInv, LexReferences PROVE LexerInv'
  BY <1>3, ReferenceKeeps, DepthKeeps, CloseKeeps, NameKeeps, TrimKeeps, NamedKeeps
  DEF LexReferences
<1>4. ASSUME LexerInv, LexEscapes PROVE LexerInv'
  BY <1>4, OpenEscapeKeeps, PropertyKeeps, NamedReferenceKeeps, BareKeeps, CommonEscapeKeeps,
     EscapeKeeps, MetaKeeps, ControlKeeps, BytesKeep, UnicodeKeeps, BraceKeeps
  DEF LexEscapes
<1>5. LexerInv /\ Next => LexerInv'
  BY <1>2, <1>3, <1>4, LexKeeps, InvalidBytesKeep, NumberKeeps DEF Next
<1>6. LexerInv /\ [Next]_vars => LexerInv'
  BY <1>1, <1>5
<1> QED BY <1>6, InitHolds, PTL DEF Spec

(* nk_parser_lex never reads past the end of the pattern, also where it goes *)
(* back to a brace or a digit, or jumps to the end of a number.              *)
THEOREM StaysInPattern == Spec => [](pos \in 0 .. Len(pattern))
<1>1. LexerInv => pos \in 0 .. Len(pattern)
  BY DEF LexerInv, Located
<1> QED BY <1>1, LexerInvariant, PTL

(* pbuf of src/node.c: the buffer of a name belongs to the name or to the    *)
(* token that carries it, and is released when the lexer fails.              *)
THEOREM NameBuffersAreOwned == Spec => []NameBufferHasOneOwner
<1>1. LexerInv => NameBufferHasOneOwner
  BY DEF LexerInv, Owned, NameBufferHasOneOwner, MayHold
<1> QED BY <1>1, LexerInvariant, PTL

-----------------------------------------------------------------------------
(* What most of the lexer leaves alone: the option letters and the bounds of *)
(* quantifiers are read, and their tokens made, at points of their own.      *)
OwnPoints == {"group", "specifier", "option", "greed"} \cup InBounds
OptionTokens == {"OPTION", "OPTION_GROUP_OPEN"}

Elsewhere ==
  /\ UNCHANGED <<encoding, pattern, num_capture_groups, options, saved>>
  /\ pc' \notin OwnPoints
  /\ pc' = "token" => local' = Local(pos')
  /\ pc' \notin {"token", "idle", "failed"} => local'.lo = local.lo
  /\ pc' = "number" => local'.number.after \notin {"min", "max"}
  /\ pc' = "idle" => tok'.lo = local.lo /\ tok'.type \notin OptionTokens \cup {"QUANTIFIER"}

LEMMA StepElsewhere ==
  ASSUME HasShape(local), Next, pc \notin {"idle", "token", "number"} \cup OwnPoints
  PROVE  Elsewhere
<1> USE DEF Advance, Read, Retry, ReadByte, Number, DecimalNumber, CaptureNumber, CaptureDepth,
            BraceNumber, Reference, AfterReference, OpenName, AppendToName, Deliver,
            Emit, EmitAt, EmitWarned, EmitReleasing,
            Fail, FailAt, FailHere, FailReleasing, Unterminated, Incomplete, OutOfMemory, Unclosed,
            ParserVars, InputVars, HasShape, Fields, Elsewhere, OwnPoints, InBounds, OptionTokens
<1>1. CASE LexToken
  <2>1. Comment => Elsewhere
    BY DEF Comment
  <2>2. CASE LexLookbehind
    <3>1. Incomplete(0) => Elsewhere
      OBVIOUS
    <3>2. Emit(1, "LOOKAROUND_OPEN", Lookaround(TRUE, Peek = "=")) => Elsewhere
      OBVIOUS
    <3>3. Advance(0, "reference", Reference("group", ">", pos)) => Elsewhere
      OBVIOUS
    <3> QED BY <2>2, <3>1, <3>2, <3>3 DEF LexLookbehind
  <2>3. LexCondition => Elsewhere
    BY DEF LexCondition
  <2>4. LexConditionClose => Elsewhere
    BY DEF LexConditionClose
  <2>5. pc \in {"comment", "lookbehind", "condition", "condition_close"}
    BY <1>1 DEF LexToken, LexEnd, SkipWhitespace, OpenComment, Comment, LexSimple, LexLiteral,
       LexQuantifier, OpenBounds, LexMin, LexComma, LexMax, LexBoundsEnd, LexQuantifierType,
       OpenGroup, LexSpecifier, LexLookbehind, LexCondition, LexConditionClose, LexOption, At, Other
  <2> QED BY <1>1, <2>1, <2>2, <2>3, <2>4, <2>5
          DEF LexToken, LexEnd, SkipWhitespace, OpenComment, LexSimple, LexLiteral,
       LexQuantifier, OpenBounds, LexMin, LexComma, LexMax, LexBoundsEnd, LexQuantifierType,
       OpenGroup, LexSpecifier, LexOption, At, Other
<1>2. CASE LexReferences
  <2>1. LexReference => Elsewhere
    BY DEF LexReference
  <2>2. LexSign => Elsewhere
    BY DEF LexSign
  <2>3. LexNumbered => Elsewhere
    BY DEF LexNumbered
  <2>4. LexDepth => Elsewhere
    BY DEF LexDepth
  <2>5. LexClose => Elsewhere
    BY DEF LexClose
  <2>6. LexName => Elsewhere
    BY DEF LexName
  <2>7. TrimName => Elsewhere
    BY DEF TrimName
  <2>8. LexNamed => Elsewhere
    BY DEF LexNamed
  <2> QED BY <1>2, <2>1, <2>2, <2>3, <2>4, <2>5, <2>6, <2>7, <2>8 DEF LexReferences
<1>3. CASE LexEscapes
  <2>1. ~OpenEscape
    BY DEF OpenEscape, At
  <2>2. LexEscapedAssertion \/ LexEscapedType => Elsewhere
    BY DEF LexEscapedAssertion, LexEscapedType
  <2>3. CASE LexProperty
    <3>1. Advance(1, "property", [local EXCEPT !.positive = Peek = "p"]) => Elsewhere
      OBVIOUS
    <3>2. ASSUME NEW next, next = Reference("property", "}", pos + 1), Advance(1, "negation", next)
          PROVE  Elsewhere
      <4>1. next.lo = local.lo
        BY <3>2
      <4> QED BY <3>2, <4>1
    <3>3. Advance(1, "property_name", [local EXCEPT !.positive = ~@, !.name_lo = pos + 1])
            => Elsewhere
      OBVIOUS
    <3>4. OpenName => Elsewhere
      OBVIOUS
    <3>5. (\E data, warning : EmitWarned(0, "CODE", data, warning)) => Elsewhere
      OBVIOUS
    <3> QED BY <2>3, <3>1, <3>2, <3>3, <3>4, <3>5 DEF LexProperty
  <2>4. CASE LexNamedReference
    <3>1. Advance(1, "named_reference", local) => Elsewhere
      OBVIOUS
    <3>2. \A kind, quote : Advance(1, "reference", Reference(kind, quote, pos + 1)) => Elsewhere
      OBVIOUS
    <3>3. (\E data, warning : EmitWarned(0, "CODE", data, warning)) => Elsewhere
      OBVIOUS
    <3> QED BY <2>4, <3>1, <3>2, <3>3 DEF LexNamedReference
  <2>5. LexBare => Elsewhere
    BY DEF LexBare
  <2>6. LexCommonEscape => Elsewhere
    BY DEF LexCommonEscape
  <2>7. LexEscape => Elsewhere
    BY DEF LexEscape
  <2>8. LexNumberedByte \/ LexMeta => Elsewhere
    BY DEF LexNumberedByte, LexMeta
  <2>9. LexControl => Elsewhere
    BY DEF LexControl
  <2>10. LexBytes => Elsewhere
    BY DEF LexBytes
  <2>11. LexUnicode => Elsewhere
    BY DEF LexUnicode
  <2>12. LexUnicodeNumber => Elsewhere
    BY DEF LexUnicodeNumber
  <2>13. LexBrace => Elsewhere
    BY DEF LexBrace
  <2>14. LexBraceNumber => Elsewhere
    BY DEF LexBraceNumber
  <2>15. CASE LexBraceNext
    <3>1. Advance(1, "brace_next", local) \/ Unclosed => Elsewhere
      OBVIOUS
    <3>2. \A data : Deliver(1, data, FALSE) \/ Deliver(0, data, TRUE) => Elsewhere
      OBVIOUS
    <3> QED BY <2>15, <3>1, <3>2 DEF LexBraceNext
  <2> QED BY <1>3, <2>1, <2>2, <2>3, <2>4, <2>5, <2>6, <2>7, <2>8, <2>9, <2>10, <2>11, <2>12,
             <2>13, <2>14, <2>15 DEF LexEscapes
<1>4. InvalidBytes => Elsewhere
  BY DEF InvalidBytes
<1>5. ~Lex /\ ~NumberDigit /\ ~NumberTooLarge /\ ~NumberEnd
  BY DEF Lex, NumberDigit, NumberTooLarge, NumberEnd, AtDigit
<1> QED BY <1>1, <1>2, <1>3, <1>4, <1>5 DEF Next

-----------------------------------------------------------------------------
(* Options: each option is what the last of its letters read so far says.    *)
LetterAt(lo, k, letters) == LastOf({i \in lo + 3 .. k : pattern[i] \in letters})
FoldAt(lo, k, m, letters) ==
  LastOf({i \in lo + 3 .. k : pattern[i] \in letters \/ (pattern[i] = "I" /\ i < m)})
OnFrom(at, m, before) == IF at = 0 THEN before ELSE at < m

IsMinus(lo, k, m) ==
  /\ m \in lo + 3 .. k + 1
  /\ \A i \in lo + 3 .. m - 1 : pattern[i] # "-"
  /\ m <= k => pattern[m] = "-"

AsRead(option, lo, k, m) ==
  LET type == LetterAt(lo, k, {"d", "a", "u"})
      full == FoldAt(lo, k, m, {"S", "F"})
  IN  /\ option.is_ignore_case = OnFrom(LetterAt(lo, k, {"i", "I"}), m, options.is_ignore_case)
      /\ option.dot_allows_newline = OnFrom(LetterAt(lo, k, {"m"}), m, options.dot_allows_newline)
      /\ option.is_extended_mode = OnFrom(LetterAt(lo, k, {"x"}), m, options.is_extended_mode)
      /\ option.char_class_is_strict =
           OnFrom(LetterAt(lo, k, {"v", "I"}), m, options.char_class_is_strict)
      /\ type # 0 => /\ option.char_type_is_ascii_only = (pattern[type] # "u")
                     /\ option.posix_char_class_is_ascii_only = (pattern[type] = "a")
      /\ ("FULL" \in option.fold_flags) = IF full = 0 THEN "FULL" \in options.fold_flags
                                          ELSE pattern[full] = "F"
      /\ ("ASCII_ONLY" \in option.fold_flags) =
           OnFrom(FoldAt(lo, k, m, {"A"}), m, "ASCII_ONLY" \in options.fold_flags)
      /\ ("TURKISH_AZERI" \in option.fold_flags) =
           OnFrom(LetterAt(lo, k, {"T"}), m, "TURKISH_AZERI" \in options.fold_flags)

OptionsTyped ==
  /\ options \in Options /\ saved \in Seq(Options)
  /\ pc = "idle" /\ tok.type \in OptionTokens => tok.data \in Options

OptionBeing ==
  /\ pc \in {"token", "group", "specifier", "option"} =>
       /\ {"option", "positive"} \subseteq DOMAIN local
       /\ local.lo \in Nat
  /\ pc \in {"token", "group", "specifier"} => local.positive = TRUE
  /\ pc = "group" => pos = local.lo + 1
  /\ pc = "specifier" => pos = local.lo + 2
  /\ pc = "option" =>
       /\ pos >= local.lo + 2
       /\ local.option \in Options
       /\ \E m \in Nat :
             IsMinus(local.lo, pos, m) /\ local.positive = (m = pos + 1)
             /\ AsRead(local.option, local.lo, pos, m)

OptionsRead == OptionsTyped /\ OptionBeing /\ OptionsAsWritten

LEMMA LastIn ==
  ASSUME NEW k \in Nat, NEW s, s \subseteq 1 .. k
  PROVE  LastOf(s) \in 0 .. k /\ (s # {} => LastOf(s) \in s)
<1>1. ASSUME s # {}
      PROVE  \E i \in s : \A j \in s : j <= i
  <2> DEFINE T == {k - i : i \in s}
  <2>1. T \in SUBSET Nat /\ T # {}
    <3>1. \A i \in s : i \in 1 .. k
      OBVIOUS
    <3>2. \A i \in s : k - i \in Nat
      BY <3>1
    <3> QED BY <1>1, <3>2
  <2> HIDE DEF T
  <2>2. PICK n \in T : \A t \in T : n <= t
    BY <2>1, Least
  <2>3. PICK i \in s : n = k - i
    BY DEF T
  <2>4. \A j \in s : k - i <= k - j /\ i \in Nat /\ j \in Nat
    BY <2>2, <2>3 DEF T
  <2>5. \A j \in s : j <= i
    BY <2>4
  <2> QED BY <2>5
<1>2. s # {} => LastOf(s) \in s
  BY <1>1 DEF LastOf
<1>3. s = {} => LastOf(s) = 0
  BY DEF LastOf
<1>4. \A i \in s : i \in 0 .. k
  OBVIOUS
<1>5. 0 \in 0 .. k
  OBVIOUS
<1> QED BY <1>2, <1>3, <1>4, <1>5

LEMMA LastGrows ==
  ASSUME NEW k \in Nat, NEW l, l = k + 1, NEW s, s \subseteq 1 .. k
  PROVE  LastOf(s \cup {l}) = l
<1>1. \A j \in s \cup {l} : j <= l /\ (l <= j => j = l)
  OBVIOUS
<1>2. \A i \in s \cup {l} : (\A j \in s \cup {l} : j <= i) <=> i = l
  BY <1>1
<1> QED BY <1>2 DEF LastOf

LEMMA LetterStep ==
  ASSUME NEW lo \in Nat, NEW k \in Nat, k >= lo + 2, NEW l, l = k + 1, NEW letters
  PROVE  /\ LetterAt(lo, k, letters) \in 0 .. k
         /\ LetterAt(lo, l, letters) = IF pattern[l] \in letters THEN l
                                       ELSE LetterAt(lo, k, letters)
<1> DEFINE s == {i \in lo + 3 .. k : pattern[i] \in letters}
           t == {i \in lo + 3 .. l : pattern[i] \in letters}
<1>1. s \subseteq 1 .. k
  OBVIOUS
<1>2. t = IF pattern[l] \in letters THEN s \cup {l} ELSE s
  <2>1. lo + 3 .. l = (lo + 3 .. k) \cup {l}
    OBVIOUS
  <2> QED BY <2>1
<1>3. LetterAt(lo, k, letters) = LastOf(s) /\ LetterAt(lo, l, letters) = LastOf(t)
  BY DEF LetterAt
<1> HIDE DEF s, t
<1>4. LastOf(s) \in 0 .. k
  BY <1>1, LastIn
<1>5. LastOf(s \cup {l}) = l
  BY <1>1, LastGrows
<1> QED BY <1>2, <1>3, <1>4, <1>5

Agree(k, m, m2) == \A i \in 1 .. k : (i < m) = (i < m2)

LEMMA FoldStep ==
  ASSUME NEW lo \in Nat, NEW k \in Nat, k >= lo + 2, NEW l, l = k + 1, NEW letters,
         NEW m \in Nat, NEW m2 \in Nat, Agree(k, m, m2)
  PROVE  /\ FoldAt(lo, k, m, letters) \in 0 .. k
         /\ FoldAt(lo, l, m2, letters) =
              IF pattern[l] \in letters \/ (pattern[l] = "I" /\ l < m2) THEN l
              ELSE FoldAt(lo, k, m, letters)
<1> DEFINE s == {i \in lo + 3 .. k : pattern[i] \in letters \/ (pattern[i] = "I" /\ i < m)}
           t == {i \in lo + 3 .. l : pattern[i] \in letters \/ (pattern[i] = "I" /\ i < m2)}
<1>1. s \subseteq 1 .. k
  OBVIOUS
<1>2. t = IF pattern[l] \in letters \/ (pattern[l] = "I" /\ l < m2) THEN s \cup {l} ELSE s
  <2>1. lo + 3 .. l = (lo + 3 .. k) \cup {l}
    OBVIOUS
  <2> QED BY <1>1, <2>1 DEF Agree
<1>3. FoldAt(lo, k, m, letters) = LastOf(s) /\ FoldAt(lo, l, m2, letters) = LastOf(t)
  BY DEF FoldAt
<1> HIDE DEF s, t
<1>4. LastOf(s) \in 0 .. k /\ LastOf(s \cup {l}) = l
  BY <1>1, LastIn, LastGrows
<1> QED BY <1>2, <1>3, <1>4

LEMMA SwitchedTyped ==
  ASSUME NEW o \in Options, NEW on \in BOOLEAN, NEW letter \in OptionSymbols \ {"-", ":"}
  PROVE  Switched(o, letter, on) \in Options
<1> USE DEF Options, FoldFlags, Switched, With
<1>1. CASE letter \in {"i", "m", "x", "v"}
  BY <1>1
<1>2. CASE letter \in {"d", "a", "u"}
  BY <1>2
<1>3. CASE letter \in {"S", "F"}
  BY <1>3
<1>4. CASE letter \in {"A", "T"}
  BY <1>4
<1>5. CASE letter = "I"
  BY <1>5
<1> QED BY <1>1, <1>2, <1>3, <1>4, <1>5 DEF OptionSymbols

(* What a letter makes of each option.                                       *)
SwitchedAs(p, o, letter, on) ==
  /\ p.is_ignore_case =
      IF letter \in {"i", "I"} THEN on
      ELSE o.is_ignore_case
  /\ p.dot_allows_newline =
      IF letter = "m" THEN on
      ELSE o.dot_allows_newline
  /\ p.is_extended_mode = IF letter = "x" THEN on ELSE o.is_extended_mode
  /\ p.char_class_is_strict =
      IF letter \in {"v", "I"} THEN on
      ELSE o.char_class_is_strict
  /\ p.char_type_is_ascii_only =
      IF letter \in {"d", "a", "u"} THEN letter # "u"
      ELSE o.char_type_is_ascii_only
  /\ p.posix_char_class_is_ascii_only =
      IF letter \in {"d", "a", "u"} THEN letter = "a"
      ELSE o.posix_char_class_is_ascii_only
  /\ ("FULL" \in p.fold_flags) =
      IF letter \in {"S", "F"} THEN letter = "F"
      ELSE IF letter = "I" /\ on THEN FALSE
      ELSE "FULL" \in o.fold_flags
  /\ ("ASCII_ONLY" \in p.fold_flags) =
      IF letter = "A" \/ (letter = "I" /\ on) THEN on
      ELSE "ASCII_ONLY" \in o.fold_flags
  /\ ("TURKISH_AZERI" \in p.fold_flags) =
      IF letter = "T" THEN on
      ELSE "TURKISH_AZERI" \in o.fold_flags

LEMMA SwitchedFields ==
  ASSUME NEW o \in Options, NEW on \in BOOLEAN, NEW letter \in OptionSymbols \ {"-", ":"}
  PROVE  SwitchedAs(Switched(o, letter, on), o, letter, on)
<1> USE DEF Options, FoldFlags, Switched, With, SwitchedAs
<1>1. CASE letter = "i"
  BY <1>1
<1>2. CASE letter = "m"
  BY <1>2
<1>3. CASE letter = "x"
  BY <1>3
<1>4. CASE letter = "v"
  BY <1>4
<1>5. CASE letter = "d"
  BY <1>5
<1>6. CASE letter = "a"
  BY <1>6
<1>7. CASE letter = "u"
  BY <1>7
<1>8. CASE letter = "S"
  BY <1>8
<1>9. CASE letter = "F"
  BY <1>9
<1>10. CASE letter = "A"
  BY <1>10
<1>11. CASE letter = "T"
  BY <1>11
<1>12. CASE letter = "I"
  <2>1. CASE on = TRUE
    <3>1. Switched(o, "I", TRUE) = [o EXCEPT !.is_ignore_case = TRUE, !.char_class_is_strict = TRUE,
                                            !.fold_flags = (@ \ {"FULL"}) \cup {"ASCII_ONLY"}]
      OBVIOUS
    <3>2. PICK p : p = Switched(o, "I", TRUE)
      OBVIOUS
    <3>3. p.fold_flags = (o.fold_flags \ {"FULL"}) \cup {"ASCII_ONLY"}
      BY <3>1, <3>2
    <3>4. /\ p.is_ignore_case = TRUE /\ p.char_class_is_strict = TRUE
          /\ p.dot_allows_newline = o.dot_allows_newline /\ p.is_extended_mode = o.is_extended_mode
          /\ p.char_type_is_ascii_only = o.char_type_is_ascii_only
          /\ p.posix_char_class_is_ascii_only = o.posix_char_class_is_ascii_only
      BY <3>1, <3>2
    <3>5. /\ ("FULL" \in p.fold_flags) = FALSE
          /\ ("ASCII_ONLY" \in p.fold_flags) = TRUE
          /\ ("TURKISH_AZERI" \in p.fold_flags) = ("TURKISH_AZERI" \in o.fold_flags)
      BY <3>3
    <3>6. SwitchedAs(p, o, "I", TRUE)
      BY <3>4, <3>5 DEF SwitchedAs
    <3> HIDE DEF SwitchedAs, Switched
    <3> QED BY <1>12, <2>1, <3>2, <3>6
  <2>2. CASE on = FALSE
    BY <1>12, <2>2
  <2> QED BY <2>1, <2>2
<1> QED BY <1>1, <1>2, <1>3, <1>4, <1>5, <1>6, <1>7, <1>8, <1>9, <1>10, <1>11, <1>12 DEF OptionSymbols

IsSign(on, m, l) == on = (m = l)

LEMMA LetterKeeps ==
  ASSUME NEW lo \in Nat, NEW k \in Nat, k >= lo + 2, NEW l, l = k + 1,
         NEW m \in Nat, NEW m2 \in Nat, IsMinus(lo, k, m), IsMinus(lo, l, m2),
         options \in Options, NEW o \in Options, AsRead(o, lo, k, m),
         NEW letter, letter = pattern[l], letter \in OptionSymbols \ {"-", ":"},
         NEW on \in BOOLEAN, IsSign(on, m, l), letter \in NonBoolean => on
  PROVE  AsRead(Switched(o, letter, on), lo, l, m2)
<1>0. on = (m = l)
  BY DEF IsSign
<1>1. /\ m \in lo + 3 .. l /\ m2 \in lo + 3 .. l + 1 /\ (m2 <= l => pattern[m2] = "-")
      /\ (m <= k => pattern[m] = "-") /\ letter # "-"
      /\ \A i \in lo + 3 .. m - 1 : pattern[i] # "-"
      /\ \A i \in lo + 3 .. m2 - 1 : pattern[i] # "-"
  BY DEF IsMinus
<1>2. on => m2 = l + 1
  <2>1. ASSUME on, m2 <= l PROVE FALSE
    <3>1. m = l /\ m2 # l
      BY <1>0, <1>1, <2>1
    <3>2. m2 \in lo + 3 .. m - 1
      BY <1>1, <2>1, <3>1
    <3> QED BY <1>1, <2>1, <3>2
  <2> QED BY <1>1, <2>1
<1>3. ~on => m2 = m /\ m <= k
  <2>1. ASSUME ~on PROVE m <= k /\ pattern[m] = "-"
    <3>1. m # l
      BY <1>0, <2>1
    <3> QED BY <1>1, <3>1
  <2>2. ASSUME ~on, m < m2 PROVE FALSE
    BY <1>1, <2>1, <2>2
  <2>3. ASSUME ~on, m2 < m PROVE FALSE
    BY <1>1, <2>1, <2>3
  <2> QED BY <1>1, <2>1, <2>2, <2>3
<1>4. /\ \A i \in 1 .. k : i < m <=> i < m2
      /\ l < m2 <=> on
  BY <1>1, <1>2, <1>3
<1>5. \A at \in 0 .. k : \A before : OnFrom(at, m, before) = OnFrom(at, m2, before)
  BY <1>4 DEF OnFrom
<1>6. \A before : OnFrom(l, m2, before) = on
  <2>1. l # 0
    OBVIOUS
  <2>2. CASE on = TRUE
    BY <1>4, <2>1, <2>2 DEF OnFrom
  <2>3. CASE on = FALSE
    <3>1. (l < m2) = FALSE
      BY <1>4, <2>3
    <3> QED BY <2>1, <2>3, <3>1 DEF OnFrom
  <2> QED BY <2>2, <2>3
<1>7. \A letters :
        /\ LetterAt(lo, k, letters) \in 0 .. k
        /\ LetterAt(lo, l, letters) = IF letter \in letters THEN l ELSE LetterAt(lo, k, letters)
  BY LetterStep
<1>8. \A letters :
        /\ FoldAt(lo, k, m, letters) \in 0 .. k
        /\ FoldAt(lo, l, m2, letters) = IF letter \in letters \/ (letter = "I" /\ on) THEN l
                                        ELSE FoldAt(lo, k, m, letters)
  <2>1. Agree(k, m, m2)
    BY <1>4 DEF Agree
  <2>2. ASSUME NEW letters
        PROVE  /\ FoldAt(lo, k, m, letters) \in 0 .. k
               /\ FoldAt(lo, l, m2, letters) =
                    IF pattern[l] \in letters \/ (pattern[l] = "I" /\ l < m2) THEN l
                    ELSE FoldAt(lo, k, m, letters)
    BY <2>1, FoldStep
  <2>3. l < m2 <=> on
    BY <1>4
  <2> QED BY <2>2, <2>3
<1>p. PICK p : p = Switched(o, letter, on)
  OBVIOUS
<1>q. SwitchedAs(p, o, letter, on)
  BY <1>p, SwitchedFields
<1>9. p.is_ignore_case = OnFrom(LetterAt(lo, l, {"i", "I"}), m2, options.is_ignore_case)
  <2>1. o.is_ignore_case = OnFrom(LetterAt(lo, k, {"i", "I"}), m, options.is_ignore_case)
    BY DEF AsRead
  <2>2. p.is_ignore_case = IF letter \in {"i", "I"} THEN on ELSE o.is_ignore_case
    BY <1>q DEF SwitchedAs
  <2> QED BY <1>5, <1>6, <1>7, <2>1, <2>2
<1>10. p.dot_allows_newline = OnFrom(LetterAt(lo, l, {"m"}), m2, options.dot_allows_newline)
  <2>1. o.dot_allows_newline = OnFrom(LetterAt(lo, k, {"m"}), m, options.dot_allows_newline)
    BY DEF AsRead
  <2>2. p.dot_allows_newline = IF letter \in {"m"} THEN on ELSE o.dot_allows_newline
    BY <1>q DEF SwitchedAs
  <2> QED BY <1>5, <1>6, <1>7, <2>1, <2>2
<1>11. p.is_extended_mode = OnFrom(LetterAt(lo, l, {"x"}), m2, options.is_extended_mode)
  <2>1. o.is_extended_mode = OnFrom(LetterAt(lo, k, {"x"}), m, options.is_extended_mode)
    BY DEF AsRead
  <2>2. p.is_extended_mode = IF letter \in {"x"} THEN on ELSE o.is_extended_mode
    BY <1>q DEF SwitchedAs
  <2> QED BY <1>5, <1>6, <1>7, <2>1, <2>2
<1>12. p.char_class_is_strict = OnFrom(LetterAt(lo, l, {"v", "I"}), m2, options.char_class_is_strict)
  <2>1. o.char_class_is_strict = OnFrom(LetterAt(lo, k, {"v", "I"}), m, options.char_class_is_strict)
    BY DEF AsRead
  <2>2. p.char_class_is_strict = IF letter \in {"v", "I"} THEN on ELSE o.char_class_is_strict
    BY <1>q DEF SwitchedAs
  <2> QED BY <1>5, <1>6, <1>7, <2>1, <2>2
<1>13. LET type == LetterAt(lo, l, {"d", "a", "u"}) IN
       type # 0 => /\ p.char_type_is_ascii_only = (pattern[type] # "u")
                   /\ p.posix_char_class_is_ascii_only = (pattern[type] = "a")
  <2> DEFINE old == LetterAt(lo, k, {"d", "a", "u"})
             new == LetterAt(lo, l, {"d", "a", "u"})
  <2>1. old # 0 => /\ o.char_type_is_ascii_only = (pattern[old] # "u")
                   /\ o.posix_char_class_is_ascii_only = (pattern[old] = "a")
    BY DEF AsRead
  <2>2. /\ p.char_type_is_ascii_only = IF letter \in {"d", "a", "u"} THEN letter # "u"
                                      ELSE o.char_type_is_ascii_only
        /\ p.posix_char_class_is_ascii_only = IF letter \in {"d", "a", "u"} THEN letter = "a"
                                             ELSE o.posix_char_class_is_ascii_only
    BY <1>q DEF SwitchedAs
  <2>3. new = IF letter \in {"d", "a", "u"} THEN l ELSE old
    BY <1>7
  <2> HIDE DEF old, new
  <2>4. new # 0 => /\ p.char_type_is_ascii_only = (pattern[new] # "u")
                   /\ p.posix_char_class_is_ascii_only = (pattern[new] = "a")
    BY <2>1, <2>2, <2>3
  <2> QED BY <2>4 DEF new
<1>14. ("FULL" \in p.fold_flags) =
         LET full == FoldAt(lo, l, m2, {"S", "F"})
         IN  IF full = 0 THEN "FULL" \in options.fold_flags ELSE pattern[full] = "F"
  <2> DEFINE old == FoldAt(lo, k, m, {"S", "F"})
             new == FoldAt(lo, l, m2, {"S", "F"})
  <2>1. ("FULL" \in o.fold_flags) =
          IF old = 0 THEN "FULL" \in options.fold_flags ELSE pattern[old] = "F"
    BY DEF AsRead
  <2>2. ("FULL" \in p.fold_flags) = IF letter \in {"S", "F"} THEN letter = "F"
                                    ELSE IF letter = "I" /\ on THEN FALSE
                                    ELSE "FULL" \in o.fold_flags
    BY <1>q DEF SwitchedAs
  <2>3. new = IF letter \in {"S", "F"} \/ (letter = "I" /\ on) THEN l ELSE old
    BY <1>8
  <2> HIDE DEF old, new
  <2>4. CASE letter \in {"S", "F"} \/ (letter = "I" /\ on)
    <3>0. l # 0 /\ pattern[l] = letter
      OBVIOUS
    <3>1. new = l /\ new # 0 /\ pattern[new] = letter
      BY <2>3, <2>4, <3>0, Zenon
    <3>2. ("FULL" \in p.fold_flags) = (letter = "F")
      BY <2>2, <2>4
    <3> QED BY <3>1, <3>2 DEF new
  <2>5. CASE ~(letter \in {"S", "F"} \/ (letter = "I" /\ on))
    <3>1. new = old
      BY <2>3, <2>5
    <3>2. ("FULL" \in p.fold_flags) = ("FULL" \in o.fold_flags)
      BY <2>2, <2>5
    <3> HIDE DEF old, new
    <3>3. ("FULL" \in p.fold_flags) =
            IF new = 0 THEN "FULL" \in options.fold_flags ELSE pattern[new] = "F"
      BY <2>1, <3>1, <3>2
    <3> QED BY <3>3 DEF new
  <2> QED BY <2>4, <2>5
<1>15. ("ASCII_ONLY" \in p.fold_flags) =
         OnFrom(FoldAt(lo, l, m2, {"A"}), m2, "ASCII_ONLY" \in options.fold_flags)
  <2>1. ("ASCII_ONLY" \in o.fold_flags) =
          OnFrom(FoldAt(lo, k, m, {"A"}), m, "ASCII_ONLY" \in options.fold_flags)
    BY DEF AsRead
  <2>2. ("ASCII_ONLY" \in p.fold_flags) = IF letter = "A" \/ (letter = "I" /\ on) THEN on
                                          ELSE "ASCII_ONLY" \in o.fold_flags
    BY <1>q DEF SwitchedAs
  <2> DEFINE old == FoldAt(lo, k, m, {"A"})
             new == FoldAt(lo, l, m2, {"A"})
  <2>3. old \in 0 .. k /\ new = IF letter \in {"A"} \/ (letter = "I" /\ on) THEN l ELSE old
    BY <1>8
  <2> HIDE DEF old, new
  <2>4. CASE letter = "A" \/ (letter = "I" /\ on)
    <3>1. new = l
      BY <2>3, <2>4
    <3>2. ("ASCII_ONLY" \in p.fold_flags) = on
      BY <2>2, <2>4
    <3>3. OnFrom(new, m2, "ASCII_ONLY" \in options.fold_flags) = on
      BY <1>6, <3>1
    <3> QED BY <3>2, <3>3 DEF new
  <2>5. CASE ~(letter = "A" \/ (letter = "I" /\ on))
    <3>1. new = old
      BY <2>3, <2>5
    <3>2. ("ASCII_ONLY" \in p.fold_flags) = ("ASCII_ONLY" \in o.fold_flags)
      BY <2>2, <2>5
    <3>3. OnFrom(old, m, "ASCII_ONLY" \in options.fold_flags)
            = OnFrom(old, m2, "ASCII_ONLY" \in options.fold_flags)
      BY <1>5, <2>3
    <3> QED BY <2>1, <3>1, <3>2, <3>3 DEF new, old
  <2> QED BY <2>4, <2>5
<1>16. ("TURKISH_AZERI" \in p.fold_flags) =
         OnFrom(LetterAt(lo, l, {"T"}), m2, "TURKISH_AZERI" \in options.fold_flags)
  <2>1. ("TURKISH_AZERI" \in o.fold_flags) =
          OnFrom(LetterAt(lo, k, {"T"}), m, "TURKISH_AZERI" \in options.fold_flags)
    BY DEF AsRead
  <2>2. ("TURKISH_AZERI" \in p.fold_flags) = IF letter = "T" THEN on
                                             ELSE "TURKISH_AZERI" \in o.fold_flags
    BY <1>q DEF SwitchedAs
  <2> QED BY <1>5, <1>6, <1>7, <2>1, <2>2
<1> QED BY <1>p, <1>9, <1>10, <1>11, <1>12, <1>13, <1>14, <1>15, <1>16 DEF AsRead


-----------------------------------------------------------------------------
(* The steps: most of them have nothing to do with options.                  *)
OfOptions == {"group", "specifier", "option"}

Passes ==
  /\ UNCHANGED <<pattern, options, saved>>
  /\ pc' \notin OfOptions
  /\ pc' = "token" => local' = Local(pos')
  /\ pc' = "idle" => tok'.type \notin OptionTokens

LEMMA PassingKeeps ==
  ASSUME OptionsRead, LexerInv', Passes
  PROVE  OptionsRead'
<1>1. OptionsTyped'
  BY DEF Passes, OptionsRead, OptionsTyped
<1>2. OptionBeing'
  BY DEF Passes, OptionBeing, OfOptions, LexerInv, Located, Local
<1>3. OptionsAsWritten'
  BY DEF Passes, OptionsAsWritten, HasToken, OptionTokens
<1> QED BY <1>1, <1>2, <1>3 DEF OptionsRead

LEMMA GroupPasses ==
  ASSUME NEW n, NEW type, NEW data, NEW code, NEW span, NEW where, NEW l, NEW at,
         \/ type \notin OptionTokens /\ Emit(n, type, data)
         \/ FailAt(at, code, span)
         \/ LiteralBrace
         \/ where \notin OfOptions \cup {"token", "idle"} /\ Advance(n, where, l)
  PROVE  Passes
<1>1. CASE type \notin OptionTokens /\ Emit(n, type, data)
  BY <1>1 DEF Emit, EmitAt, EmitReleasing, Passes, OfOptions, ParserVars, InputVars
<1>2. CASE FailAt(at, code, span)
  BY <1>2 DEF FailAt, FailReleasing, Passes, OfOptions, ParserVars, InputVars
<1>3. CASE where \notin OfOptions \cup {"token", "idle"} /\ Advance(n, where, l)
  BY <1>3 DEF Advance, Passes, OfOptions, ParserVars, InputVars
<1>4. CASE LiteralBrace
  BY <1>4 DEF LiteralBrace, EmitAt, EmitReleasing, Passes, OfOptions, OptionTokens, ParserVars, InputVars
<1> QED BY <1>1, <1>2, <1>3, <1>4

LEMMA BoundsPass ==
  ASSUME LexQuantifier \/ OpenBounds \/ LexMin \/ LexComma \/ LexMax \/ LexBoundsEnd \/ LexQuantifierType
  PROVE  Passes
<1>1. CASE LexQuantifier \/ OpenBounds
  BY <1>1, GroupPasses DEF LexQuantifier, OpenBounds, OfOptions
<1>2. CASE LexMin
  BY <1>2, GroupPasses DEF LexMin, Read, OfOptions
<1>3. CASE LexComma
  BY <1>3, GroupPasses DEF LexComma, OfOptions
<1>4. CASE LexMax
  BY <1>4, GroupPasses DEF LexMax, Read, OfOptions
<1>5. CASE LexBoundsEnd
  BY <1>5, GroupPasses DEF LexBoundsEnd, Fail, OfOptions
<1>6. CASE LexQuantifierType
  BY <1>6, GroupPasses DEF LexQuantifierType, OptionTokens
<1> QED BY <1>1, <1>2, <1>3, <1>4, <1>5, <1>6

LEMMA StepPasses ==
  ASSUME HasShape(local), pc = "number" => local.number.after \in Afters,
         Next, pc \notin OfOptions \cup {"idle"}, ~OpenGroup
  PROVE  Passes
<1>1. CASE pc \notin {"token", "number"} \cup OwnPoints
  BY <1>1, StepElsewhere DEF Elsewhere, OwnPoints, Passes, OfOptions, ParserVars, InputVars
<1> USE DEF Advance, Read, Retry, Emit, EmitAt, EmitWarned, EmitReleasing, Fail, FailAt, FailReleasing,
            LiteralBrace, ParserVars, InputVars, Passes, OfOptions, OptionTokens
<1>2. CASE pc = "number"
  <2>1. InvalidBytes => Passes
    BY <1>2 DEF InvalidBytes
  <2>2. NumberDigit \/ NumberTooLarge \/ NumberEnd => Passes
    BY <1>2 DEF NumberDigit, NumberTooLarge, NumberEnd, Afters
  <2>3. ~Lex
    BY <1>2 DEF Lex
  <2>4. ~LexToken
    BY <1>2 DEF LexToken, LexEnd, SkipWhitespace, OpenComment, Comment, LexSimple, LexLiteral,
       LexQuantifier, OpenBounds, LexMin, LexComma, LexMax, LexBoundsEnd, LexQuantifierType,
       OpenGroup, LexSpecifier, LexLookbehind, LexCondition, LexConditionClose, LexOption, At, Other
  <2>5. ~LexReferences
    BY <1>2 DEF LexReferences, LexReference, LexSign, LexNumbered, LexDepth, LexClose, LexName,
       TrimName, LexNamed, At, Other
  <2>6. ~LexEscapes
    BY <1>2 DEF LexEscapes, OpenEscape, LexEscapedAssertion, LexEscapedType, LexProperty,
       LexNamedReference, LexBare, LexCommonEscape, LexEscape, LexNumberedByte, LexMeta,
       LexControl, LexBytes, LexUnicode, LexUnicodeNumber, LexBrace, LexBraceNumber, LexBraceNext,
       At, Other
  <2> QED BY <2>1, <2>2, <2>3, <2>4, <2>5, <2>6 DEF Next
<1>3. CASE pc \in {"token", "greed"} \cup InBounds
  <2>1. InvalidBytes => Passes
    BY DEF InvalidBytes
  <2>2. LexEnd => Passes
    BY DEF LexEnd
  <2>3. SkipWhitespace => Passes
    BY DEF SkipWhitespace
  <2>4. OpenComment => Passes
    BY DEF OpenComment
  <2>5. LexSimple => Passes
    BY DEF LexSimple
  <2>6. LexLiteral => Passes
    BY DEF LexLiteral
  <2>7. LexQuantifier \/ OpenBounds \/ LexMin \/ LexComma \/ LexMax \/ LexBoundsEnd \/ LexQuantifierType
          => Passes
    BY BoundsPass
  <2>8. OpenEscape => Passes
    BY DEF OpenEscape
  <2>9. ~Lex /\ ~NumberDigit /\ ~NumberTooLarge /\ ~NumberEnd
    BY <1>3 DEF Lex, NumberDigit, NumberTooLarge, NumberEnd, AtDigit, InBounds
  <2>10. ~(Comment \/ LexSpecifier \/ LexLookbehind \/ LexCondition \/ LexConditionClose \/ LexOption)
    BY <1>3 DEF Comment, LexSpecifier, LexLookbehind, LexCondition, LexConditionClose, LexOption,
       At, Other, InBounds
  <2>11. ~LexReferences
    BY <1>3 DEF LexReferences, LexReference, LexSign, LexNumbered, LexDepth, LexClose, LexName,
       TrimName, LexNamed, At, Other, InBounds
  <2>12. LexEscapes => OpenEscape
    BY <1>3 DEF LexEscapes, LexEscapedAssertion, LexEscapedType, LexProperty,
       LexNamedReference, LexBare, LexCommonEscape, LexEscape, LexNumberedByte, LexMeta,
       LexControl, LexBytes, LexUnicode, LexUnicodeNumber, LexBrace, LexBraceNumber, LexBraceNext,
       At, Other, InBounds
  <2> QED BY <2>1, <2>2, <2>3, <2>4, <2>5, <2>6, <2>7, <2>8,
             <2>9, <2>10, <2>11, <2>12 DEF Next, LexToken
<1> QED BY <1>1, <1>2, <1>3 DEF OwnPoints

(* At the points of an option group nothing else is read.                    *)
LEMMA OptionPoints ==
  ASSUME Next, pc \in OfOptions
  PROVE  OpenGroup \/ LexSpecifier \/ LexOption \/ InvalidBytes
<1>1. ~Lex /\ ~NumberDigit /\ ~NumberTooLarge /\ ~NumberEnd
  BY DEF Lex, NumberDigit, NumberTooLarge, NumberEnd, AtDigit, OfOptions
<1>2. LexToken => OpenGroup \/ LexSpecifier \/ LexOption
  BY DEF LexToken, LexEnd, SkipWhitespace, OpenComment, Comment, LexSimple, LexLiteral,
     LexQuantifier, OpenBounds, LexMin, LexComma, LexMax, LexBoundsEnd, LexQuantifierType,
     LexLookbehind, LexCondition, LexConditionClose, At, Other, OfOptions
<1>3. ~LexReferences
  BY DEF LexReferences, LexReference, LexSign, LexNumbered, LexDepth, LexClose, LexName,
     TrimName, LexNamed, At, Other, OfOptions
<1>4. ~LexEscapes
  BY DEF LexEscapes, OpenEscape, LexEscapedAssertion, LexEscapedType, LexProperty,
     LexNamedReference, LexBare, LexCommonEscape, LexEscape, LexNumberedByte, LexMeta,
     LexControl, LexBytes, LexUnicode, LexUnicodeNumber, LexBrace, LexBraceNumber, LexBraceNext,
     At, Other, OfOptions
<1> QED BY <1>1, <1>2, <1>3, <1>4 DEF Next


-----------------------------------------------------------------------------
(* The steps of an option group.                                             *)
LEMMA OpenGroupKeeps ==
  ASSUME LexerInv, LexerInv', OptionsRead, OpenGroup
  PROVE  OptionsRead'
<1>1. CASE Other("group", {"?"}) /\ Emit(0, "GROUP_OPEN", <<>>)
  <2>1. Passes
    BY <1>1, GroupPasses DEF OptionTokens
  <2> QED BY <2>1, PassingKeeps
<1>2. CASE At("token", {"("}) /\ Advance(1, "group", local)
  <2>1. /\ pc = "token" /\ pc' = "group" /\ pos' = pos + 1 /\ local' = local
        /\ options' = options /\ saved' = saved
    BY <1>2 DEF At, Advance, ParserVars, InputVars
  <2>2. local.lo = pos /\ pos \in Nat
    BY <2>1 DEF LexerInv, Located, StandsAt
  <2>3. OptionsTyped' /\ OptionsAsWritten'
    BY <2>1 DEF OptionsRead, OptionsTyped, OptionsAsWritten, HasToken
  <2>4. OptionBeing'
    BY <2>1, <2>2 DEF OptionsRead, OptionBeing
  <2> QED BY <2>3, <2>4 DEF OptionsRead
<1>3. CASE At("group", {"?"}) /\ Advance(1, "specifier", local)
  <2>1. /\ pc = "group" /\ pc' = "specifier" /\ pos' = pos + 1 /\ local' = local
        /\ options' = options /\ saved' = saved
    BY <1>3 DEF At, Advance, ParserVars, InputVars
  <2>2. OptionsTyped' /\ OptionsAsWritten'
    BY <2>1 DEF OptionsRead, OptionsTyped, OptionsAsWritten, HasToken
  <2>3. OptionBeing'
    BY <2>1 DEF OptionsRead, OptionBeing
  <2> QED BY <2>2, <2>3 DEF OptionsRead
<1> QED BY <1>1, <1>2, <1>3 DEF OpenGroup

LEMMA SameRead ==
  ASSUME NEW o, NEW lo, NEW k, NEW m, pattern' = pattern, options' = options
  PROVE  IsMinus(lo, k, m)' = IsMinus(lo, k, m) /\ AsRead(o, lo, k, m)' = AsRead(o, lo, k, m)
BY DEF AsRead, IsMinus, LetterAt, FoldAt, OnFrom

(* Still inside the group, with what has been read so far.                   *)
LEMMA StillReading ==
  ASSUME OptionsRead, NEW l, NEW p \in Nat, NEW m \in Nat,
         local' = l, pos' = p, pc' = "option",
         pattern' = pattern, options' = options, saved' = saved,
         {"option", "positive"} \subseteq DOMAIN l, l.lo \in Nat, p >= l.lo + 2,
         l.option \in Options, IsMinus(l.lo, p, m), l.positive = (m = p + 1),
         AsRead(l.option, l.lo, p, m)
  PROVE  OptionsRead'
<1>1. OptionsTyped' /\ OptionsAsWritten'
  BY DEF OptionsRead, OptionsTyped, OptionsAsWritten, HasToken
<1>2. IsMinus(local.lo, pos, m)' /\ AsRead(local.option, local.lo, pos, m)'
  BY SameRead
<1>3. OptionBeing'
  BY <1>2 DEF OptionBeing
<1> QED BY <1>1, <1>3 DEF OptionsRead

(* Before the first letter: no letter has changed anything.                  *)
LEMMA NothingRead ==
  ASSUME NEW lo \in Nat, NEW k, k = lo + 2
  PROVE  IsMinus(lo, k, k + 1) /\ AsRead(options, lo, k, k + 1)
<1>1. lo + 3 .. k = {} /\ k \in Nat
  OBVIOUS
<1>2. IsMinus(lo, k, k + 1)
  BY DEF IsMinus
<1>3. /\ \A letters : LetterAt(lo, k, letters) = 0
      /\ \A letters : FoldAt(lo, k, k + 1, letters) = 0
  BY <1>1 DEF LetterAt, FoldAt, LastOf
<1>4. AsRead(options, lo, k, k + 1)
  BY <1>3 DEF AsRead, OnFrom
<1> QED BY <1>2, <1>4

LEMMA SpecifierKeeps ==
  ASSUME LexerInv, LexerInv', OptionsRead, LexSpecifier
  PROVE  OptionsRead'
<1>1. CASE At("specifier", OptionSymbols) /\ Advance(0, "option", [local EXCEPT !.option = options])
  <2> DEFINE l == [local EXCEPT !.option = options]
  <2>1. /\ pc = "specifier" /\ pc' = "option" /\ pos' = pos /\ local' = l
        /\ options' = options /\ saved' = saved /\ pattern' = pattern
    BY <1>1 DEF At, Advance, ParserVars, InputVars, LexerInv, Located
  <2>2. /\ {"option", "positive"} \subseteq DOMAIN local /\ local.lo \in Nat
        /\ local.positive = TRUE /\ pos = local.lo + 2 /\ options \in Options
    BY <2>1 DEF OptionsRead, OptionBeing, OptionsTyped
  <2>3. l.option = options /\ l.positive = TRUE /\ l.lo = local.lo /\ DOMAIN l = DOMAIN local
    BY <2>2
  <2> HIDE DEF l
  <2>4. IsMinus(l.lo, pos, pos + 1) /\ AsRead(l.option, l.lo, pos, pos + 1)
    BY <2>2, <2>3, NothingRead
  <2>5. PICK m : m = pos + 1
    OBVIOUS
  <2>6. pos \in Nat /\ m \in Nat /\ l.positive = (m = pos + 1) /\ pos >= l.lo + 2
    <3>1. (m = pos + 1) = TRUE
      BY <2>5
    <3>2. pos \in Nat /\ pos >= local.lo + 2
      BY <2>2
    <3>3. l.positive = (m = pos + 1)
      BY <2>3, <3>1
    <3>4. m \in Nat /\ pos >= l.lo + 2
      BY <2>3, <2>5, <3>2
    <3> QED BY <3>2, <3>3, <3>4
  <2>7. /\ {"option", "positive"} \subseteq DOMAIN l /\ l.lo \in Nat /\ l.option \in Options
        /\ IsMinus(l.lo, pos, m) /\ AsRead(l.option, l.lo, pos, m)
    BY <2>2, <2>3, <2>4, <2>5
  <2>8. PICK p : p = pos
    OBVIOUS
  <2> QED BY <2>1, <2>6, <2>7, <2>8, StillReading
<1>2. CASE ~(At("specifier", OptionSymbols) /\ Advance(0, "option", [local EXCEPT !.option = options]))
  <2>1. Passes
    BY <1>2, GroupPasses DEF LexSpecifier, OptionTokens, OfOptions, Incomplete, Fail
  <2> QED BY <2>1, PassingKeeps
<1> QED BY <1>1, <1>2


LEMMA LetterRead ==
  ASSUME LexerInv, OptionsRead,
         At("option", OptionSymbols \ {"-", ":"}), Peek \in NonBoolean => local.positive,
         Advance(1, "option", [local EXCEPT !.option = Switched(@, Peek, local.positive)])
  PROVE  OptionsRead'
<1> DEFINE l == [local EXCEPT !.option = Switched(@, Peek, local.positive)]
<1>1. /\ pc = "option" /\ pc' = "option" /\ pos' = pos + 1 /\ local' = l
      /\ options' = options /\ saved' = saved /\ pattern' = pattern
  BY DEF At, Advance, ParserVars, InputVars
<1>2. PICK m \in Nat : IsMinus(local.lo, pos, m) /\ local.positive = (m = pos + 1)
                       /\ AsRead(local.option, local.lo, pos, m)
  <2>1. \E m : IsMinus(local.lo, pos, m) /\ local.positive = (m = pos + 1)
               /\ AsRead(local.option, local.lo, pos, m) /\ m \in Nat
    BY <1>1 DEF OptionsRead, OptionBeing
  <2> QED BY <2>1
<1>3. /\ {"option", "positive"} \subseteq DOMAIN local /\ local.lo \in Nat /\ pos \in Nat
      /\ pos >= local.lo + 2 /\ local.option \in Options /\ options \in Options
  BY <1>1 DEF OptionsRead, OptionBeing, OptionsTyped, LexerInv, Located
<1>4. PICK letter : letter = Peek
  OBVIOUS
<1>5. letter = pattern[pos + 1] /\ letter \in OptionSymbols \ {"-", ":"}
  BY <1>4 DEF At, Peek, OptionSymbols
<1>6. PICK on \in BOOLEAN : on = (m = pos + 1) /\ local.positive = on
  BY <1>2
<1>7. /\ l.option = Switched(local.option, letter, on) /\ l.positive = on /\ l.lo = local.lo
      /\ DOMAIN l = DOMAIN local
  BY <1>3, <1>4, <1>6
<1>8. letter \in NonBoolean => on
  BY <1>4, <1>6
<1> HIDE DEF l
<1>9. Switched(local.option, letter, on) \in Options
  BY <1>3, <1>5, SwitchedTyped
<1>10. PICK k : k = pos + 1
  OBVIOUS
<1>11. PICK m2 \in Nat : m2 = IF m = k THEN k + 1 ELSE m
  BY <1>2, <1>3, <1>10
<1>12. IsMinus(local.lo, k, m2)
  BY <1>2, <1>3, <1>5, <1>10, <1>11 DEF IsMinus
<1>13. AsRead(Switched(local.option, letter, on), local.lo, k, m2)
  <2>1. PICK lo, o : lo = local.lo /\ o = local.option
    OBVIOUS
  <2>2. /\ lo \in Nat /\ pos \in Nat /\ pos >= lo + 2 /\ k = pos + 1 /\ IsMinus(lo, pos, m)
        /\ IsMinus(lo, k, m2) /\ options \in Options /\ o \in Options /\ AsRead(o, lo, pos, m)
    BY <1>2, <1>3, <1>10, <1>12, <2>1
  <2>3. letter = pattern[k] /\ letter \in OptionSymbols \ {"-", ":"}
    BY <1>5, <1>10
  <2>4. IsSign(on, m, k)
    BY <1>6, <1>10 DEF IsSign
  <2>5. AsRead(Switched(o, letter, on), lo, k, m2)
    BY <1>8, <2>2, <2>3, <2>4, LetterKeeps
  <2> QED BY <2>1, <2>5
<1>14. l.positive = (m2 = k + 1)
  <2>1. m \in local.lo + 3 .. k
    BY <1>2, <1>10 DEF IsMinus
  <2>2. CASE m = k
    <3>1. (m2 = k + 1) = TRUE /\ on = TRUE
      BY <1>6, <1>10, <1>11, <2>2
    <3> QED BY <1>7, <3>1
  <2>3. CASE m # k
    <3>1. m2 # k + 1
      BY <1>3, <1>10, <1>11, <2>1, <2>3
    <3>2. (m2 = k + 1) = FALSE /\ on = FALSE
      BY <1>6, <1>10, <2>3, <3>1
    <3> QED BY <1>7, <3>2
  <2> QED BY <2>2, <2>3
<1>15. k \in Nat /\ k >= l.lo + 2
  BY <1>3, <1>7, <1>10
<1> QED BY <1>1, <1>3, <1>7, <1>9, <1>10, <1>12, <1>13, <1>14, <1>15, StillReading

(* A minus changes no option.                                                *)
LEMMA MinusRead ==
  ASSUME LexerInv, OptionsRead, At("option", {"-"}),
         Warn(~local.positive, "REDUNDANT_GROUP_OPTION_MINUS", 1, "option",
              [local EXCEPT !.positive = Negated(@)])
  PROVE  OptionsRead'
<1> DEFINE l == [local EXCEPT !.positive = Negated(@)]
<1>1. /\ pc = "option" /\ pc' = "option" /\ pos' = pos + 1 /\ local' = l
      /\ options' = options /\ saved' = saved /\ pattern' = pattern
  BY DEF At, Warn, ParserVars, InputVars
<1>2. PICK m \in Nat : IsMinus(local.lo, pos, m) /\ AsRead(local.option, local.lo, pos, m)
  <2>1. \E m : IsMinus(local.lo, pos, m) /\ AsRead(local.option, local.lo, pos, m) /\ m \in Nat
    BY <1>1 DEF OptionsRead, OptionBeing
  <2> QED BY <2>1
<1>3. /\ {"option", "positive"} \subseteq DOMAIN local /\ local.lo \in Nat /\ pos \in Nat
      /\ pos >= local.lo + 2 /\ local.option \in Options /\ options \in Options
  BY <1>1 DEF OptionsRead, OptionBeing, OptionsTyped, LexerInv, Located
<1>4. pattern[pos + 1] = "-"
  BY DEF At, Peek
<1>5. l.option = local.option /\ l.positive = FALSE /\ l.lo = local.lo /\ DOMAIN l = DOMAIN local
  BY <1>3 DEF Negated
<1> HIDE DEF l
<1>6. PICK k : k = pos + 1
  OBVIOUS
<1>7. IsMinus(local.lo, k, m) /\ k # m - 1 /\ m # k + 1
  BY <1>2, <1>3, <1>4, <1>6 DEF IsMinus
<1>8. /\ \A letters : "-" \notin letters => LetterAt(local.lo, k, letters) = LetterAt(local.lo, pos, letters)
      /\ \A letters : "-" \notin letters => FoldAt(local.lo, k, m, letters) = FoldAt(local.lo, pos, m, letters)
  <2>1. Agree(pos, m, m)
    BY DEF Agree
  <2>2. ASSUME NEW letters, "-" \notin letters
        PROVE  LetterAt(local.lo, k, letters) = LetterAt(local.lo, pos, letters)
    BY <1>3, <1>4, <1>6, <2>2, LetterStep
  <2>3. ASSUME NEW letters, "-" \notin letters
        PROVE  FoldAt(local.lo, k, m, letters) = FoldAt(local.lo, pos, m, letters)
    BY <1>3, <1>4, <1>6, <2>1, <2>3, FoldStep
  <2> QED BY <2>2, <2>3
<1>9. AsRead(local.option, local.lo, k, m)
  <2>1. /\ LetterAt(local.lo, k, {"d", "a", "u"}) = LetterAt(local.lo, pos, {"d", "a", "u"})
        /\ LetterAt(local.lo, k, {"i", "I"}) = LetterAt(local.lo, pos, {"i", "I"})
        /\ LetterAt(local.lo, k, {"m"}) = LetterAt(local.lo, pos, {"m"})
        /\ LetterAt(local.lo, k, {"x"}) = LetterAt(local.lo, pos, {"x"})
        /\ LetterAt(local.lo, k, {"v", "I"}) = LetterAt(local.lo, pos, {"v", "I"})
        /\ LetterAt(local.lo, k, {"T"}) = LetterAt(local.lo, pos, {"T"})
        /\ FoldAt(local.lo, k, m, {"S", "F"}) = FoldAt(local.lo, pos, m, {"S", "F"})
        /\ FoldAt(local.lo, k, m, {"A"}) = FoldAt(local.lo, pos, m, {"A"})
    BY <1>8
  <2> QED BY <1>2, <2>1, Zenon DEF AsRead
<1>10. k \in Nat /\ k >= l.lo + 2 /\ l.positive = (m = k + 1)
  <2>1. (m = k + 1) = FALSE
    BY <1>7
  <2>2. k \in Nat /\ k >= l.lo + 2
    BY <1>3, <1>5, <1>6
  <2> QED BY <1>5, <2>1, <2>2
<1> QED BY <1>1, <1>3, <1>5, <1>6, <1>7, <1>9, <1>10, StillReading


(* The end of the group: the token says what its letters say.                *)
LEMMA OptionRead ==
  ASSUME LexerInv, OptionsRead, pc = "option", Peek \in {":", ")"}, NEW type,
         Emit(1, type, local.option)
  PROVE  OptionsRead'
<1>1. PICK m : IsMinus(local.lo, pos, m) /\ AsRead(local.option, local.lo, pos, m)
  BY DEF OptionsRead, OptionBeing
<1>2. /\ pos \in Nat /\ local.lo \in Nat /\ pos >= local.lo + 2 /\ local.option \in Options
      /\ options \in Options /\ saved \in Seq(Options)
  BY DEF OptionsRead, OptionBeing, OptionsTyped, LexerInv, Located
<1>3. /\ tok'.lo = local.lo /\ tok'.hi = pos + 1 /\ tok'.data = local.option /\ tok'.type = type
      /\ pc' = "idle" /\ pattern' = pattern /\ options' = options /\ saved' = saved
  BY DEF Emit, EmitAt, EmitReleasing, ParserVars, InputVars
<1>4. pattern[pos + 1] # "-"
  BY DEF Peek
<1>5. OptionsTyped' /\ OptionBeing'
  BY <1>2, <1>3 DEF OptionsTyped, OptionBeing
<1>6. PICK lo, k : lo = local.lo /\ k = pos
  OBVIOUS
<1>7. Minus' = m
  <2> DEFINE all == {i \in lo + 3 .. k + 1 : pattern[i] = "-"}
  <2>1. Minus' = IF all = {} THEN k + 1 ELSE CHOOSE i \in all : \A j \in all : i <= j
    BY <1>3, <1>6 DEF Minus
  <2>2. /\ m \in lo + 3 .. k + 1 /\ (m <= k => pattern[m] = "-") /\ pattern[k + 1] # "-"
        /\ \A i \in lo + 3 .. m - 1 : pattern[i] # "-"
    BY <1>1, <1>4, <1>6 DEF IsMinus
  <2>3. CASE m = k + 1
    <3>1. all = {}
      BY <1>2, <1>6, <2>2, <2>3
    <3> QED BY <2>1, <2>3, <3>1
  <2>4. CASE m <= k
    <3>1. m \in all
      BY <1>2, <1>6, <2>2, <2>4
    <3>2. \A j \in all : m <= j
      BY <1>2, <1>6, <2>2
    <3>3. \A i \in all : i <= m => i = m
      BY <1>2, <1>6, <2>2, <3>2
    <3> HIDE DEF all
    <3>4. \A i \in all : (\A j \in all : i <= j) <=> i = m
      BY <3>1, <3>2, <3>3
    <3>5. (CHOOSE i \in all : \A j \in all : i <= j) = m
      BY <3>1, <3>4
    <3> QED BY <2>1, <3>1, <3>5
  <2> QED BY <1>2, <1>6, <2>2, <2>3, <2>4
<1>8. /\ \A letters : LastLetter(letters)' = LetterAt(lo, k, letters)
      /\ \A letters : LastFold(letters)' = FoldAt(lo, k, m, letters)
      /\ \A at, before : IsOn(at, before)' = OnFrom(at, m, before)
  <2>1. k + 1 - 1 = k
    BY <1>2, <1>6
  <2>2. (tok.lo + 3 .. tok.hi - 1)' = lo + 3 .. k
    BY <1>2, <1>3, <1>6
  <2>3. ASSUME NEW letters PROVE LastLetter(letters)' = LetterAt(lo, k, letters)
    <3>1. {i \in tok.lo + 3 .. tok.hi - 1 : pattern[i] \in letters}'
            = {i \in lo + 3 .. k : pattern[i] \in letters}
      BY <1>3, <2>2
    <3> QED BY <3>1 DEF LastLetter, LetterAt
  <2>4. ASSUME NEW letters PROVE LastFold(letters)' = FoldAt(lo, k, m, letters)
    BY <1>3, <1>7, <2>2 DEF LastFold, FoldAt
  <2>5. ASSUME NEW at, NEW before PROVE IsOn(at, before)' = OnFrom(at, m, before)
    BY <1>7, Zenon DEF IsOn, OnFrom
  <2> QED BY <2>3, <2>4, <2>5
<1>9. PICK o : o = local.option
  OBVIOUS
<1>10. AsRead(o, lo, k, m) /\ tok'.data = o
  BY <1>1, <1>3, <1>6, <1>9
<1>11. OptionsAsWritten'
  BY <1>3, <1>8, <1>10, Zenon DEF OptionsAsWritten, AsRead, HasToken
<1> QED BY <1>5, <1>11 DEF OptionsRead

LEMMA OptionStep ==
  ASSUME LexerInv, LexerInv', OptionsRead, LexOption
  PROVE  OptionsRead'
<1>1. CASE At("option", OptionSymbols \ {"-", ":"}) /\ (Peek \in NonBoolean => local.positive)
           /\ Advance(1, "option", [local EXCEPT !.option = Switched(@, Peek, local.positive)])
  BY <1>1, LetterRead
<1>2. CASE /\ At("option", {"-"})
           /\ Warn(~local.positive, "REDUNDANT_GROUP_OPTION_MINUS", 1, "option",
                   [local EXCEPT !.positive = Negated(@)])
  BY <1>2, MinusRead
<1>3. CASE At("option", {":"}) /\ Emit(1, "OPTION_GROUP_OPEN", local.option)
  BY <1>3, OptionRead DEF At
<1>4. CASE At("option", {")"}) /\ Emit(1, "OPTION", local.option)
  BY <1>4, OptionRead DEF At
<1>5. CASE \/ At("option", {"END"}) /\ Incomplete(0)
           \/ /\ At("option", NonBoolean) /\ ~local.positive
              /\ FailAt(pos, "NON_BOOLEAN_GROUP_OPTION", Span(pos, pos + 1))
           \/ /\ Other("option", OptionSymbols \cup {"END", ")"})
              /\ FailAt(pos, "UNDEFINED_GROUP_OPTION", Span(pos, pos + 1))
  <2>1. Passes
    BY <1>5, GroupPasses DEF Incomplete, Fail
  <2> QED BY <2>1, PassingKeeps
<1> QED BY <1>1, <1>2, <1>3, <1>4, <1>5 DEF LexOption

-----------------------------------------------------------------------------
LEMMA IdleSteps ==
  ASSUME Next, pc = "idle"
  PROVE  Lex
<1>1. ~InvalidBytes /\ ~NumberDigit /\ ~NumberTooLarge /\ ~NumberEnd
  BY DEF InvalidBytes, Decides, NumberDigit, NumberTooLarge, NumberEnd, AtDigit
<1>2. ~LexToken
  BY DEF LexToken, LexEnd, SkipWhitespace, OpenComment, Comment, LexSimple, LexLiteral,
     LexQuantifier, OpenBounds, LexMin, LexComma, LexMax, LexBoundsEnd, LexQuantifierType,
     OpenGroup, LexSpecifier, LexLookbehind, LexCondition, LexConditionClose, LexOption, At, Other
<1>3. ~LexReferences
  BY DEF LexReferences, LexReference, LexSign, LexNumbered, LexDepth, LexClose, LexName,
     TrimName, LexNamed, At, Other
<1>4. ~LexEscapes
  BY DEF LexEscapes, OpenEscape, LexEscapedAssertion, LexEscapedType, LexProperty,
     LexNamedReference, LexBare, LexCommonEscape, LexEscape, LexNumberedByte, LexMeta,
     LexControl, LexBytes, LexUnicode, LexUnicodeNumber, LexBrace, LexBraceNumber, LexBraceNext,
     At, Other
<1> QED BY <1>1, <1>2, <1>3, <1>4 DEF Next

(* The call of lex: the options in force are those of the token before, or   *)
(* at the end of a group those saved where it was opened.                    *)
LEMMA LexStep ==
  ASSUME LexerInv, OptionsRead, Lex
  PROVE  OptionsRead'
<1>1. /\ pc = "idle" /\ pc' \in {"in_brace", "token"} /\ local' = Local(pos)
      /\ options' = IF tok.type = "GROUP_CLOSE" THEN saved[Len(saved)]
                    ELSE IF tok.type \in OptionTokens THEN tok.data ELSE options
      /\ saved' = CASE tok.type \in Opens -> Append(saved, options)
                    [] tok.type = "GROUP_CLOSE" -> SubSeq(saved, 1, Len(saved) - 1)
                    [] OTHER -> saved
      /\ tok.type = "GROUP_CLOSE" => saved # <<>>
  BY DEF Lex, OptionTokens
<1>2. /\ options \in Options /\ saved \in Seq(Options)
      /\ tok.type \in OptionTokens => tok.data \in Options
  BY <1>1 DEF OptionsRead, OptionsTyped
<1>3. options' \in Options
  BY <1>1, <1>2
<1>4. saved' \in Seq(Options)
  <2>1. CASE tok.type \in Opens
    BY <1>1, <1>2, <2>1 DEF Opens, Captures
  <2>2. CASE tok.type = "GROUP_CLOSE"
    BY <1>1, <1>2, <2>2 DEF Opens, Captures
  <2>3. CASE tok.type \notin Opens /\ tok.type # "GROUP_CLOSE"
    BY <1>1, <1>2, <2>3
  <2> QED BY <2>1, <2>2, <2>3
<1>5. OptionsTyped' /\ OptionsAsWritten'
  BY <1>1, <1>3, <1>4 DEF OptionsTyped, OptionsAsWritten, HasToken
<1>6. OptionBeing'
  BY <1>1 DEF OptionBeing, Local, LexerInv, Located
<1> QED BY <1>5, <1>6 DEF OptionsRead

(* lex_impl, option groups: for every pattern, the token of an option group  *)
(* says of each option what its last letter says, on before the first minus  *)
(* and off after it, and without a letter what it is outside the group.      *)
THEOREM OptionsAreRead == Spec => []OptionsAsWritten
<1>1. LexerInv /\ Init => OptionsRead
  <2> SUFFICES ASSUME LexerInv, Init PROVE OptionsRead
    OBVIOUS
  <2>1. options \in Options /\ saved \in Seq(Options)
    BY LexerAssumption DEF Init
  <2> QED BY <2>1 DEF Init, OptionsRead, OptionsTyped, OptionBeing, OptionsAsWritten, HasToken, Local
<1>2. LexerInv /\ LexerInv' /\ OptionsRead /\ [Next]_vars => OptionsRead'
  <2> SUFFICES ASSUME LexerInv, LexerInv', OptionsRead, [Next]_vars PROVE OptionsRead'
    OBVIOUS
  <2>1. CASE UNCHANGED vars
    <3>1. PICK l, p : l = local /\ p = pos
      OBVIOUS
    <3>2. CASE pc = "option"
      <4>1. PICK m \in Nat : /\ IsMinus(l.lo, p, m) /\ l.positive = (m = p + 1)
                             /\ AsRead(l.option, l.lo, p, m)
        <5>1. \E m : /\ IsMinus(l.lo, p, m) /\ l.positive = (m = p + 1)
                     /\ AsRead(l.option, l.lo, p, m) /\ m \in Nat
          BY <3>1, <3>2 DEF OptionsRead, OptionBeing
        <5> QED BY <5>1
      <4>2. /\ {"option", "positive"} \subseteq DOMAIN l /\ l.lo \in Nat /\ p >= l.lo + 2
            /\ l.option \in Options /\ p \in Nat
        BY <3>1, <3>2 DEF OptionsRead, OptionBeing, LexerInv, Located
      <4>3. /\ local' = l /\ pos' = p /\ pc' = "option" /\ pattern' = pattern
            /\ options' = options /\ saved' = saved
        BY <2>1, <3>1, <3>2 DEF vars, ParserVars, InputVars
      <4> QED BY <4>1, <4>2, <4>3, StillReading
    <3>3. CASE pc # "option"
      <4>1. OptionsTyped' /\ OptionsAsWritten'
        BY <2>1 DEF OptionsRead, OptionsTyped, OptionsAsWritten, HasToken, IsOn, LastLetter, LastFold,
           Minus, vars, ParserVars, InputVars
      <4>2. OptionBeing'
        BY <2>1, <3>3 DEF OptionsRead, OptionBeing, vars, ParserVars, InputVars
      <4> QED BY <4>1, <4>2 DEF OptionsRead
    <3> QED BY <3>2, <3>3
  <2>2. CASE Next /\ pc \notin OfOptions \cup {"idle"} /\ ~OpenGroup
    <3>1. HasShape(local) /\ (pc = "number" => local.number.after \in Afters)
      BY DEF LexerInv, Located
    <3> QED BY <2>2, <3>1, StepPasses, PassingKeeps
  <2>3. CASE OpenGroup
    BY <2>3, OpenGroupKeeps
  <2>4. CASE Next /\ pc \in OfOptions
    <3>1. InvalidBytes => Passes
      BY GroupPasses DEF InvalidBytes, FailReleasing, Passes, OfOptions, ParserVars, InputVars
    <3> QED BY <2>3, <2>4, <3>1, OptionPoints, SpecifierKeeps, OptionStep, PassingKeeps
  <2>5. CASE Next /\ pc = "idle"
    <3>1. Lex
      BY <2>5, IdleSteps
    <3> QED BY <3>1, LexStep
  <2> QED BY <2>1, <2>2, <2>3, <2>4, <2>5
<1>3. OptionsRead => OptionsAsWritten
  BY DEF OptionsRead
<1>4. Spec => []LexerInv
  BY LexerInvariant
<1> QED BY <1>1, <1>2, <1>3, <1>4, PTL DEF Spec

-----------------------------------------------------------------------------
(* The value of digits, one digit at a time.                                 *)
IsValue(f, lo, hi, base) ==
  f = [i \in lo .. hi |-> IF i = lo THEN 0 ELSE f[i - 1] * base + DigitValue(pattern[i])]

LEMMA ValueExists ==
  ASSUME NEW lo \in Nat, NEW n \in Nat, NEW base
  PROVE  \E f : IsValue(f, lo, lo + n, base)
<1> DEFINE T == {k \in Nat : ~\E f : IsValue(f, lo, lo + k, base)}
<1>1. SUFFICES ASSUME T # {} PROVE FALSE
  OBVIOUS
<1>2. PICK k \in T : \A t \in T : k <= t
  BY <1>1, Least
<1>3. CASE k = 0
  <2>1. IsValue([i \in lo .. lo + 0 |-> 0], lo, lo + 0, base)
    BY DEF IsValue
  <2> QED BY <1>3, <2>1
<1>4. CASE k # 0
  <2>1. PICK j \in Nat : k = j + 1
    BY <1>4
  <2>2. j \notin T
    BY <1>2, <2>1
  <2>3. PICK f : IsValue(f, lo, lo + j, base)
    BY <2>2
  <2> DEFINE g == [i \in lo .. lo + k |-> IF i = lo + k THEN f[lo + j] * base + DigitValue(pattern[i])
                                          ELSE f[i]]
  <2>4. /\ DOMAIN f = lo .. lo + j
        /\ \A i \in lo .. lo + j : f[i] = IF i = lo THEN 0
                                          ELSE f[i - 1] * base + DigitValue(pattern[i])
    BY <2>3 DEF IsValue
  <2>5. ASSUME NEW i \in lo .. lo + k
        PROVE  g[i] = IF i = lo THEN 0 ELSE g[i - 1] * base + DigitValue(pattern[i])
    <3>1. CASE i = lo + k
      <4>1. i # lo /\ i - 1 = lo + j /\ i - 1 \in lo .. lo + k /\ i - 1 # lo + k
        BY <2>1, <3>1
      <4>2. g[i - 1] = f[lo + j] /\ g[i] = f[lo + j] * base + DigitValue(pattern[i])
        BY <3>1, <4>1
      <4> QED BY <4>1, <4>2
    <3>2. CASE i # lo + k
      <4>1. i \in lo .. lo + j /\ g[i] = f[i]
        BY <2>1, <3>2
      <4>2. i # lo => i - 1 \in lo .. lo + k /\ g[i - 1] = f[i - 1]
        BY <2>1, <4>1
      <4> HIDE DEF g
      <4> QED BY <2>4, <4>1, <4>2
    <3> QED BY <3>1, <3>2
  <2>6. IsValue(g, lo, lo + k, base)
    BY <2>5 DEF IsValue
  <2> QED BY <2>6
<1> QED BY <1>3, <1>4

LEMMA ValueAgrees ==
  ASSUME NEW lo \in Nat, NEW hi \in Nat, NEW top \in Nat, NEW base,
         NEW f, NEW g, IsValue(f, lo, hi, base), IsValue(g, lo, top, base),
         NEW at \in lo .. hi, at \in lo .. top
  PROVE  f[at] = g[at]
<1> DEFINE T == {j \in Nat : j \in lo .. hi /\ j \in lo .. top /\ f[j] # g[j]}
<1>1. SUFFICES ASSUME T # {} PROVE FALSE
  OBVIOUS
<1>2. PICK j \in T : \A t \in T : j <= t
  BY <1>1, Least
<1>3. /\ \A i \in lo .. hi : f[i] = IF i = lo THEN 0
                                     ELSE f[i - 1] * base + DigitValue(pattern[i])
      /\ \A i \in lo .. top : g[i] = IF i = lo THEN 0
                                      ELSE g[i - 1] * base + DigitValue(pattern[i])
  BY DEF IsValue
<1>4. j # lo
  <2>1. j = lo => f[j] = 0 /\ g[j] = 0
    BY <1>2, <1>3
  <2> QED BY <1>2, <2>1
<1>5. PICK i \in Nat : j = i + 1
  BY <1>2, <1>4
<1>6. f[i] = g[i]
  BY <1>2, <1>4, <1>5
<1>7. j \in lo .. hi /\ j \in lo .. top /\ j - 1 = i
  BY <1>2, <1>5
<1>8. f[j] = f[i] * base + DigitValue(pattern[j])
  BY <1>3, <1>4, <1>7
<1>9. g[j] = g[i] * base + DigitValue(pattern[j])
  BY <1>3, <1>4, <1>7
<1> QED BY <1>2, <1>6, <1>8, <1>9

LEMMA ValueIs ==
  ASSUME NEW lo, NEW hi, NEW base, NEW f, IsValue(f, lo, hi, base)
  PROVE  \E g : IsValue(g, lo, hi, base) /\ Value(lo, hi, base) = g[hi]
BY DEF Value, IsValue

LEMMA ValueOfNone ==
  ASSUME NEW lo \in Nat, NEW base
  PROVE  Value(lo, lo, base) = 0
<1>1. PICK f : IsValue(f, lo, lo + 0, base)
  BY ValueExists
<1>2. PICK g : IsValue(g, lo, lo, base) /\ Value(lo, lo, base) = g[lo]
  BY <1>1, ValueIs
<1> QED BY <1>2 DEF IsValue

LEMMA ValueOfNext ==
  ASSUME NEW lo \in Nat, NEW k \in Nat, lo <= k, NEW l, l = k + 1, NEW base
  PROVE  Value(lo, l, base) = Value(lo, k, base) * base + DigitValue(pattern[l])
<1>1. PICK n \in Nat : k = lo + n
  BY k - lo \in Nat, k = lo + (k - lo)
<1>2. PICK f : IsValue(f, lo, k, base) /\ Value(lo, k, base) = f[k]
  <2>1. PICK h : h = lo + n
    OBVIOUS
  <2>2. PICK f1 : IsValue(f1, lo, h, base)
    BY <2>1, ValueExists
  <2> QED BY <1>1, <2>1, <2>2, ValueIs
<1>3. PICK m \in Nat : m = n + 1 /\ l = lo + m
  BY <1>1
<1>4. PICK g : IsValue(g, lo, l, base) /\ Value(lo, l, base) = g[l]
  <2>1. PICK h : h = lo + m
    OBVIOUS
  <2>2. PICK f1 : IsValue(f1, lo, h, base)
    BY <2>1, ValueExists
  <2>3. h = l
    BY <1>3, <2>1
  <2> QED BY <2>2, <2>3, ValueIs
<1>5. f[k] = g[k]
  <2>1. l \in Nat /\ k \in lo .. k /\ k \in lo .. l
    OBVIOUS
  <2> QED BY <1>2, <1>4, <2>1, ValueAgrees
<1>6. l \in lo .. l /\ l # lo /\ l - 1 = k
  BY <1>1, <1>3
<1>7. g[l] = g[l - 1] * base + DigitValue(pattern[l])
  BY <1>4, <1>6 DEF IsValue
<1> QED BY <1>2, <1>4, <1>5, <1>6, <1>7


-----------------------------------------------------------------------------
(* Which text is a quantifier.                                               *)
CommaSign == ","
LeftBrace == "{"
RightBrace == "}"

LEMMA Braces ==
  /\ RightBrace \notin Decimal /\ RightBrace # CommaSign /\ CommaSign \notin Decimal
  /\ LeftBrace # RightBrace
BY Zenon DEF CommaSign, LeftBrace, RightBrace, Decimal, Octal

IsBody(open, close) ==
  \/ open < close /\ All(open, close, Decimal)
  \/ \E comma \in open .. close - 1 :
       /\ pattern[comma + 1] = CommaSign
       /\ All(open, comma, Decimal) /\ All(comma + 1, close, Decimal)
       /\ open < comma \/ comma + 1 < close

LEMMA BoundsAre ==
  ASSUME NEW open, NEW close
  PROVE  IsBounds(open, close) <=> pattern[close + 1] = RightBrace /\ IsBody(open, close)
BY Zenon DEF IsBounds, IsBody, RightBrace, CommaSign

LEMMA BoundsText ==
  ASSUME NEW open \in Nat, NEW close \in Nat, open <= close, IsBounds(open, close)
  PROVE  \A i \in open + 1 .. close : pattern[i] \in Decimal \cup {CommaSign}
<1>1. CASE All(open, close, Decimal)
  BY <1>1 DEF All
<1>2. ASSUME NEW comma \in open .. close - 1, pattern[comma + 1] = CommaSign,
             All(open, comma, Decimal), All(comma + 1, close, Decimal)
      PROVE  \A i \in open + 1 .. close : pattern[i] \in Decimal \cup {CommaSign}
  <2>1. ASSUME NEW i \in open + 1 .. close PROVE pattern[i] \in Decimal \cup {CommaSign}
    <3>1. i \in open + 1 .. comma \/ i = comma + 1 \/ i \in comma + 1 + 1 .. close
      OBVIOUS
    <3> QED BY <1>2, <3>1 DEF All
  <2> QED BY <2>1
<1> QED BY <1>1, <1>2, BoundsAre DEF IsBody

LEMMA BoundsUnique ==
  ASSUME NEW open \in Nat, NEW c \in Nat, NEW d \in Nat, open <= c, open <= d,
         IsBounds(open, c), IsBounds(open, d)
  PROVE  c = d
<1>1. RightBrace \notin Decimal \cup {CommaSign}
  BY Braces
<1>2. pattern[c + 1] = RightBrace /\ pattern[d + 1] = RightBrace
  BY BoundsAre
<1>3. /\ \A i \in open + 1 .. c : pattern[i] \in Decimal \cup {CommaSign}
      /\ \A i \in open + 1 .. d : pattern[i] \in Decimal \cup {CommaSign}
  BY BoundsText
<1>4. ~(c < d)
  <2>1. c < d => c + 1 \in open + 1 .. d
    OBVIOUS
  <2> QED BY <1>1, <1>2, <1>3, <2>1
<1>5. ~(d < c)
  <2>1. d < c => d + 1 \in open + 1 .. c
    OBVIOUS
  <2> QED BY <1>1, <1>2, <1>3, <2>1
<1> QED BY <1>4, <1>5

(* Digits up to p, and there neither a digit nor a comma nor, after a digit, *)
(* the end of the brace.                                                     *)
LEMMA NoBoundsAfterDigits ==
  ASSUME NEW open \in Nat, NEW p \in Nat, open <= p, All(open, p, Decimal),
         NEW n \in Nat, p < n => pattern[p + 1] \notin Decimal \cup {CommaSign}
                                             \cup (IF open = p THEN {} ELSE {RightBrace}),
         NEW close \in Nat, open <= close, close < n
  PROVE  ~IsBounds(open, close)
<1> SUFFICES ASSUME IsBounds(open, close) PROVE FALSE
  OBVIOUS
<1>1. RightBrace \notin Decimal
  BY Braces
<1>2. pattern[close + 1] = RightBrace
  BY BoundsAre
<1>3. p <= close
  <2>1. close < p => close + 1 \in open + 1 .. p
    OBVIOUS
  <2> QED BY <1>1, <1>2, <2>1 DEF All
<1>4. pattern[p + 1] \notin Decimal \cup {CommaSign} \cup (IF open = p THEN {} ELSE {RightBrace})
  BY <1>3
<1>5. p < close
  <2>1. ASSUME p = close PROVE FALSE
    <3>1. open = p
      BY <1>2, <1>4, <2>1
    <3>2. ~\E comma \in open .. close - 1 : TRUE
      BY <2>1, <3>1
    <3> QED BY <2>1, <3>1, <3>2, BoundsAre DEF IsBody
  <2> QED BY <1>3, <2>1
<1>6. p + 1 \in open + 1 .. close
  BY <1>5
<1> QED BY <1>4, <1>6, BoundsText

(* Digits, a comma at c, digits up to p, and there neither a digit nor the   *)
(* end of the brace, unless there is no digit at all.                        *)
LEMMA NoBoundsAfterComma ==
  ASSUME NEW open \in Nat, NEW c \in Nat, NEW p \in Nat, open <= c, c < p,
         All(open, c, Decimal), pattern[c + 1] = CommaSign, All(c + 1, p, Decimal),
         NEW n \in Nat, p < n => /\ pattern[p + 1] \notin Decimal
                                 /\ pattern[p + 1] = RightBrace => open = c /\ p = c + 1,
         NEW close \in Nat, open <= close, close < n
  PROVE  ~IsBounds(open, close)
<1> SUFFICES ASSUME IsBounds(open, close) PROVE FALSE
  OBVIOUS
<1>1. RightBrace \notin Decimal /\ CommaSign \notin Decimal /\ RightBrace # CommaSign
  BY Braces
<1>2. pattern[close + 1] = RightBrace
  BY BoundsAre
<1>3. p <= close
  <2>1. close < p => \/ close + 1 \in open + 1 .. c \/ close + 1 = c + 1
                     \/ close + 1 \in c + 1 + 1 .. p
    OBVIOUS
  <2>2. CASE close + 1 \in open + 1 .. c
    BY <1>1, <1>2, <2>2 DEF All
  <2>3. CASE close + 1 = c + 1
    BY <1>1, <1>2, <2>3
  <2>4. CASE close + 1 \in c + 1 + 1 .. p
    BY <1>1, <1>2, <2>4 DEF All
  <2> QED BY <2>1, <2>2, <2>3, <2>4
<1>4. /\ pattern[p + 1] \notin Decimal
      /\ pattern[p + 1] = RightBrace => open = c /\ p = c + 1
  <2>1. p < n
    BY <1>3
  <2> QED BY <2>1
<1>5. ~All(open, close, Decimal)
  <2>1. c + 1 \in open + 1 .. close
    BY <1>3
  <2> QED BY <1>1, <2>1 DEF All
<1>6. PICK d \in open .. close - 1 :
        /\ pattern[d + 1] = CommaSign /\ All(open, d, Decimal) /\ All(d + 1, close, Decimal)
        /\ open < d \/ d + 1 < close
  BY <1>5, BoundsAre DEF IsBody
<1>7. d = c
  <2>1. ~(c < d)
    <3>1. c < d => c + 1 \in open + 1 .. d
      OBVIOUS
    <3> QED BY <1>1, <1>6, <3>1 DEF All
  <2>2. ~(d < c)
    <3>1. d < c => d + 1 \in open + 1 .. c
      OBVIOUS
    <3> QED BY <1>1, <1>6, <3>1 DEF All
  <2> QED BY <2>1, <2>2
<1>8. p = close
  <2>1. p < close => p + 1 \in c + 1 + 1 .. close
    OBVIOUS
  <2> QED BY <1>3, <1>4, <1>6, <1>7, <2>1 DEF All
<1> QED BY <1>2, <1>4, <1>6, <1>7, <1>8

LEMMA CommaIsThere ==
  ASSUME NEW open, NEW close, NEW c \in open .. close,
         \A d \in open .. close :
           All(open, d, Decimal) /\ (d = close \/ pattern[d + 1] = CommaSign) <=> d = c
  PROVE  CommaOf(open, close) = c
BY Zenon DEF CommaOf, CommaSign

LEMMA CommaIs ==
  ASSUME NEW open \in Nat, NEW c \in Nat, NEW close \in Nat, open <= c, c <= close,
         All(open, c, Decimal), c = close \/ pattern[c + 1] = CommaSign
  PROVE  CommaOf(open, close) = c
<1>1. CommaSign \notin Decimal
  BY Braces
<1>2. ASSUME NEW d \in open .. close, All(open, d, Decimal), d = close \/ pattern[d + 1] = CommaSign
      PROVE  d = c
  <2>1. ~(c < d)
    <3>1. c < d => c + 1 \in open + 1 .. d /\ c # close
      OBVIOUS
    <3> QED BY <1>1, <1>2, <3>1 DEF All
  <2>2. ~(d < c)
    <3>1. d < c => d + 1 \in open + 1 .. c /\ d # close
      OBVIOUS
    <3> QED BY <1>1, <1>2, <3>1 DEF All
  <2> QED BY <2>1, <2>2
<1>3. c \in open .. close
  OBVIOUS
<1>4. \A d \in open .. close :
        All(open, d, Decimal) /\ (d = close \/ pattern[d + 1] = CommaSign) <=> d = c
  BY <1>2, <1>3
<1> QED BY <1>3, <1>4, CommaIsThere


-----------------------------------------------------------------------------
(* A quantifier being read: the digits, and what the locals hold of them.    *)
BoundsFields == {"lo", "number", "min", "max", "has_max", "explicit", "allows_reluctant"}
NumberFields == {"base", "most", "error", "after", "value", "digits"}

NotDigit(p) == p < Len(pattern) => pattern[p + 1] \notin Decimal

(* A number that began at lo.                                                *)
Digits(lo, p, n) ==
  /\ lo <= p /\ All(lo, p, Decimal)
  /\ NumberFields \subseteq DOMAIN n
  /\ n.base = 10 /\ n.most = Len(pattern) /\ n.error # "INTERNAL_ERROR"
  /\ n.digits = p - lo /\ n.value = Value(lo, p, 10)
  /\ p = lo => ~NotDigit(p)

Before(l, c) ==
  /\ c \in Nat /\ l.lo + 1 <= c /\ All(l.lo + 1, c, Decimal)
  /\ l.allows_reluctant = TRUE

(* The comma stands behind c characters.                                     *)
Comma(l, c) ==
  /\ Before(l, c) /\ pattern[c + 1] = CommaSign
  /\ l.min = Value(l.lo + 1, c, 10)
  /\ l.explicit = (l.lo + 1 < c)

(* The bounds end at p, with a comma behind c characters or without one.     *)
Bounded(l, c, p) ==
  /\ c \in Nat /\ l.lo + 1 <= c /\ c <= p /\ All(l.lo + 1, c, Decimal)
  /\ c < p => pattern[c + 1] = CommaSign /\ All(c + 1, p, Decimal)
  /\ l.lo + 1 < c \/ c + 1 < p
  /\ l.min = Value(l.lo + 1, c, 10)
  /\ l.has_max = (c = p \/ c + 1 < p)
  /\ c = p => l.max = l.min
  /\ c + 1 < p => l.max = Value(c + 1, p, 10)
  /\ l.allows_reluctant => c < p

BoundsAt(where, l, p) ==
  /\ where \in InBounds \cup {"token", "greed"} => BoundsFields \subseteq DOMAIN l
  /\ where \in {"token", "bounds"} =>
       l.explicit = FALSE /\ l.has_max = FALSE /\ l.min = 0 /\ l.allows_reluctant = TRUE
  /\ where = "bounds" => p = l.lo + 1
  /\ where = "min" => /\ Before(l, p) /\ l.lo + 1 < p /\ NotDigit(p)
                      /\ l.number.value = Value(l.lo + 1, p, 10)
                      /\ l.explicit = TRUE /\ l.has_max = FALSE
  /\ where = "comma" => \E c : Comma(l, c) /\ p = c + 1 /\ l.has_max = FALSE
  /\ where = "max" => \E c : /\ Comma(l, c) /\ l.has_max = TRUE
                             /\ c + 1 < p /\ All(c + 1, p, Decimal) /\ NotDigit(p)
                             /\ l.number.value = Value(c + 1, p, 10)
  /\ where = "bounds_end" => \E c : /\ Bounded(l, c, p) /\ NotDigit(p)
                                    /\ c = p /\ p < Len(pattern) => pattern[p + 1] # CommaSign
  /\ where = "greed" /\ pattern[l.lo + 1] = LeftBrace =>
       /\ l.lo \in Nat
       /\ \E c, q : /\ Bounded(l, c, q) /\ q \in Nat /\ p = q + 1 /\ pattern[q + 1] = RightBrace
                    /\ l.has_max => l.min <= l.max

NumberAt(after, l, p) ==
  /\ after \in {"min", "max"} => BoundsFields \subseteq DOMAIN l
  /\ after = "min" => /\ l.explicit = TRUE /\ l.has_max = FALSE /\ l.allows_reluctant = TRUE
                      /\ Digits(l.lo + 1, p, l.number)
  /\ after = "max" => \E c : Comma(l, c) /\ l.has_max = TRUE /\ Digits(c + 1, p, l.number)

(* Everything else begins with another character, except a code point in a   *)
(* brace, which must still turn out to be one.                               *)
Pending(where, l, p) ==
  /\ where \in {"in_brace", "brace_number"} \/ (where = "number" /\ l.number.after = "brace_number")
  /\ p = l.lo
  /\ where # "in_brace" => l.number.digits = 0

Elsewise(where, l, p) ==
  where \notin {"idle", "failed", "token", "greed"} \cup InBounds
    /\ ~(where = "number" /\ l.number.after \in {"min", "max"}) =>
    pattern[l.lo + 1] # LeftBrace \/ Pending(where, l, p)

BoundsBeing ==
  /\ pattern \in Seq(Symbols)
  /\ BoundsAt(pc, local, pos)
  /\ pc = "number" => NumberAt(local.number.after, local, pos)
  /\ Elsewise(pc, local, pos)

(* The token of a brace: a character, or a quantifier.                       *)
LiteralRead ==
  /\ tok.type = "LITERAL" /\ tok.hi = tok.lo + 1
  /\ \A close \in tok.lo + 1 .. Len(pattern) - 1 : ~IsBounds(tok.lo + 1, close)

QuantifierRead(open, comma, close) ==
  /\ open = tok.lo + 1 /\ close \in open .. Len(pattern) - 1
  /\ \A d \in open .. Len(pattern) - 1 : IsBounds(open, d) <=> d = close
  /\ CommaOf(open, close) = comma
  /\ tok.type = "QUANTIFIER"
  /\ tok.data.min = Value(open, comma, 10)
  /\ tok.data.has_max = (comma = close \/ comma + 1 < close)
  /\ tok.data.has_max =>
       /\ tok.data.min <= tok.data.max
       /\ tok.data.max = IF comma = close THEN tok.data.min ELSE Value(comma + 1, close, 10)
  /\ <<tok.data.type, Text(close + 1, tok.hi)>> \in Suffixes
  /\ tok.data.type = "RELUCTANT" => comma < close

HasQuantifier == \E open, comma, close : QuantifierRead(open, comma, close)

TokenBeing ==
  pc = "idle" =>
    tok.type = "END" \/ pattern[tok.lo + 1] # LeftBrace \/ LiteralRead \/ HasQuantifier

BoundsRead == BoundsBeing /\ TokenBeing


(* None of this depends on anything but the pattern, which does not change.  *)
LEMMA SameValue ==
  ASSUME NEW lo, NEW hi, NEW base, pattern' = pattern, encoding' = encoding
  PROVE  Value(lo, hi, base)' = Value(lo, hi, base)
BY DEF Value, DigitValue, Code

LEMMA SameAll ==
  ASSUME NEW lo, NEW hi, NEW symbols, pattern' = pattern
  PROVE  All(lo, hi, symbols)' = All(lo, hi, symbols)
BY DEF All

LEMMA SameDigits ==
  ASSUME NEW lo, NEW p, NEW n, pattern' = pattern, encoding' = encoding
  PROVE  /\ Digits(lo, p, n)' = Digits(lo, p, n)
         /\ NotDigit(p)' = NotDigit(p)
BY SameValue, SameAll DEF Digits, NotDigit

LEMMA SameComma ==
  ASSUME NEW l, NEW c, pattern' = pattern, encoding' = encoding
  PROVE  /\ Before(l, c)' = Before(l, c)
         /\ Comma(l, c)' = Comma(l, c)
BY SameValue, SameAll DEF Before, Comma

LEMMA SameBounded ==
  ASSUME NEW l, NEW c, NEW p, pattern' = pattern, encoding' = encoding
  PROVE  Bounded(l, c, p)' = Bounded(l, c, p)
BY SameValue, SameAll DEF Bounded

LEMMA SameBounds ==
  ASSUME NEW where, NEW l, NEW p, pattern' = pattern, encoding' = encoding
  PROVE  /\ BoundsAt(where, l, p)' = BoundsAt(where, l, p)
         /\ NumberAt(where, l, p)' = NumberAt(where, l, p)
         /\ Elsewise(where, l, p)' = Elsewise(where, l, p)
<1>1. NumberAt(where, l, p)' = NumberAt(where, l, p)
  BY SameDigits, SameComma DEF NumberAt
<1>2. Elsewise(where, l, p)' = Elsewise(where, l, p)
  BY DEF Elsewise, Pending
<1>3. BoundsAt(where, l, p)' = BoundsAt(where, l, p)
  BY SameDigits, SameComma, SameBounded, SameValue, SameAll DEF BoundsAt
<1> QED BY <1>1, <1>2, <1>3


-----------------------------------------------------------------------------
(* The steps that have nothing to do with quantifiers.                       *)
Outside ==
  /\ UNCHANGED <<encoding, pattern>>
  /\ pc' \notin InBounds \cup {"greed"}
  /\ pc' = "token" => local' = Local(pos')
  /\ pc' = "number" => local'.number.after \notin {"min", "max"}
  /\ pc' \notin {"idle", "token", "failed"} =>
       pattern[local'.lo + 1] # LeftBrace \/ Pending(pc', local', pos')
  /\ pc' = "idle" => tok'.type = "END" \/ pattern[tok'.lo + 1] # LeftBrace

LEMMA OutsideKeeps ==
  ASSUME BoundsBeing, Outside
  PROVE  BoundsRead'
<1>1. pattern' \in Seq(Symbols)
  BY DEF BoundsBeing, Outside
<1>2. BoundsAt(pc, local, pos)'
  <2>1. pc' = "token" => local' = Local(pos')
    BY DEF Outside
  <2>2. CASE pc' = "token"
    <3>1. BoundsFields \subseteq DOMAIN local'
      BY <2>1, <2>2 DEF Local, BoundsFields
    <3>2. /\ local'.explicit = FALSE /\ local'.has_max = FALSE /\ local'.min = 0
          /\ local'.allows_reluctant = TRUE
      BY <2>1, <2>2 DEF Local
    <3> QED BY <2>2, <3>1, <3>2, Zenon DEF BoundsAt
  <2>3. CASE pc' # "token"
    <3>1. pc' \notin InBounds \cup {"greed"}
      BY DEF Outside
    <3> QED BY <2>3, <3>1 DEF BoundsAt, InBounds
  <2> QED BY <2>2, <2>3
<1>3. (pc = "number" => NumberAt(local.number.after, local, pos))'
  BY DEF Outside, NumberAt
<1>4. Elsewise(pc, local, pos)'
  BY DEF Outside, Elsewise, Pending
<1>5. TokenBeing'
  BY DEF Outside, TokenBeing
<1> QED BY <1>1, <1>2, <1>3, <1>4, <1>5 DEF BoundsRead, BoundsBeing


(* A brace left open, and a code point in it; and after an error nothing.    *)
LEMMA BracePoints ==
  ASSUME Next
  PROVE  /\ pc # "failed"
         /\ pc = "in_brace" => LexBrace \/ InvalidBytes
         /\ pc = "brace_number" => LexBraceNumber \/ InvalidBytes
<1>1. pc \in {"failed", "in_brace", "brace_number"} =>
        ~Lex /\ ~NumberDigit /\ ~NumberTooLarge /\ ~NumberEnd
  BY DEF Lex, NumberDigit, NumberTooLarge, NumberEnd, AtDigit
<1>2. pc \in {"failed", "in_brace", "brace_number"} => ~LexToken
  BY DEF LexToken, LexEnd, SkipWhitespace, OpenComment, Comment, LexSimple, LexLiteral,
     LexQuantifier, OpenBounds, LexMin, LexComma, LexMax, LexBoundsEnd, LexQuantifierType,
     OpenGroup, LexSpecifier, LexLookbehind, LexCondition, LexConditionClose, LexOption, At, Other
<1>3. pc \in {"failed", "in_brace", "brace_number"} => ~LexReferences
  BY DEF LexReferences, LexReference, LexSign, LexNumbered, LexDepth, LexClose, LexName,
     TrimName, LexNamed, At, Other
<1>4. /\ pc = "failed" => ~LexEscapes
  BY DEF LexEscapes, OpenEscape, LexEscapedAssertion, LexEscapedType, LexProperty,
     LexNamedReference, LexBare, LexCommonEscape, LexEscape, LexNumberedByte, LexMeta,
     LexControl, LexBytes, LexUnicode, LexUnicodeNumber, LexBrace, LexBraceNumber, LexBraceNext, At, Other
<1>5. /\ pc = "in_brace" => (LexEscapes => LexBrace)
  BY DEF LexEscapes, OpenEscape, LexEscapedAssertion, LexEscapedType, LexProperty,
     LexNamedReference, LexBare, LexCommonEscape, LexEscape, LexNumberedByte, LexMeta,
     LexControl, LexBytes, LexUnicode, LexUnicodeNumber, LexBraceNumber, LexBraceNext, At, Other
<1>6. /\ pc = "brace_number" => (LexEscapes => LexBraceNumber)
  BY DEF LexEscapes, OpenEscape, LexEscapedAssertion, LexEscapedType, LexProperty,
     LexNamedReference, LexBare, LexCommonEscape, LexEscape, LexNumberedByte, LexMeta,
     LexControl, LexBytes, LexUnicode, LexUnicodeNumber, LexBrace, LexBraceNext, At, Other
<1>7. pc = "failed" => ~InvalidBytes
  BY DEF InvalidBytes, Decides
<1> QED BY <1>1, <1>2, <1>3, <1>4, <1>5, <1>6, <1>7 DEF Next

LEMMA PendingSteps ==
  ASSUME LexerInv, Next, Pending(pc, local, pos), pc # "number"
  PROVE  \/ pc' = "failed"
         \/ pc' = "number" /\ Pending(pc', local', pos')
<1>1. InvalidBytes => pc' = "failed"
  BY DEF InvalidBytes, FailReleasing
<1>2. CASE pc = "in_brace"
  <2>1. LexBrace => Read(0, BraceNumber, local)
    BY <1>2 DEF LexBrace, At, Other
  <2>2. ASSUME Read(0, BraceNumber, local)
        PROVE  pc' = "number" /\ pos' = pos /\ local'.lo = local.lo
               /\ local'.number.after = "brace_number" /\ local'.number.digits = 0
    <3>1. PICK n : n = [BraceNumber EXCEPT !.lo = pos + 0]
      OBVIOUS
    <3>2. n.after = "brace_number" /\ n.digits = 0
      BY <3>1 DEF BraceNumber, Number
    <3>3. pc' = "number" /\ pos' = pos + 0 /\ local' = [local EXCEPT !.number = n]
      BY <2>2, <3>1 DEF Read, Advance
    <3>4. pos \in Nat /\ {"number", "lo"} \subseteq DOMAIN local
      BY DEF LexerInv, Located, HasShape, Fields
    <3>5. local'.number = n /\ local'.lo = local.lo
      BY <3>3, <3>4
    <3> QED BY <3>2, <3>3, <3>4, <3>5
  <2>3. InvalidBytes \/ LexBrace
    BY <1>2, BracePoints
  <2>4. pos = local.lo
    BY DEF Pending
  <2>5. CASE LexBrace
    <3>1. Pending(pc', local', pos')
      BY <2>1, <2>2, <2>4, <2>5 DEF Pending
    <3> QED BY <2>1, <2>2, <2>5, <3>1
  <2> QED BY <1>1, <2>3, <2>5
<1>3. CASE pc = "brace_number"
  <2>1. local.number.digits = 0
    BY <1>3 DEF Pending
  <2>2. LexBraceNumber => pc' = "failed"
    BY <2>1 DEF LexBraceNumber, Fail, FailHere, FailAt, FailReleasing
  <2> QED BY <1>1, <1>3, <2>2, BracePoints
<1> QED BY <1>2, <1>3 DEF Pending

LEMMA ElsewhereIsOutside ==
  ASSUME LexerInv, BoundsBeing, Next, pc \notin {"idle", "token", "number"} \cup OwnPoints
  PROVE  Outside
<1>1. Elsewhere
  BY StepElsewhere DEF LexerInv, Located
<1>2. pc # "failed"
  BY BracePoints
<1>3. pattern[local.lo + 1] # LeftBrace \/ Pending(pc, local, pos)
  BY <1>2 DEF BoundsBeing, Elsewise, OwnPoints
<1>4. CASE pattern[local.lo + 1] # LeftBrace
  BY <1>1, <1>4 DEF Elsewhere, Outside, OwnPoints, ParserVars, InputVars
<1>5. CASE Pending(pc, local, pos)
  <2>1. pc' = "failed" \/ (pc' = "number" /\ Pending(pc', local', pos'))
    BY <1>5, PendingSteps
  <2> QED BY <1>1, <2>1 DEF Elsewhere, Outside, InBounds, ParserVars, InputVars
<1> QED BY <1>3, <1>4, <1>5

(* Ways to go on after another character than a brace.                       *)
LEMMA LeavesOutside ==
  ASSUME HasShape(local), pattern[local.lo + 1] # LeftBrace,
         NEW n, NEW type, NEW data, NEW warning, NEW condition, NEW code, NEW span, NEW at,
         NEW where, NEW l,
         \/ Emit(n, type, data)
         \/ EmitWarned(n, type, data, warning)
         \/ FailAt(at, code, span)
         \/ /\ where \notin InBounds \cup {"greed", "token", "number", "idle"} /\ l.lo = local.lo
            /\ Advance(n, where, l) \/ Warn(condition, warning, n, where, l)
  PROVE  Outside
<1> USE DEF Outside, InBounds, ParserVars, InputVars
<1>1. CASE Emit(n, type, data)
  BY <1>1 DEF Emit, EmitAt, EmitReleasing
<1>2. CASE EmitWarned(n, type, data, warning)
  BY <1>2 DEF EmitWarned, EmitAt, EmitReleasing
<1>3. CASE FailAt(at, code, span)
  BY <1>3 DEF FailAt, FailReleasing
<1>4. CASE /\ where \notin InBounds \cup {"greed", "token", "number", "idle"} /\ l.lo = local.lo
           /\ Advance(n, where, l)
  BY <1>4 DEF Advance
<1>5. CASE /\ where \notin InBounds \cup {"greed", "token", "number", "idle"} /\ l.lo = local.lo
           /\ Warn(condition, warning, n, where, l)
  BY <1>5 DEF Warn
<1> QED BY <1>1, <1>2, <1>3, <1>4, <1>5

LEMMA InvalidOutside ==
  ASSUME InvalidBytes
  PROVE  Outside
BY DEF InvalidBytes, FailReleasing, Outside, InBounds, ParserVars, InputVars

LEMMA GroupOutside ==
  ASSUME LexerInv, BoundsBeing, Next, pc \in OfOptions
  PROVE  Outside
<1>1. HasShape(local) /\ pattern[local.lo + 1] # LeftBrace
  BY DEF LexerInv, Located, BoundsBeing, Elsewise, Pending, OfOptions, InBounds
<1>2. CASE OpenGroup
  <2>1. ~At("token", {"("})
    BY DEF At, OfOptions
  <2> QED BY <1>1, <1>2, <2>1, LeavesOutside DEF OpenGroup, InBounds
<1>3. CASE LexSpecifier
  <2>1. [local EXCEPT !.terminator = ")"].lo = local.lo
    BY <1>1 DEF HasShape, Fields
  <2>2. Reference("group", "'", pos + 1).lo = local.lo
    BY <1>1 DEF HasShape, Fields, Reference
  <2>3. [local EXCEPT !.option = options].lo = local.lo
    BY <1>1 DEF HasShape, Fields
  <2> QED BY <1>1, <1>3, <2>1, <2>2, <2>3, LeavesOutside DEF LexSpecifier, Incomplete, Fail, InBounds
<1>4. CASE LexOption
  <2>1. [local EXCEPT !.option = Switched(@, Peek, local.positive)].lo = local.lo
    BY <1>1 DEF HasShape, Fields
  <2>2. [local EXCEPT !.positive = Negated(@)].lo = local.lo
    BY <1>1 DEF HasShape, Fields
  <2> QED BY <1>1, <1>4, <2>1, <2>2, LeavesOutside DEF LexOption, Incomplete, Fail, InBounds
<1> QED BY <1>2, <1>3, <1>4, OptionPoints, InvalidOutside


-----------------------------------------------------------------------------
(* A number: no other symbol than a digit is read.                           *)
LEMMA NumberSteps ==
  ASSUME Next, pc = "number"
  PROVE  InvalidBytes \/ NumberDigit \/ NumberTooLarge \/ NumberEnd
<1>1. ~Lex
  BY DEF Lex
<1>2. ~LexToken
  BY DEF LexToken, LexEnd, SkipWhitespace, OpenComment, Comment, LexSimple, LexLiteral,
     LexQuantifier, OpenBounds, LexMin, LexComma, LexMax, LexBoundsEnd, LexQuantifierType,
     OpenGroup, LexSpecifier, LexLookbehind, LexCondition, LexConditionClose, LexOption, At, Other
<1>3. ~LexReferences
  BY DEF LexReferences, LexReference, LexSign, LexNumbered, LexDepth, LexClose, LexName,
     TrimName, LexNamed, At, Other
<1>4. ~LexEscapes
  BY DEF LexEscapes, OpenEscape, LexEscapedAssertion, LexEscapedType, LexProperty,
     LexNamedReference, LexBare, LexCommonEscape, LexEscape, LexNumberedByte, LexMeta,
     LexControl, LexBytes, LexUnicode, LexUnicodeNumber, LexBrace, LexBraceNumber, LexBraceNext,
     At, Other
<1> QED BY <1>1, <1>2, <1>3, <1>4 DEF Next

LEMMA DigitIsNoBrace == LeftBrace \notin Hex /\ Decimal \subseteq Hex /\ Octal \subseteq Hex
BY Zenon DEF LeftBrace, Hex, Decimal, Octal

LEMMA PeekIs ==
  ASSUME Peek # "END"
  PROVE  Peek = pattern[pos + 1]
BY DEF Peek

LEMMA DigitThere ==
  ASSUME AtDigit
  PROVE  /\ Peek = pattern[pos + 1] /\ pattern[pos + 1] \in Hex
         /\ local.number.base = 10 => pattern[pos + 1] \in Decimal
<1>1. Peek \in Hex
  BY DigitIsNoBrace DEF AtDigit, DigitsOf
<1>2. "END" \notin Hex
  BY DEF Hex, Decimal, Octal
<1>3. local.number.base = 10 => Peek \in Decimal
  BY DEF AtDigit, DigitsOf
<1> QED BY <1>1, <1>2, <1>3, PeekIs

(* A number that is no bound, of a code point in a brace or of something     *)
(* that begins with another character.                                       *)
LEMMA OtherNumberOutside ==
  ASSUME LexerInv, BoundsBeing, pc = "number", local.number.after \notin {"min", "max"},
         NumberDigit \/ NumberTooLarge \/ NumberEnd
  PROVE  Outside
<1>1. /\ HasShape(local) /\ local.number.after \in Afters \ {"min", "max"}
  BY DEF LexerInv, Located
<1>2. pattern[local.lo + 1] # LeftBrace \/ Pending(pc, local, pos)
  BY DEF BoundsBeing, Elsewise, InBounds
<1>3. ASSUME NEW where \in {"number", local.number.after}, NEW n \in {0, 1}, NEW l, l.lo = local.lo,
             l.number.after = local.number.after,
             Advance(n, where, l),
             \/ pattern[local.lo + 1] # LeftBrace
             \/ n = 0 /\ where # "number" /\ l.number.digits = local.number.digits
      PROVE  Outside
  <2>1. /\ pos' = pos + n /\ pc' = where /\ local' = l
        /\ UNCHANGED <<encoding, pattern>>
    BY <1>3 DEF Advance, ParserVars, InputVars
  <2>2. where \notin InBounds \cup {"greed", "token", "idle", "failed"}
    BY <1>1, <1>3 DEF Afters, InBounds
  <2>3. CASE pattern[local.lo + 1] # LeftBrace
    BY <1>3, <2>1, <2>2, <2>3 DEF Outside
  <2>4. CASE pattern[local.lo + 1] = LeftBrace
    <3>1. Pending(pc, local, pos)
      BY <1>2, <2>4
    <3>2. n = 0 /\ where = "brace_number" /\ l.number.digits = 0 /\ pos = local.lo
      BY <1>3, <2>4, <3>1 DEF Pending
    <3>3. pos + n = pos
      BY <3>2 DEF LexerInv, Located
    <3>4. Pending(pc', local', pos')
      BY <1>3, <2>1, <3>2, <3>3 DEF Pending
    <3> QED BY <2>1, <2>2, <3>2, <3>4 DEF Outside
  <2> QED BY <2>3, <2>4
<1>4. CASE NumberDigit
  <2>1. PICK l : l = [local EXCEPT !.number.value = Appended(DigitValue(Peek)), !.number.digits = @ + 1]
    OBVIOUS
  <2>2. l.lo = local.lo /\ l.number.after = local.number.after
    BY <1>1, <2>1 DEF HasShape, Fields
  <2>3. Advance(1, "number", l) /\ AtDigit
    BY <1>4, <2>1 DEF NumberDigit
  <2>4. pattern[pos + 1] # LeftBrace
    BY <2>3, DigitThere, DigitIsNoBrace
  <2>5. pattern[local.lo + 1] # LeftBrace
    BY <1>2, <2>4 DEF Pending
  <2> QED BY <1>3, <2>2, <2>3, <2>5
<1>5. CASE NumberTooLarge
  <2>1. CASE \E code, span : Fail(1, code, span)
    BY <2>1 DEF Fail, FailAt, FailReleasing, Outside, InBounds, ParserVars, InputVars
  <2>2. ASSUME Advance(0, local.number.after, [local EXCEPT !.number.overflowed = TRUE])
        PROVE  Outside
    <3>1. PICK l : l = [local EXCEPT !.number.overflowed = TRUE]
      OBVIOUS
    <3>2. l.lo = local.lo /\ l.number.after = local.number.after
      BY <1>1, <3>1 DEF HasShape, Fields
    <3>3. AtDigit
      BY <1>5 DEF NumberTooLarge
    <3>4. pattern[pos + 1] # LeftBrace
      BY <3>3, DigitThere, DigitIsNoBrace
    <3>5. pattern[local.lo + 1] # LeftBrace
      BY <1>2, <3>4 DEF Pending
    <3>6. Advance(0, local.number.after, l)
      BY <2>2, <3>1
    <3> QED BY <1>3, <3>2, <3>5, <3>6
  <2> QED BY <1>5, <2>1, <2>2 DEF NumberTooLarge
<1>6. CASE NumberEnd
  <2>1. Advance(0, local.number.after, local)
    BY <1>6 DEF NumberEnd
  <2>2. local.number.after # "number"
    BY <1>1 DEF Afters
  <2> QED BY <1>3, <2>1, <2>2
<1> QED BY <1>4, <1>5, <1>6


-----------------------------------------------------------------------------
(* The steps within a quantifier.                                            *)
LEMMA StillBounds ==
  ASSUME BoundsBeing, NEW n, NEW where, NEW l, Advance(n, where, l), where # "idle",
         NEW p, p = pos + n, BoundsAt(where, l, p),
         where = "number" => NumberAt(l.number.after, l, p),
         Elsewise(where, l, p)
  PROVE  BoundsRead'
<1>1. pc' = where /\ local' = l /\ pos' = p /\ pattern' = pattern /\ encoding' = encoding
  BY DEF Advance, ParserVars, InputVars
<1>2. BoundsAt(where, l, p)' /\ Elsewise(where, l, p)'
  BY <1>1, SameBounds
<1>3. (where = "number" => NumberAt(l.number.after, l, p))'
  <2>1. PICK after : after = l.number.after
    OBVIOUS
  <2>2. NumberAt(after, l, p)' = NumberAt(after, l, p)
    BY <1>1, SameBounds
  <2> QED BY <2>1, <2>2
<1>4. BoundsAt(pc, local, pos)' /\ Elsewise(pc, local, pos)'
  BY <1>1, <1>2, Zenon DEF BoundsAt, Elsewise, Pending
<1>5. (pc = "number" => NumberAt(local.number.after, local, pos))'
  BY <1>1, <1>3, Zenon DEF NumberAt
<1>6. TokenBeing'
  BY <1>1 DEF TokenBeing
<1> QED BY <1>1, <1>4, <1>5, <1>6 DEF BoundsRead, BoundsBeing

LEMMA DigitsGrow ==
  ASSUME NEW lo \in Nat, NEW p \in Nat, NEW q, q = p + 1, NEW n, NEW m, Digits(lo, p, n),
         pattern[q] \in Decimal, DOMAIN m = DOMAIN n, m.base = n.base, m.most = n.most,
         m.error = n.error, m.digits = n.digits + 1,
         m.value = n.value * n.base + DigitValue(pattern[q])
  PROVE  Digits(lo, q, m)
<1>1. lo <= p /\ All(lo, p, Decimal) /\ n.base = 10 /\ n.value = Value(lo, p, 10) /\ n.digits = p - lo
  BY DEF Digits
<1>2. All(lo, q, Decimal)
  BY <1>1 DEF All
<1>3. m.value = Value(lo, q, 10)
  BY <1>1, ValueOfNext
<1>4. m.digits = q - lo /\ lo <= q /\ q # lo
  BY <1>1
<1> QED BY <1>2, <1>3, <1>4 DEF Digits

LEMMA BoundDigit ==
  ASSUME LexerInv, BoundsBeing, pc = "number", local.number.after \in {"min", "max"}, NumberDigit
  PROVE  BoundsRead'
<1>1. PICK n, after : n = local.number /\ after = n.after
  OBVIOUS
<1>2. PICK m : m = [n EXCEPT !.value = Appended(DigitValue(Peek)), !.digits = @ + 1]
  OBVIOUS
<1>3. PICK l : l = [local EXCEPT !.number = m]
  OBVIOUS
<1>4. NumberFields \subseteq DOMAIN n /\ n.base = 10
  BY <1>1 DEF BoundsBeing, NumberAt, Digits
<1>5. NumberAt(after, local, pos) /\ HasShape(local) /\ pos \in Nat
  BY <1>1 DEF BoundsBeing, LexerInv, Located
<1>6. AtDigit /\ Advance(1, "number", l)
  BY <1>1, <1>2, <1>3 DEF NumberDigit
<1>7. Peek = pattern[pos + 1] /\ pattern[pos + 1] \in Decimal
  BY <1>1, <1>4, <1>6, DigitThere
<1>8. /\ DOMAIN m = DOMAIN n /\ m.base = n.base /\ m.most = n.most /\ m.error = n.error
      /\ m.after = after /\ m.digits = n.digits + 1
      /\ m.value = n.value * n.base + DigitValue(pattern[pos + 1])
  BY <1>1, <1>2, <1>4, <1>7 DEF NumberFields, Appended
<1>9. /\ l.number = m /\ DOMAIN l = DOMAIN local /\ l.lo = local.lo
      /\ BoundsFields \subseteq DOMAIN local => /\ l.min = local.min /\ l.max = local.max
                                                /\ l.has_max = local.has_max
                                                /\ l.explicit = local.explicit
                                                /\ l.allows_reluctant = local.allows_reluctant
  BY <1>3, <1>5 DEF HasShape, Fields, BoundsFields
<1>10. PICK q : q = pos + 1
  OBVIOUS
<1>11. NumberAt(after, l, q)
  <2>1. CASE after = "min"
    <3>1. local.lo \in Nat
      BY <1>1, <2>1 DEF LexerInv, Located, StandsAt, InBounds
    <3>2. PICK lo \in Nat : lo = local.lo + 1
      BY <3>1
    <3>3. Digits(lo, pos, n)
      BY <1>1, <1>5, <2>1, <3>2 DEF NumberAt
    <3>4. Digits(lo, q, m)
      BY <1>5, <1>7, <1>8, <1>10, <3>3, DigitsGrow
    <3>5. Digits(l.lo + 1, q, m)
      BY <1>9, <3>2, <3>4
    <3> QED BY <1>5, <1>9, <2>1, <3>5 DEF NumberAt
  <2>2. CASE after = "max"
    <3>1. PICK c : Comma(local, c) /\ Digits(c + 1, pos, n)
      BY <1>1, <1>5, <2>2 DEF NumberAt
    <3>2. c \in Nat
      BY <3>1 DEF Comma, Before
    <3>3. Digits(c + 1, q, m)
      BY <1>5, <1>7, <1>8, <1>10, <3>1, <3>2, DigitsGrow
    <3>4. Comma(l, c)
      BY <1>5, <1>9, <2>2, <3>1 DEF Comma, Before, NumberAt
    <3> QED BY <1>5, <1>9, <2>2, <3>3, <3>4 DEF NumberAt
  <2> QED BY <1>1, <2>1, <2>2
<1>12. BoundsAt("number", l, q) /\ Elsewise("number", l, q)
  BY <1>1, <1>8, <1>9 DEF BoundsAt, Elsewise, InBounds
<1> QED BY <1>6, <1>8, <1>9, <1>10, <1>11, <1>12, StillBounds


LEMMA FailedBounds ==
  ASSUME BoundsBeing, NEW addresses, NEW at, NEW code, NEW span,
         FailReleasing(addresses, at, code, span)
  PROVE  BoundsRead'
<1>1. Outside
  BY DEF FailReleasing, Outside, InBounds, ParserVars, InputVars
<1> QED BY <1>1, OutsideKeeps

LEMMA DigitsDone ==
  ASSUME LexerInv, pc = "number", NEW lo \in Nat, lo > 0, Digits(lo, pos, local.number), NumberEnd
  PROVE  lo < pos /\ NotDigit(pos)
<1>1. pos \in Nat /\ Len(pattern) \in Nat /\ pos <= Len(pattern)
  BY DEF LexerInv, Located
<1>2. /\ lo <= pos /\ local.number.digits = pos - lo /\ local.number.most = Len(pattern)
      /\ local.number.base = 10 /\ (pos = lo => ~NotDigit(pos))
  BY DEF Digits
<1>3. Peek \notin Decimal
  BY <1>1, <1>2 DEF NumberEnd, AtDigit, DigitsOf
<1>4. NotDigit(pos)
  BY <1>1, <1>3 DEF NotDigit, Peek, AtEnd
<1> QED BY <1>1, <1>2, <1>4

LEMMA BoundEnd ==
  ASSUME LexerInv, BoundsBeing, pc = "number", local.number.after \in {"min", "max"},
         NumberTooLarge \/ NumberEnd
  PROVE  BoundsRead'
<1>1. PICK n, after : n = local.number /\ after = n.after
  OBVIOUS
<1>2. NumberAt(after, local, pos) /\ pos \in Nat
  BY <1>1 DEF BoundsBeing, LexerInv, Located
<1>3. CASE NumberTooLarge
  <2>1. n.error # "INTERNAL_ERROR"
    BY <1>1, <1>2 DEF NumberAt, Digits
  <2> QED BY <1>1, <1>3, <2>1, FailedBounds DEF NumberTooLarge, Fail, FailAt
<1>4. CASE NumberEnd
  <2>1. Advance(0, after, local) /\ pos + 0 = pos
    BY <1>1, <1>2, <1>4 DEF NumberEnd
  <2>2. CASE after = "min"
    <3>1. local.lo \in Nat
      BY <1>1, <2>2 DEF LexerInv, Located, StandsAt, InBounds
    <3>2. PICK lo \in Nat : lo = local.lo + 1
      BY <3>1
    <3>3. Digits(lo, pos, n)
      BY <1>2, <2>2, <3>2, <1>1 DEF NumberAt
    <3>4. lo < pos /\ NotDigit(pos)
      BY <1>1, <1>4, <3>1, <3>2, <3>3, DigitsDone
    <3>5. /\ Before(local, pos) /\ local.number.value = Value(local.lo + 1, pos, 10)
          /\ local.explicit = TRUE /\ local.has_max = FALSE
      BY <1>1, <1>2, <2>2, <3>2, <3>3 DEF NumberAt, Digits, Before
    <3>6. BoundsAt(after, local, pos)
      BY <1>2, <2>2, <3>2, <3>4, <3>5 DEF BoundsAt, NumberAt
    <3>7. Elsewise(after, local, pos)
      BY <2>2 DEF Elsewise, InBounds
    <3> QED BY <2>1, <2>2, <3>6, <3>7, StillBounds
  <2>3. CASE after = "max"
    <3>1. PICK c : Comma(local, c) /\ Digits(c + 1, pos, n)
      BY <1>1, <1>2, <2>3 DEF NumberAt
    <3>2. PICK lo \in Nat : lo = c + 1 /\ c \in Nat
      BY <3>1 DEF Comma, Before
    <3>3. lo < pos /\ NotDigit(pos)
      BY <1>1, <1>4, <3>1, <3>2, DigitsDone
    <3>4. All(c + 1, pos, Decimal) /\ local.number.value = Value(c + 1, pos, 10)
      BY <1>1, <3>1 DEF Digits
    <3>5. BoundsAt(after, local, pos)
      BY <1>2, <2>3, <3>1, <3>2, <3>3, <3>4 DEF BoundsAt, NumberAt
    <3>6. Elsewise(after, local, pos)
      BY <2>3 DEF Elsewise, InBounds
    <3> QED BY <2>1, <2>3, <3>5, <3>6, StillBounds
  <2> QED BY <1>1, <2>2, <2>3
<1> QED BY <1>3, <1>4

LEMMA NumberBounds ==
  ASSUME LexerInv, BoundsBeing, Next, pc = "number"
  PROVE  BoundsRead'
<1>1. InvalidBytes => BoundsRead'
  BY InvalidOutside, OutsideKeeps
<1>2. CASE local.number.after \in {"min", "max"}
  BY <1>1, <1>2, NumberSteps, BoundDigit, BoundEnd
<1>3. CASE local.number.after \notin {"min", "max"}
  BY <1>1, <1>3, NumberSteps, OtherNumberOutside, OutsideKeeps
<1> QED BY <1>2, <1>3


-----------------------------------------------------------------------------
(* The first character of a token.                                           *)
LEMMA TokenSteps ==
  ASSUME Next, pc = "token"
  PROVE  \/ InvalidBytes \/ LexEnd \/ SkipWhitespace \/ OpenComment \/ LexSimple \/ LexLiteral
         \/ LexQuantifier \/ OpenBounds \/ OpenGroup \/ OpenEscape
<1>1. ~Lex /\ ~NumberDigit /\ ~NumberTooLarge /\ ~NumberEnd
  BY DEF Lex, NumberDigit, NumberTooLarge, NumberEnd, AtDigit
<1>2. LexToken => \/ LexEnd \/ SkipWhitespace \/ OpenComment \/ LexSimple \/ LexLiteral
                  \/ LexQuantifier \/ OpenBounds \/ OpenGroup
  <2>1. ~(Comment \/ LexSpecifier \/ LexLookbehind \/ LexCondition \/ LexConditionClose \/ LexOption)
    BY DEF Comment, LexSpecifier, LexLookbehind, LexCondition, LexConditionClose, LexOption, At, Other
  <2>2. ~(LexMin \/ LexComma \/ LexMax \/ LexBoundsEnd \/ LexQuantifierType)
    BY DEF LexMin, LexComma, LexMax, LexBoundsEnd, LexQuantifierType, At, Other
  <2> QED BY <2>1, <2>2 DEF LexToken
<1>3. ~LexReferences
  BY DEF LexReferences, LexReference, LexSign, LexNumbered, LexDepth, LexClose, LexName,
     TrimName, LexNamed, At, Other
<1>4. LexEscapes => OpenEscape
  BY DEF LexEscapes, LexEscapedAssertion, LexEscapedType, LexProperty,
     LexNamedReference, LexBare, LexCommonEscape, LexEscape, LexNumberedByte, LexMeta,
     LexControl, LexBytes, LexUnicode, LexUnicodeNumber, LexBrace, LexBraceNumber, LexBraceNext,
     At, Other
<1> QED BY <1>1, <1>2, <1>3, <1>4 DEF Next

LEMMA BraceIsSpecial ==
  /\ LeftBrace \in Special
  /\ LeftBrace \notin {"#", "[", ".", "^", "$", "|", ")", "*", "+", "?", "(", "\\", "END"}
BY Zenon DEF LeftBrace, Special

LEMMA TokenBounds ==
  ASSUME LexerInv, BoundsBeing, Next, pc = "token"
  PROVE  BoundsRead'
<1>1. HasShape(local) /\ local.lo = pos /\ pos \in Nat
  BY DEF LexerInv, Located, StandsAt
<1>2. /\ BoundsFields \subseteq DOMAIN local /\ local.explicit = FALSE /\ local.has_max = FALSE
      /\ local.min = 0 /\ local.allows_reluctant = TRUE
  BY DEF BoundsBeing, BoundsAt
<1>3. Peek # "END" => Peek = pattern[local.lo + 1]
  BY <1>1, PeekIs
<1>4. ASSUME NEW symbols, symbols \subseteq {"#", "[", ".", "^", "$", "|", ")", "*", "+", "?", "(", "\\"},
             At("token", symbols)
      PROVE  pattern[local.lo + 1] # LeftBrace
  <2>1. Peek \in {"#", "[", ".", "^", "$", "|", ")", "*", "+", "?", "(", "\\"}
    BY <1>4 DEF At
  <2>2. Peek # "END" /\ Peek # LeftBrace
    BY <2>1, BraceIsSpecial
  <2> QED BY <1>3, <2>2
<1>5. CASE InvalidBytes
  BY <1>5, InvalidOutside, OutsideKeeps
<1>6. CASE LexEnd
  <2>1. Emit(0, "END", <<>>)
    BY <1>6 DEF LexEnd
  <2>2. Outside
    BY <2>1 DEF Emit, EmitAt, EmitReleasing, Outside, InBounds, ParserVars, InputVars
  <2> QED BY <2>2, OutsideKeeps
<1>7. CASE SkipWhitespace
  <2>1. Retry(1)
    BY <1>7 DEF SkipWhitespace
  <2>2. Outside
    BY <2>1 DEF Retry, Advance, Outside, InBounds, ParserVars, InputVars
  <2> QED BY <2>2, OutsideKeeps
<1>8. CASE OpenComment
  <2>1. [local EXCEPT !.terminator = "\n"].lo = local.lo
    BY <1>1 DEF HasShape, Fields
  <2>2. At("token", {"#"}) /\ Advance(1, "comment", [local EXCEPT !.terminator = "\n"])
    BY <1>8 DEF OpenComment
  <2>3. pattern[local.lo + 1] # LeftBrace
    BY <1>4, <2>2
  <2>4. Outside
    BY <1>1, <2>1, <2>2, <2>3, LeavesOutside DEF InBounds
  <2> QED BY <2>4, OutsideKeeps
<1>9. CASE LexSimple
  <2>1. At("token", {"[", ".", "^", "$", "|", ")"}) /\ \E type, data : Emit(1, type, data)
    BY <1>9 DEF LexSimple, At
  <2>2. pattern[local.lo + 1] # LeftBrace
    BY <1>4, <2>1
  <2>3. Outside
    BY <1>1, <2>1, <2>2, LeavesOutside
  <2> QED BY <2>3, OutsideKeeps
<1>10. CASE LexLiteral
  <2>1. Peek \notin Special \cup {"END"}
    BY <1>10 DEF LexLiteral, Other
  <2>2. pattern[local.lo + 1] # LeftBrace
    BY <1>3, <2>1, BraceIsSpecial
  <2>3. Outside
    BY <1>1, <1>10, <2>2, LeavesOutside DEF LexLiteral
  <2> QED BY <2>3, OutsideKeeps
<1>11. CASE LexQuantifier
  <2>1. PICK l : l = [local EXCEPT !.min = IF Peek = "+" THEN 1 ELSE 0,
                                   !.has_max = Peek = "?",
                                   !.max = IF Peek = "?" THEN 1 ELSE 0]
    OBVIOUS
  <2>2. At("token", {"*", "+", "?"}) /\ Advance(1, "greed", l)
    BY <1>11, <2>1 DEF LexQuantifier
  <2>3. l.lo = local.lo /\ BoundsFields \subseteq DOMAIN l
    BY <1>1, <1>2, <2>1 DEF HasShape, Fields, BoundsFields
  <2>4. pattern[l.lo + 1] # LeftBrace
    BY <1>4, <2>2, <2>3
  <2>5. BoundsAt("greed", l, pos + 1) /\ Elsewise("greed", l, pos + 1)
    BY <2>3, <2>4 DEF BoundsAt, Elsewise, InBounds
  <2> QED BY <2>2, <2>5, StillBounds
<1>12. CASE OpenBounds
  <2>1. Advance(1, "bounds", local)
    BY <1>12, Zenon DEF OpenBounds
  <2>2. BoundsAt("bounds", local, pos + 1) /\ Elsewise("bounds", local, pos + 1)
    BY <1>1, <1>2 DEF BoundsAt, Elsewise, InBounds
  <2> QED BY <2>1, <2>2, StillBounds
<1>13. CASE OpenGroup
  <2>1. At("token", {"("}) /\ Advance(1, "group", local)
    BY <1>13 DEF OpenGroup, At, Other
  <2>2. pattern[local.lo + 1] # LeftBrace
    BY <1>4, <2>1
  <2>3. Outside
    BY <1>1, <2>1, <2>2, LeavesOutside DEF InBounds
  <2> QED BY <2>3, OutsideKeeps
<1>14. CASE OpenEscape
  <2>1. PICK l : l = [local EXCEPT !.escape = pos, !.first = pos, !.bytes = <<>>]
    OBVIOUS
  <2>2. l.lo = local.lo
    BY <1>1, <2>1 DEF HasShape, Fields
  <2>3. At("token", {"\\"}) /\ Advance(1, "escaped", l)
    BY <1>14, <2>1 DEF OpenEscape
  <2>4. pattern[local.lo + 1] # LeftBrace
    BY <1>4, <2>3
  <2>5. Outside
    BY <1>1, <2>2, <2>3, <2>4, LeavesOutside DEF InBounds
  <2> QED BY <2>5, OutsideKeeps
<1> QED BY <1>5, <1>6, <1>7, <1>8, <1>9, <1>10, <1>11, <1>12, <1>13, <1>14, TokenSteps


-----------------------------------------------------------------------------
(* The steps within the bounds.                                              *)
LEMMA InsideBounds ==
  ASSUME LexerInv, BoundsBeing, pc \in InBounds
  PROVE  /\ local.lo \in Nat /\ local.lo < Len(pattern) /\ Len(pattern) \in Nat
         /\ pos \in Nat /\ pos <= Len(pattern)
         /\ HasShape(local) /\ BoundsFields \subseteq DOMAIN local
         /\ BoundsAt(pc, local, pos)
         /\ Peek = IF pos < Len(pattern) THEN pattern[pos + 1] ELSE "END"
BY DEF LexerInv, Located, StandsAt, BoundsBeing, BoundsAt, Peek, AtEnd

LEMMA EndIsNoSymbol == "END" \notin Decimal \cup {CommaSign, RightBrace}
BY Zenon DEF Decimal, Octal, CommaSign, RightBrace

(* No quantifier: the brace is a character.                                  *)
LEMMA SameIsBounds ==
  ASSUME NEW open, NEW close, pattern' = pattern
  PROVE  /\ IsBounds(open, close)' <=> IsBounds(open, close)
         /\ CommaOf(open, close)' = CommaOf(open, close)
<1>1. IsBounds(open, close)' <=> pattern'[close + 1] = RightBrace /\ IsBody(open, close)'
  BY Zenon DEF IsBounds, IsBody, RightBrace, CommaSign
<1>2. IsBody(open, close)' <=> IsBody(open, close)
  BY SameAll DEF IsBody
<1> DEFINE First == CHOOSE comma \in open .. close :
                      All(open, comma, Decimal) /\ (comma = close \/ pattern[comma + 1] = CommaSign)
<1>3. CommaOf(open, close) = First /\ CommaOf(open, close)' = First'
  BY Zenon DEF CommaOf, CommaSign
<1>4. First' = First
  BY SameAll
<1> QED BY <1>1, <1>2, <1>3, <1>4, BoundsAre

LEMMA BraceStands ==
  ASSUME BoundsBeing, local.lo \in Nat, LiteralBrace,
         NEW open, open = local.lo + 1,
         \A close \in open .. Len(pattern) - 1 : ~IsBounds(open, close)
  PROVE  BoundsRead'
<1>1. /\ pc' = "idle" /\ tok'.type = "LITERAL" /\ tok'.hi = tok'.lo + 1 /\ tok'.lo = local.lo
      /\ pattern' = pattern
  BY DEF LiteralBrace, EmitAt, EmitReleasing, ParserVars, InputVars
<1>2. (\A close \in tok.lo + 1 .. Len(pattern) - 1 : ~IsBounds(tok.lo + 1, close))'
  <2>1. ASSUME NEW close \in open .. Len(pattern) - 1 PROVE ~IsBounds(open, close)'
    BY <1>1, <2>1, SameIsBounds
  <2>2. (\A close \in open .. Len(pattern) - 1 : ~IsBounds(open, close))'
    BY <1>1, <2>1
  <2>3. open = tok'.lo + 1
    BY <1>1
  <2> QED BY <2>2, <2>3, Zenon DEF IsBounds, All
<1>3. LiteralRead'
  BY <1>1, <1>2 DEF LiteralRead
<1>4. TokenBeing'
  BY <1>3 DEF TokenBeing
<1>5. BoundsAt(pc, local, pos)' /\ Elsewise(pc, local, pos)' /\ pattern' \in Seq(Symbols)
  BY <1>1 DEF BoundsAt, Elsewise, InBounds, BoundsBeing
<1> QED BY <1>1, <1>4, <1>5 DEF BoundsRead, BoundsBeing


(* A number begins here.                                                     *)
LEMMA BoundBegins ==
  ASSUME NEW lo \in Nat, pos = lo, Peek \in Decimal, NEW after, NEW n,
         n = [Bound(after) EXCEPT !.lo = pos + 0]
  PROVE  n.after = after /\ Digits(lo, pos, n)
<1>1. /\ NumberFields \subseteq DOMAIN n /\ n.base = 10 /\ n.most = Len(pattern) /\ n.after = after
      /\ n.error # "INTERNAL_ERROR" /\ n.digits = 0 /\ n.value = 0
  BY DEF Bound, DecimalNumber, Number, NumberFields
<1>2. All(lo, pos, Decimal)
  BY DEF All
<1>3. Value(lo, pos, 10) = 0
  BY ValueOfNone
<1>4. ~NotDigit(pos)
  BY EndIsNoSymbol DEF NotDigit, Peek, AtEnd
<1> QED BY <1>1, <1>2, <1>3, <1>4 DEF Digits

LEMMA ReadBound ==
  ASSUME HasShape(local), BoundsFields \subseteq DOMAIN local, pos \in Nat,
         NEW after, NEW l, DOMAIN l = DOMAIN local, Read(0, Bound(after), l)
  PROVE  \E n, m : /\ n = [Bound(after) EXCEPT !.lo = pos + 0] /\ m = [l EXCEPT !.number = n]
                   /\ Advance(0, "number", m)
                   /\ m.number = n /\ DOMAIN m = DOMAIN local /\ m.lo = l.lo /\ m.min = l.min
                   /\ m.max = l.max /\ m.has_max = l.has_max /\ m.explicit = l.explicit
                   /\ m.allows_reluctant = l.allows_reluctant
<1>1. PICK n, m : n = [Bound(after) EXCEPT !.lo = pos + 0] /\ m = [l EXCEPT !.number = n]
  OBVIOUS
<1>2. Advance(0, "number", m)
  BY <1>1 DEF Read
<1>3. /\ m.number = n /\ DOMAIN m = DOMAIN local /\ m.lo = l.lo /\ m.min = l.min
      /\ m.max = l.max /\ m.has_max = l.has_max /\ m.explicit = l.explicit
      /\ m.allows_reluctant = l.allows_reluctant
  BY <1>1 DEF HasShape, Fields, BoundsFields
<1> QED BY <1>1, <1>2, <1>3

LEMMA MinIs ==
  ASSUME LexMin
  PROVE  \/ At("bounds", Decimal) /\ Read(0, Bound("min"), [local EXCEPT !.explicit = TRUE])
         \/ At("bounds", {CommaSign}) /\ Advance(1, "comma", local)
         \/ Other("bounds", Decimal \cup {CommaSign}) /\ LiteralBrace
BY Zenon DEF LexMin, CommaSign

LEMMA MinBounds ==
  ASSUME LexerInv, BoundsBeing, LexMin
  PROVE  BoundsRead'
<1>1. pc = "bounds"
  BY MinIs DEF At, Other
<1>2. /\ local.lo \in Nat /\ local.lo < Len(pattern) /\ Len(pattern) \in Nat
      /\ pos \in Nat /\ pos <= Len(pattern)
      /\ HasShape(local) /\ BoundsFields \subseteq DOMAIN local
      /\ BoundsAt("bounds", local, pos)
      /\ Peek = IF pos < Len(pattern) THEN pattern[pos + 1] ELSE "END"
  BY <1>1, InsideBounds DEF InBounds
<1>3. /\ pos = local.lo + 1 /\ local.explicit = FALSE /\ local.has_max = FALSE /\ local.min = 0
      /\ local.allows_reluctant = TRUE
  BY <1>2 DEF BoundsAt
<1>4. All(local.lo + 1, pos, Decimal)
  BY <1>2, <1>3 DEF All
<1>5. CASE At("bounds", Decimal) /\ Read(0, Bound("min"), [local EXCEPT !.explicit = TRUE])
  <2>1. PICK k : k = [local EXCEPT !.explicit = TRUE]
    OBVIOUS
  <2>2. /\ DOMAIN k = DOMAIN local /\ k.explicit = TRUE /\ k.lo = local.lo /\ k.has_max = FALSE
        /\ k.allows_reluctant = TRUE
    BY <1>2, <1>3, <2>1 DEF HasShape, Fields, BoundsFields
  <2>3. Read(0, Bound("min"), k)
    BY <1>5, <2>1
  <2>4. PICK n, l : /\ n = [Bound("min") EXCEPT !.lo = pos + 0] /\ l = [k EXCEPT !.number = n]
                    /\ Advance(0, "number", l)
                    /\ l.number = n /\ DOMAIN l = DOMAIN local /\ l.lo = k.lo
                    /\ l.has_max = k.has_max /\ l.explicit = k.explicit
                    /\ l.allows_reluctant = k.allows_reluctant
    BY <1>2, <2>2, <2>3, ReadBound
  <2>5. n.after = "min" /\ Digits(pos, pos, n)
    <3>1. Peek \in Decimal
      BY <1>5 DEF At
    <3>2. n = [Bound("min") EXCEPT !.lo = pos + 0]
      BY <2>4
    <3> QED BY <1>2, <3>1, <3>2, BoundBegins
  <2>6. NumberAt("min", l, pos)
    BY <1>2, <1>3, <2>2, <2>4, <2>5 DEF NumberAt
  <2>7. BoundsAt("number", l, pos) /\ Elsewise("number", l, pos)
    BY <1>2, <2>4, <2>5 DEF BoundsAt, Elsewise, InBounds
  <2>8. pos = pos + 0
    BY <1>2
  <2> QED BY <2>4, <2>5, <2>6, <2>7, <2>8, StillBounds
<1>6. CASE At("bounds", {CommaSign}) /\ Advance(1, "comma", local)
  <2>1. pattern[pos + 1] = CommaSign
    BY <1>2, <1>6, EndIsNoSymbol DEF At
  <2>2. local.min = Value(local.lo + 1, pos, 10)
    BY <1>2, <1>3, ValueOfNone
  <2>3. local.explicit = (local.lo + 1 < pos)
    <3>1. (local.lo + 1 < pos) = FALSE
      BY <1>2, <1>3
    <3> QED BY <1>3, <3>1
  <2>4. Before(local, pos)
    BY <1>2, <1>3, <1>4 DEF Before
  <2>5. Comma(local, pos)
    BY <2>1, <2>2, <2>3, <2>4 DEF Comma
  <2>6. BoundsAt("comma", local, pos + 1) /\ Elsewise("comma", local, pos + 1)
    BY <1>2, <1>3, <2>5 DEF BoundsAt, Elsewise, InBounds
  <2> QED BY <1>6, <2>6, StillBounds
<1>7. CASE Other("bounds", Decimal \cup {CommaSign}) /\ LiteralBrace
  <2>1. pos < Len(pattern) => pattern[pos + 1] \notin Decimal \cup {CommaSign}
    BY <1>2, <1>7 DEF Other
  <2>2. PICK open, n \in Nat : open = pos /\ n = Len(pattern)
    BY <1>2
  <2>3. ASSUME NEW close \in open .. n - 1 PROVE ~IsBounds(open, close)
    <3>1. open <= open /\ All(open, open, Decimal) /\ close \in Nat /\ open <= close /\ close < n
          /\ open \in Nat
      BY <1>2, <1>3, <1>4, <2>2, <2>3
    <3>2. open < n => pattern[open + 1] \notin Decimal \cup {CommaSign}
                        \cup (IF open = open THEN {} ELSE {RightBrace})
      BY <2>1, <2>2
    <3> QED BY <3>1, <3>2, NoBoundsAfterDigits
  <2> QED BY <1>2, <1>3, <1>7, <2>2, <2>3, BraceStands
<1> QED BY <1>5, <1>6, <1>7, MinIs

LEMMA CommaPointIs ==
  ASSUME LexComma
  PROVE  \/ At("min", {"END"}) /\ LiteralBrace
         \/ At("min", {CommaSign}) /\ Advance(1, "comma", [local EXCEPT !.min = local.number.value])
         \/ /\ Other("min", {"END", CommaSign})
            /\ Advance(0, "bounds_end", [local EXCEPT !.min = local.number.value,
                                                      !.max = local.number.value, !.has_max = TRUE,
                                                      !.allows_reluctant = FALSE])
BY Zenon DEF LexComma, CommaSign

LEMMA CommaBounds ==
  ASSUME LexerInv, BoundsBeing, LexComma
  PROVE  BoundsRead'
<1>1. pc = "min"
  BY CommaPointIs DEF At, Other
<1>2. /\ local.lo \in Nat /\ local.lo < Len(pattern) /\ Len(pattern) \in Nat
      /\ pos \in Nat /\ pos <= Len(pattern)
      /\ HasShape(local) /\ BoundsFields \subseteq DOMAIN local
      /\ BoundsAt("min", local, pos)
      /\ Peek = IF pos < Len(pattern) THEN pattern[pos + 1] ELSE "END"
  BY <1>1, InsideBounds DEF InBounds
<1>3. /\ Before(local, pos) /\ local.lo + 1 < pos /\ NotDigit(pos)
      /\ local.number.value = Value(local.lo + 1, pos, 10)
      /\ local.explicit = TRUE /\ local.has_max = FALSE
  BY <1>2 DEF BoundsAt
<1>4. All(local.lo + 1, pos, Decimal) /\ local.allows_reluctant = TRUE
  BY <1>3 DEF Before
<1>5. CASE At("min", {"END"}) /\ LiteralBrace
  <2>1. pos < Len(pattern) => pattern[pos + 1] \notin Decimal \cup {CommaSign, RightBrace}
    BY <1>2, <1>5, EndIsNoSymbol DEF At
  <2>2. PICK open, n \in Nat : open = local.lo + 1 /\ n = Len(pattern) /\ open \in Nat
    BY <1>2
  <2>3. ASSUME NEW close \in open .. n - 1 PROVE ~IsBounds(open, close)
    <3>1. open <= pos /\ All(open, pos, Decimal) /\ close \in Nat /\ open <= close /\ close < n
      BY <1>2, <1>3, <1>4, <2>2, <2>3
    <3>2. pos < n => pattern[pos + 1] \notin Decimal \cup {CommaSign}
                       \cup (IF open = pos THEN {} ELSE {RightBrace})
      BY <2>1, <2>2
    <3> QED BY <1>2, <2>2, <3>1, <3>2, NoBoundsAfterDigits
  <2> QED BY <1>2, <1>5, <2>2, <2>3, BraceStands
<1>6. CASE At("min", {CommaSign}) /\ Advance(1, "comma", [local EXCEPT !.min = local.number.value])
  <2>1. PICK l : l = [local EXCEPT !.min = local.number.value]
    OBVIOUS
  <2>2. /\ DOMAIN l = DOMAIN local /\ l.lo = local.lo /\ l.min = local.number.value
        /\ l.has_max = FALSE /\ l.explicit = TRUE /\ l.allows_reluctant = TRUE
    BY <1>2, <1>3, <1>4, <2>1 DEF HasShape, Fields, BoundsFields
  <2>3. pattern[pos + 1] = CommaSign
    BY <1>2, <1>6, EndIsNoSymbol DEF At
  <2>4. Before(l, pos)
    BY <1>3, <2>2 DEF Before
  <2>5. l.explicit = (l.lo + 1 < pos)
    <3>1. (l.lo + 1 < pos) = TRUE
      BY <1>3, <2>2
    <3> QED BY <2>2, <3>1
  <2>6. Comma(l, pos)
    BY <1>3, <2>2, <2>3, <2>4, <2>5 DEF Comma
  <2>7. BoundsAt("comma", l, pos + 1) /\ Elsewise("comma", l, pos + 1)
    BY <1>2, <2>2, <2>6 DEF BoundsAt, Elsewise, InBounds
  <2>8. Advance(1, "comma", l)
    BY <1>6, <2>1
  <2> QED BY <2>7, <2>8, StillBounds
<1>7. CASE /\ Other("min", {"END", CommaSign})
           /\ Advance(0, "bounds_end", [local EXCEPT !.min = local.number.value,
                                                     !.max = local.number.value, !.has_max = TRUE,
                                                     !.allows_reluctant = FALSE])
  <2>1. PICK l : l = [local EXCEPT !.min = local.number.value, !.max = local.number.value,
                                   !.has_max = TRUE, !.allows_reluctant = FALSE]
    OBVIOUS
  <2>2. /\ DOMAIN l = DOMAIN local /\ l.lo = local.lo /\ l.min = local.number.value
        /\ l.max = l.min /\ l.has_max = TRUE /\ l.allows_reluctant = FALSE
    BY <1>2, <2>1 DEF HasShape, Fields, BoundsFields
  <2>3. pos < Len(pattern) => pattern[pos + 1] # CommaSign
    BY <1>2, <1>7 DEF Other
  <2>4. Bounded(l, pos, pos)
    <3>1. l.has_max = (pos = pos \/ pos + 1 < pos)
      <4>1. (pos = pos \/ pos + 1 < pos) = TRUE
        OBVIOUS
      <4> QED BY <2>2, <4>1
    <3>2. /\ l.lo + 1 <= pos /\ pos <= pos /\ All(l.lo + 1, pos, Decimal) /\ l.lo + 1 < pos
          /\ l.min = Value(l.lo + 1, pos, 10) /\ ~(pos < pos) /\ ~(pos + 1 < pos)
      BY <1>2, <1>3, <1>4, <2>2
    <3>3. ~l.allows_reluctant
      BY <2>2
    <3> QED BY <1>2, <2>2, <3>1, <3>2, <3>3, Zenon DEF Bounded
  <2>5. BoundsAt("bounds_end", l, pos) /\ Elsewise("bounds_end", l, pos)
    BY <1>2, <1>3, <2>2, <2>3, <2>4 DEF BoundsAt, Elsewise, InBounds
  <2>6. Advance(0, "bounds_end", l) /\ pos = pos + 0
    BY <1>2, <1>7, <2>1
  <2> QED BY <2>5, <2>6, StillBounds
<1> QED BY <1>5, <1>6, <1>7, CommaPointIs


LEMMA MaxBounds ==
  ASSUME LexerInv, BoundsBeing, LexMax, pc = "comma"
  PROVE  BoundsRead'
<1>1. /\ local.lo \in Nat /\ local.lo < Len(pattern) /\ Len(pattern) \in Nat
      /\ pos \in Nat /\ pos <= Len(pattern)
      /\ HasShape(local) /\ BoundsFields \subseteq DOMAIN local
      /\ BoundsAt("comma", local, pos)
      /\ Peek = IF pos < Len(pattern) THEN pattern[pos + 1] ELSE "END"
  BY InsideBounds DEF InBounds
<1>2. PICK c : Comma(local, c) /\ pos = c + 1 /\ local.has_max = FALSE
  BY <1>1 DEF BoundsAt
<1>3. /\ c \in Nat /\ local.lo + 1 <= c /\ All(local.lo + 1, c, Decimal)
      /\ local.allows_reluctant = TRUE /\ pattern[c + 1] = CommaSign
      /\ local.min = Value(local.lo + 1, c, 10) /\ local.explicit = (local.lo + 1 < c)
  BY <1>2 DEF Comma, Before
<1>4. All(c + 1, pos, Decimal)
  BY <1>1, <1>2 DEF All
<1>5. CASE At("comma", Decimal) /\ Read(0, Bound("max"), [local EXCEPT !.has_max = TRUE])
  <2>1. PICK k : k = [local EXCEPT !.has_max = TRUE]
    OBVIOUS
  <2>2. /\ DOMAIN k = DOMAIN local /\ k.explicit = local.explicit /\ k.lo = local.lo
        /\ k.has_max = TRUE /\ k.allows_reluctant = TRUE /\ k.min = local.min
    BY <1>1, <1>3, <2>1 DEF HasShape, Fields, BoundsFields
  <2>3. Read(0, Bound("max"), k)
    BY <1>5, <2>1
  <2>4. PICK n, l : /\ n = [Bound("max") EXCEPT !.lo = pos + 0] /\ l = [k EXCEPT !.number = n]
                    /\ Advance(0, "number", l)
                    /\ l.number = n /\ DOMAIN l = DOMAIN local /\ l.lo = k.lo
                    /\ l.has_max = k.has_max /\ l.explicit = k.explicit /\ l.min = k.min
                    /\ l.allows_reluctant = k.allows_reluctant
    BY <1>1, <2>2, <2>3, ReadBound
  <2>5. n.after = "max" /\ Digits(pos, pos, n)
    <3>1. Peek \in Decimal
      BY <1>5 DEF At
    <3>2. n = [Bound("max") EXCEPT !.lo = pos + 0]
      BY <2>4
    <3> QED BY <1>1, <3>1, <3>2, BoundBegins
  <2>6. Comma(l, c)
    BY <1>2, <2>2, <2>4, Zenon DEF Comma, Before
  <2>7. NumberAt("max", l, pos)
    BY <1>1, <1>2, <2>2, <2>4, <2>5, <2>6 DEF NumberAt
  <2>8. BoundsAt("number", l, pos) /\ Elsewise("number", l, pos)
    BY <1>1, <2>4, <2>5 DEF BoundsAt, Elsewise, InBounds
  <2>9. pos = pos + 0
    BY <1>1
  <2> QED BY <2>4, <2>5, <2>7, <2>8, <2>9, StillBounds
<1>6. CASE Other("comma", Decimal) /\ (AtEnd \/ ~local.explicit) /\ LiteralBrace
  <2>1. PICK open, n \in Nat : open = local.lo + 1 /\ n = Len(pattern) /\ open \in Nat
    BY <1>1
  <2>2. pos < n => /\ pattern[pos + 1] \notin Decimal
                   /\ pattern[pos + 1] = RightBrace => open = c /\ pos = c + 1
    <3>1. AtEnd => ~(pos < n)
      BY <1>1, <2>1 DEF AtEnd
    <3>2. ~local.explicit => open = c
      <4>1. local.lo + 1 < c => (local.lo + 1 < c) = TRUE
        OBVIOUS
      <4>2. ~local.explicit => ~(local.lo + 1 < c)
        BY <1>3, <4>1, Zenon
      <4> QED BY <1>1, <1>3, <2>1, <4>2
    <3>3. pos < n => pattern[pos + 1] \notin Decimal
      BY <1>1, <1>6, <2>1 DEF Other
    <3> QED BY <1>2, <1>6, <3>1, <3>2, <3>3
  <2>3. ASSUME NEW close \in open .. n - 1 PROVE ~IsBounds(open, close)
    <3>1. /\ close \in Nat /\ open <= close /\ close < n /\ open <= c /\ c < pos
          /\ All(open, c, Decimal)
      BY <1>1, <1>2, <1>3, <2>1, <2>3
    <3> QED BY <1>1, <1>3, <1>4, <2>1, <2>2, <3>1, NoBoundsAfterComma
  <2> QED BY <1>1, <1>6, <2>1, <2>3, BraceStands
<1>7. CASE Other("comma", Decimal \cup {"END"}) /\ local.explicit /\ Advance(0, "bounds_end", local)
  <2>1. local.lo + 1 < c
    BY <1>3, <1>7, Zenon
  <2>2. NotDigit(pos)
    BY <1>1, <1>7 DEF Other, NotDigit
  <2>3. Bounded(local, c, pos)
    <3>1. local.has_max = (c = pos \/ c + 1 < pos)
      <4>1. (c = pos \/ c + 1 < pos) = FALSE
        BY <1>2, <1>3
      <4> QED BY <1>2, <4>1
    <3>2. c < pos /\ c <= pos /\ ~(c + 1 < pos) /\ c # pos
      BY <1>2, <1>3
    <3> QED BY <1>2, <1>3, <1>4, <2>1, <3>1, <3>2, Zenon DEF Bounded
  <2>4. c # pos
    BY <1>2, <1>3
  <2>5. BoundsAt("bounds_end", local, pos) /\ Elsewise("bounds_end", local, pos)
    BY <1>1, <2>2, <2>3, <2>4 DEF BoundsAt, Elsewise, InBounds
  <2>6. pos = pos + 0
    BY <1>1
  <2> QED BY <1>7, <2>5, <2>6, StillBounds
<1> QED BY <1>5, <1>6, <1>7 DEF LexMax, At, Other

LEMMA MaxDoneBounds ==
  ASSUME LexerInv, BoundsBeing, LexMax, pc = "max"
  PROVE  BoundsRead'
<1>1. /\ local.lo \in Nat /\ local.lo < Len(pattern) /\ Len(pattern) \in Nat
      /\ pos \in Nat /\ pos <= Len(pattern)
      /\ HasShape(local) /\ BoundsFields \subseteq DOMAIN local
      /\ BoundsAt("max", local, pos)
      /\ Peek = IF pos < Len(pattern) THEN pattern[pos + 1] ELSE "END"
  BY InsideBounds DEF InBounds
<1>2. PICK c : /\ Comma(local, c) /\ local.has_max = TRUE
               /\ c + 1 < pos /\ All(c + 1, pos, Decimal) /\ NotDigit(pos)
               /\ local.number.value = Value(c + 1, pos, 10)
  BY <1>1 DEF BoundsAt
<1>3. /\ c \in Nat /\ local.lo + 1 <= c /\ All(local.lo + 1, c, Decimal)
      /\ local.allows_reluctant = TRUE /\ pattern[c + 1] = CommaSign
      /\ local.min = Value(local.lo + 1, c, 10)
  BY <1>2 DEF Comma, Before
<1>4. CASE At("max", {"END"}) /\ LiteralBrace
  <2>1. PICK open, n \in Nat : open = local.lo + 1 /\ n = Len(pattern) /\ open \in Nat
    BY <1>1
  <2>2. pos < n => pattern[pos + 1] \notin Decimal /\ pattern[pos + 1] # RightBrace
    BY <1>1, <1>4, <2>1, EndIsNoSymbol DEF At
  <2>3. ASSUME NEW close \in open .. n - 1 PROVE ~IsBounds(open, close)
    <3>1. /\ close \in Nat /\ open <= close /\ close < n /\ open <= c /\ c < pos
          /\ All(open, c, Decimal)
      BY <1>1, <1>2, <1>3, <2>1, <2>3
    <3> QED BY <1>1, <1>2, <1>3, <2>1, <2>2, <3>1, NoBoundsAfterComma
  <2> QED BY <1>1, <1>4, <2>1, <2>3, BraceStands
<1>5. CASE Other("max", {"END"}) /\ Advance(0, "bounds_end", [local EXCEPT !.max = local.number.value])
  <2>1. PICK l : l = [local EXCEPT !.max = local.number.value]
    OBVIOUS
  <2>2. /\ DOMAIN l = DOMAIN local /\ l.lo = local.lo /\ l.min = local.min
        /\ l.max = local.number.value /\ l.has_max = TRUE /\ l.allows_reluctant = TRUE
    BY <1>1, <1>2, <1>3, <2>1 DEF HasShape, Fields, BoundsFields
  <2>3. Bounded(l, c, pos)
    <3>1. l.has_max = (c = pos \/ c + 1 < pos)
      <4>1. (c = pos \/ c + 1 < pos) = TRUE
        BY <1>2
      <4> QED BY <2>2, <4>1
    <3>2. c < pos /\ c <= pos /\ c # pos
      BY <1>1, <1>2, <1>3
    <3>3. /\ l.lo + 1 <= c /\ All(l.lo + 1, c, Decimal) /\ l.min = Value(l.lo + 1, c, 10)
          /\ l.max = Value(c + 1, pos, 10)
      BY <1>2, <1>3, <2>2
    <3> QED BY <1>2, <1>3, <3>1, <3>2, <3>3, Zenon DEF Bounded
  <2>4. c # pos
    BY <1>1, <1>2, <1>3
  <2>5. BoundsAt("bounds_end", l, pos) /\ Elsewise("bounds_end", l, pos)
    BY <1>1, <1>2, <2>2, <2>3, <2>4 DEF BoundsAt, Elsewise, InBounds
  <2>6. pos = pos + 0 /\ Advance(0, "bounds_end", l)
    BY <1>1, <1>5, <2>1
  <2> QED BY <2>5, <2>6, StillBounds
<1> QED BY <1>4, <1>5 DEF LexMax, At, Other

LEMMA BoundsEndIs ==
  ASSUME LexBoundsEnd
  PROVE  \/ /\ pc = "bounds_end" /\ ~AreInOrder
            /\ Fail(0, "NUMBERS_OUT_OF_ORDER_IN_QUANTIFIER", local.lo)
         \/ At("bounds_end", {RightBrace}) /\ AreInOrder /\ Advance(1, "greed", local)
         \/ Other("bounds_end", {RightBrace}) /\ AreInOrder /\ LiteralBrace
BY Zenon DEF LexBoundsEnd, RightBrace

LEMMA BoundsEndBounds ==
  ASSUME LexerInv, BoundsBeing, LexBoundsEnd
  PROVE  BoundsRead'
<1>1. pc = "bounds_end"
  BY BoundsEndIs DEF At, Other
<1>2. /\ local.lo \in Nat /\ local.lo < Len(pattern) /\ Len(pattern) \in Nat
      /\ pos \in Nat /\ pos <= Len(pattern)
      /\ HasShape(local) /\ BoundsFields \subseteq DOMAIN local
      /\ BoundsAt("bounds_end", local, pos)
      /\ Peek = IF pos < Len(pattern) THEN pattern[pos + 1] ELSE "END"
  BY <1>1, InsideBounds DEF InBounds
<1>3. PICK c : /\ Bounded(local, c, pos) /\ NotDigit(pos)
               /\ c = pos /\ pos < Len(pattern) => pattern[pos + 1] # CommaSign
  BY <1>2 DEF BoundsAt
<1>4. /\ c \in Nat /\ local.lo + 1 <= c /\ c <= pos /\ All(local.lo + 1, c, Decimal)
      /\ c < pos => pattern[c + 1] = CommaSign /\ All(c + 1, pos, Decimal)
  BY <1>3 DEF Bounded
<1>5. CASE ~AreInOrder /\ Fail(0, "NUMBERS_OUT_OF_ORDER_IN_QUANTIFIER", local.lo)
  BY <1>5, FailedBounds DEF Fail, FailAt
<1>6. CASE At("bounds_end", {RightBrace}) /\ AreInOrder /\ Advance(1, "greed", local)
  <2>1. pattern[pos + 1] = RightBrace
    BY <1>2, <1>6, EndIsNoSymbol DEF At
  <2>2. local.has_max => local.min <= local.max
    BY <1>6 DEF AreInOrder
  <2>3. BoundsAt("greed", local, pos + 1) /\ Elsewise("greed", local, pos + 1)
    BY <1>2, <1>3, <2>1, <2>2 DEF BoundsAt, Elsewise, InBounds
  <2> QED BY <1>6, <2>3, StillBounds
<1>7. CASE Other("bounds_end", {RightBrace}) /\ LiteralBrace
  <2>1. PICK open, n \in Nat : open = local.lo + 1 /\ n = Len(pattern) /\ open \in Nat
    BY <1>2
  <2>2. pos < n => pattern[pos + 1] \notin Decimal /\ pattern[pos + 1] # RightBrace
    BY <1>2, <1>3, <1>7, <2>1 DEF Other, NotDigit
  <2>3. ASSUME NEW close \in open .. n - 1 PROVE ~IsBounds(open, close)
    <3>1. /\ close \in Nat /\ open <= close /\ close < n /\ open <= c
          /\ All(open, c, Decimal)
      BY <1>2, <1>4, <2>1, <2>3
    <3>2. CASE c < pos
      BY <1>2, <1>4, <2>1, <2>2, <3>1, <3>2, NoBoundsAfterComma
    <3>3. CASE c = pos
      <4>1. c < n => pattern[c + 1] \notin Decimal \cup {CommaSign}
                       \cup (IF open = c THEN {} ELSE {RightBrace})
        BY <1>3, <2>1, <2>2, <3>3
      <4> QED BY <1>4, <2>1, <3>1, <4>1, NoBoundsAfterDigits
    <3> QED BY <1>2, <1>4, <3>2, <3>3
  <2> QED BY <1>2, <1>7, <2>1, <2>3, BraceStands
<1> QED BY <1>5, <1>6, <1>7, BoundsEndIs


-----------------------------------------------------------------------------
(* The token of a quantifier.                                                *)
LEMMA QuantifierEmitted ==
  ASSUME LexerInv, BoundsBeing, pc = "greed", pattern[local.lo + 1] = LeftBrace,
         NEW n \in {0, 1}, NEW type,
         Emit(n, "QUANTIFIER", Quantifier(type)),
         <<type, SubSeq(pattern, pos + 1, pos + n)>> \in Suffixes,
         type = "RELUCTANT" => local.allows_reluctant
  PROVE  BoundsRead'
<1>1. PICK c, q : /\ Bounded(local, c, q) /\ q \in Nat /\ pos = q + 1 /\ pattern[q + 1] = RightBrace
                  /\ local.has_max => local.min <= local.max
  BY DEF BoundsBeing, BoundsAt
<1>2. PICK open \in Nat : open = local.lo + 1
  BY DEF BoundsBeing, BoundsAt
<1>3. /\ c \in Nat /\ open <= c /\ c <= q /\ All(open, c, Decimal)
      /\ c < q => pattern[c + 1] = CommaSign /\ All(c + 1, q, Decimal)
      /\ open < c \/ c + 1 < q
      /\ local.min = Value(open, c, 10)
      /\ local.has_max = (c = q \/ c + 1 < q)
      /\ c = q => local.max = local.min
      /\ c + 1 < q => local.max = Value(c + 1, q, 10)
      /\ local.allows_reluctant => c < q
  BY <1>1, <1>2, Zenon DEF Bounded
<1>4. Len(pattern) \in Nat /\ pos \in Nat /\ pos <= Len(pattern)
  BY DEF LexerInv, Located
<1>5. q \in open .. Len(pattern) - 1
  BY <1>1, <1>3, <1>4
<1>6. IsBounds(open, q)
  <2>1. IsBody(open, q)
    <3>1. CASE c = q
      BY <1>3, <3>1 DEF IsBody
    <3>2. CASE c # q
      <4>1. c \in open .. q - 1 /\ c < q
        BY <1>1, <1>3, <3>2
      <4> QED BY <1>3, <4>1 DEF IsBody
    <3> QED BY <3>1, <3>2
  <2> QED BY <1>1, <2>1, BoundsAre
<1>7. \A d \in open .. Len(pattern) - 1 : IsBounds(open, d) <=> d = q
  <2>1. ASSUME NEW d \in open .. Len(pattern) - 1, IsBounds(open, d) PROVE d = q
    BY <1>1, <1>2, <1>5, <1>6, <2>1, BoundsUnique
  <2> QED BY <1>6, <2>1
<1>8. CommaOf(open, q) = c
  BY <1>1, <1>3, CommaIs
<1>9. /\ pc' = "idle" /\ tok'.lo = local.lo /\ tok'.hi = pos + n /\ tok'.type = "QUANTIFIER"
      /\ tok'.data = Quantifier(type) /\ pattern' = pattern /\ encoding' = encoding
  BY DEF Emit, EmitAt, EmitReleasing, ParserVars, InputVars
<1>10. /\ tok'.data.min = local.min /\ tok'.data.has_max = local.has_max
       /\ tok'.data.max = local.max /\ tok'.data.type = type
  BY <1>9 DEF Quantifier
<1>11. QuantifierRead(open, c, q)'
  <2>1. open = tok'.lo + 1 /\ q \in open .. Len(pattern') - 1
    BY <1>2, <1>5, <1>9
  <2>2. \A d \in open .. Len(pattern') - 1 : IsBounds(open, d)' <=> d = q
    BY <1>7, <1>9, SameIsBounds
  <2>3. CommaOf(open, q)' = c
    BY <1>8, <1>9, SameIsBounds
  <2>4. tok'.data.min = Value(open, c, 10)'
    BY <1>3, <1>9, <1>10, SameValue
  <2>5. tok'.data.has_max = (c = q \/ c + 1 < q)
    BY <1>3, <1>10, Zenon
  <2>6. tok'.data.has_max => tok'.data.min <= tok'.data.max
    BY <1>1, <1>10
  <2>7. tok'.data.has_max => tok'.data.max = IF c = q THEN tok'.data.min ELSE Value(c + 1, q, 10)'
    <3>1. Value(c + 1, q, 10)' = Value(c + 1, q, 10)
      BY <1>9, SameValue
    <3>2. tok'.data.has_max => c = q \/ c + 1 < q
      BY <2>5
    <3>3. c + 1 < q => c # q
      BY <1>1, <1>3
    <3> QED BY <1>3, <1>10, <3>1, <3>2, <3>3
  <2>8. <<tok'.data.type, Text(q + 1, tok.hi)'>> \in Suffixes
    <3>1. Text(q + 1, tok.hi)' = SubSeq(pattern, q + 1 + 1, pos + n)
      BY <1>9 DEF Text
    <3>2. q + 1 + 1 = pos + 1
      BY <1>1
    <3> QED BY <1>10, <3>1, <3>2
  <2>9. tok'.data.type = "RELUCTANT" => c < q
    BY <1>3, <1>10
  <2> QED BY <1>9, <2>1, <2>2, <2>3, <2>4, <2>5, <2>6, <2>7, <2>8, <2>9, Zenon DEF QuantifierRead, Suffixes
<1>12. HasQuantifier'
  BY <1>11 DEF HasQuantifier
<1>13. TokenBeing'
  BY <1>12 DEF TokenBeing
<1>14. BoundsAt(pc, local, pos)' /\ Elsewise(pc, local, pos)' /\ pattern' \in Seq(Symbols)
  BY <1>9 DEF BoundsAt, Elsewise, InBounds, BoundsBeing
<1> QED BY <1>9, <1>13, <1>14 DEF BoundsRead, BoundsBeing

LEMMA QuantifierBounds ==
  ASSUME LexerInv, BoundsBeing, LexQuantifierType
  PROVE  BoundsRead'
<1>1. pc = "greed" /\ HasShape(local) /\ pos \in Nat /\ Len(pattern) \in Nat /\ pattern \in Seq(Symbols)
  BY DEF LexQuantifierType, At, Other, LexerInv, Located, BoundsBeing
<1>2. PICK n, type : /\ n \in {0, 1} /\ Emit(n, "QUANTIFIER", Quantifier(type))
                     /\ type = "RELUCTANT" => local.allows_reluctant
                     /\ \/ n = 1 /\ type = "RELUCTANT" /\ Peek = "?"
                        \/ n = 1 /\ type = "POSSESSIVE" /\ Peek = "+"
                        \/ n = 0 /\ type = "GREEDY"
  BY DEF LexQuantifierType, At
<1>3. CASE pattern[local.lo + 1] # LeftBrace
  <2>1. Outside
    BY <1>1, <1>2, <1>3, LeavesOutside
  <2> QED BY <2>1, OutsideKeeps
<1>4. CASE pattern[local.lo + 1] = LeftBrace
  <2>1. <<type, SubSeq(pattern, pos + 1, pos + n)>> \in Suffixes
    <3>1. CASE n = 0
      <4>1. SubSeq(pattern, pos + 1, pos + n) = <<>>
        BY <1>1, <3>1
      <4>2. <<type, SubSeq(pattern, pos + 1, pos + n)>> = <<"GREEDY", <<>>>>
        BY <1>2, <3>1, <4>1
      <4> QED BY <4>2, Zenon DEF Suffixes
    <3>2. CASE n = 1
      <4>1. pos < Len(pattern) /\ Peek = pattern[pos + 1]
        BY <1>1, <1>2, <3>2 DEF Peek, AtEnd
      <4>2. PICK k : k = pos + 1
        OBVIOUS
      <4>3. k \in 1 .. Len(pattern)
        BY <1>1, <4>1, <4>2
      <4>4. SubSeq(pattern, k, k) = <<pattern[k]>>
        <5>1. PICK x : x = SubSeq(pattern, k, k)
          OBVIOUS
        <5>2. x \in Seq(Symbols) /\ Len(x) = 1 /\ x[1] = pattern[k]
          BY <1>1, <4>3, <5>1
        <5>3. x = <<x[1]>>
          BY <5>2
        <5> QED BY <5>1, <5>2, <5>3
      <4>5. SubSeq(pattern, pos + 1, pos + n) = <<Peek>>
        BY <3>2, <4>1, <4>2, <4>4
      <4>6. CASE type = "RELUCTANT" /\ Peek = "?"
        <5>1. <<type, SubSeq(pattern, pos + 1, pos + n)>> = <<"RELUCTANT", <<"?">>>>
          BY <4>5, <4>6
        <5> QED BY <5>1, Zenon DEF Suffixes
      <4>7. CASE type = "POSSESSIVE" /\ Peek = "+"
        <5>1. <<type, SubSeq(pattern, pos + 1, pos + n)>> = <<"POSSESSIVE", <<"+">>>>
          BY <4>5, <4>7
        <5> QED BY <5>1, Zenon DEF Suffixes
      <4>8. n # 0
        BY <3>2
      <4> QED BY <1>2, <4>6, <4>7, <4>8, Zenon
    <3> QED BY <1>2, <3>1, <3>2
  <2> QED BY <1>1, <1>2, <1>4, <2>1, QuantifierEmitted
<1> QED BY <1>3, <1>4


-----------------------------------------------------------------------------
LEMMA QuantifierIsRight ==
  ASSUME HasQuantifier
  PROVE  BoundsAreQuantifiers
<1>1. PICK open, comma, close : QuantifierRead(open, comma, close)
  BY DEF HasQuantifier
<1> DEFINE closes == {d \in open .. Len(pattern) - 1 : IsBounds(open, d)}
<1>2. closes = {close}
  BY <1>1 DEF QuantifierRead
<1>3. closes # {} /\ (CHOOSE d \in closes : TRUE) = close
  BY <1>2
<1> HIDE DEF closes
<1>4. open = tok.lo + 1
  BY <1>1 DEF QuantifierRead
<1>5. closes = {d \in tok.lo + 1 .. Len(pattern) - 1 : IsBounds(tok.lo + 1, d)}
  BY <1>4, Zenon DEF closes
<1> QED BY <1>1, <1>3, <1>4, <1>5, Zenon DEF BoundsAreQuantifiers, QuantifierRead

LEMMA TokenIsRight ==
  ASSUME TokenBeing
  PROVE  BoundsAreQuantifiers
<1>1. tok.type = "END" \/ pattern[tok.lo + 1] # LeftBrace => BoundsAreQuantifiers
  BY Zenon DEF BoundsAreQuantifiers, LeftBrace
<1>2. LiteralRead => BoundsAreQuantifiers
  <2> SUFFICES ASSUME LiteralRead PROVE BoundsAreQuantifiers
    OBVIOUS
  <2>1. {close \in tok.lo + 1 .. Len(pattern) - 1 : IsBounds(tok.lo + 1, close)} = {}
    BY DEF LiteralRead
  <2> QED BY <2>1, Zenon DEF BoundsAreQuantifiers, LiteralRead
<1>3. pc # "idle" => BoundsAreQuantifiers
  BY Zenon DEF BoundsAreQuantifiers, HasToken
<1> QED BY <1>1, <1>2, <1>3, QuantifierIsRight DEF TokenBeing

LEMMA SameToken ==
  ASSUME TokenBeing, pattern' = pattern, encoding' = encoding, tok' = tok, pc' = pc
  PROVE  TokenBeing'
<1>1. LiteralRead => LiteralRead'
  BY SameIsBounds DEF LiteralRead
<1>2. ASSUME NEW open, NEW comma, NEW close, QuantifierRead(open, comma, close)
      PROVE  QuantifierRead(open, comma, close)'
  <2>1. /\ Value(open, comma, 10)' = Value(open, comma, 10)
        /\ Value(comma + 1, close, 10)' = Value(comma + 1, close, 10)
        /\ CommaOf(open, close)' = CommaOf(open, close)
        /\ Text(close + 1, tok.hi)' = Text(close + 1, tok.hi)
    BY SameValue, SameIsBounds DEF Text
  <2>2. \A d \in open .. Len(pattern') - 1 : IsBounds(open, d)' <=> d = close
    BY <1>2, SameIsBounds DEF QuantifierRead
  <2> QED BY <1>2, <2>1, <2>2 DEF QuantifierRead, Suffixes
<1>3. HasQuantifier => HasQuantifier'
  BY <1>2 DEF HasQuantifier
<1> QED BY <1>1, <1>3 DEF TokenBeing

LEMMA BoundSteps ==
  ASSUME Next, pc \in {"greed"} \cup InBounds
  PROVE  \/ InvalidBytes
         \/ LexMin \/ LexComma \/ LexBoundsEnd \/ LexQuantifierType
         \/ LexMax /\ pc \in {"comma", "max"}
<1>1. ~Lex /\ ~NumberDigit /\ ~NumberTooLarge /\ ~NumberEnd
  BY DEF Lex, NumberDigit, NumberTooLarge, NumberEnd, AtDigit, InBounds
<1>2. LexToken => LexMin \/ LexComma \/ LexMax \/ LexBoundsEnd \/ LexQuantifierType
  <2>1. ~(Comment \/ LexSpecifier \/ LexLookbehind \/ LexCondition \/ LexConditionClose \/ LexOption)
    BY DEF Comment, LexSpecifier, LexLookbehind, LexCondition, LexConditionClose, LexOption,
       At, Other, InBounds
  <2>2. ~(LexEnd \/ SkipWhitespace \/ OpenComment \/ LexSimple \/ LexLiteral \/ LexQuantifier
           \/ OpenBounds \/ OpenGroup)
    BY DEF LexEnd, SkipWhitespace, OpenComment, LexSimple, LexLiteral, LexQuantifier, OpenBounds,
       OpenGroup, At, Other, InBounds
  <2> QED BY <2>1, <2>2 DEF LexToken
<1>3. ~LexReferences
  BY DEF LexReferences, LexReference, LexSign, LexNumbered, LexDepth, LexClose, LexName,
     TrimName, LexNamed, At, Other, InBounds
<1>4. ~LexEscapes
  BY DEF LexEscapes, OpenEscape, LexEscapedAssertion, LexEscapedType, LexProperty,
     LexNamedReference, LexBare, LexCommonEscape, LexEscape, LexNumberedByte, LexMeta,
     LexControl, LexBytes, LexUnicode, LexUnicodeNumber, LexBrace, LexBraceNumber, LexBraceNext,
     At, Other, InBounds
<1>5. LexMax => pc \in {"comma", "max"}
  BY DEF LexMax, At, Other
<1> QED BY <1>1, <1>2, <1>3, <1>4, <1>5 DEF Next

LEMMA LexOutside ==
  ASSUME Lex
  PROVE  Outside
<1>1. /\ UNCHANGED <<encoding, pattern, pos>> /\ local' = Local(pos) /\ pc' \in {"in_brace", "token"}
  BY DEF Lex, InputVars
<1>2. local'.lo = pos'
  BY <1>1 DEF Local
<1>3. local' = Local(pos')
  BY <1>1
<1> QED BY <1>1, <1>2, <1>3 DEF Outside, InBounds, Pending

(* lex_bounded_quantifier: for every pattern, a brace is a quantifier just   *)
(* if bounds are written there, with those numbers as its bounds, and what   *)
(* follows the brace makes it reluctant only if there was a choice; else it  *)
(* is one character.                                                         *)
THEOREM BoundsAreRead == Spec => []BoundsAreQuantifiers
<1>1. Init => BoundsRead
  <2> SUFFICES ASSUME Init PROVE BoundsRead
    OBVIOUS
  <2>1. /\ pattern \in Seq(Symbols) /\ pc = "token" /\ pos = 0 /\ local = Local(0)
    BY LexerAssumption DEF Init
  <2>2. /\ local.explicit = FALSE /\ local.has_max = FALSE /\ local.min = 0
        /\ local.allows_reluctant = TRUE /\ BoundsFields \subseteq DOMAIN local
    BY <2>1 DEF Local, BoundsFields
  <2>3. BoundsAt("token", local, pos)
    BY <2>2 DEF BoundsAt, InBounds
  <2>4. TokenBeing
    BY <2>1 DEF TokenBeing
  <2> QED BY <2>1, <2>3, <2>4 DEF BoundsRead, BoundsBeing, Elsewise
<1>2. LexerInv /\ BoundsRead /\ [Next]_vars => BoundsRead'
  <2> SUFFICES ASSUME LexerInv, BoundsRead, [Next]_vars PROVE BoundsRead'
    OBVIOUS
  <2>1. BoundsBeing
    BY DEF BoundsRead
  <2>2. CASE UNCHANGED vars
    <3>1. /\ pattern' = pattern /\ encoding' = encoding /\ pc' = pc /\ local' = local /\ pos' = pos
          /\ tok' = tok
      BY <2>2 DEF vars, ParserVars, InputVars
    <3>2. TokenBeing'
      BY <3>1, SameToken DEF BoundsRead
    <3>3. BoundsAt(pc, local, pos)' /\ Elsewise(pc, local, pos)'
      <4>1. PICK where, l, p : where = pc /\ l = local /\ p = pos
        OBVIOUS
      <4>2. BoundsAt(where, l, p)' /\ Elsewise(where, l, p)'
        BY <2>1, <3>1, <4>1, SameBounds DEF BoundsBeing
      <4> QED BY <3>1, <4>1, <4>2, Zenon DEF BoundsAt, Elsewise, Pending
    <3>4. (pc = "number" => NumberAt(local.number.after, local, pos))'
      <4>1. PICK after, l, p : after = local.number.after /\ l = local /\ p = pos
        OBVIOUS
      <4>2. pc = "number" => NumberAt(after, l, p)'
        BY <2>1, <3>1, <4>1, SameBounds DEF BoundsBeing
      <4> QED BY <3>1, <4>1, <4>2, Zenon DEF NumberAt
    <3> QED BY <2>1, <3>1, <3>2, <3>3, <3>4 DEF BoundsRead, BoundsBeing
  <2>3. CASE Next /\ pc \notin {"idle", "token", "number"} \cup OwnPoints
    BY <2>1, <2>3, ElsewhereIsOutside, OutsideKeeps
  <2>4. CASE Next /\ pc = "idle"
    BY <2>1, <2>4, IdleSteps, LexOutside, OutsideKeeps
  <2>5. CASE Next /\ pc = "token"
    BY <2>1, <2>5, TokenBounds
  <2>6. CASE Next /\ pc = "number"
    BY <2>1, <2>6, NumberBounds
  <2>7. CASE Next /\ pc \in OfOptions
    BY <2>1, <2>7, GroupOutside, OutsideKeeps
  <2>8. CASE Next /\ pc \in {"greed"} \cup InBounds
    <3>1. CASE InvalidBytes
      BY <2>1, <3>1, InvalidOutside, OutsideKeeps
    <3>2. CASE LexMax /\ pc \in {"comma", "max"}
      BY <2>1, <3>2, MaxBounds, MaxDoneBounds
    <3>3. CASE LexMin \/ LexComma \/ LexBoundsEnd \/ LexQuantifierType
      BY <2>1, <3>3, MinBounds, CommaBounds, BoundsEndBounds, QuantifierBounds
    <3> QED BY <2>8, <3>1, <3>2, <3>3, BoundSteps
  <2> QED BY <2>2, <2>3, <2>4, <2>5, <2>6, <2>7, <2>8 DEF OwnPoints, OfOptions
<1>3. BoundsRead => BoundsAreQuantifiers
  BY TokenIsRight DEF BoundsRead
<1>4. Spec => []LexerInv
  BY LexerInvariant
<1> QED BY <1>1, <1>2, <1>3, <1>4, PTL DEF Spec

-----------------------------------------------------------------------------
(* Once it is clear what a token is, its text only grows: the lexer does not *)
(* go back behind its first character, and forgets no token.                 *)
Openings == {"token", "comment", "group", "specifier", "escaped", "carriage_return"}

IsBare(where, l) == where = "bare" \/ (where = "number" /\ l.number.after = "bare")

Forward ==
  /\ UNCHANGED <<encoding, pattern, options>>
  /\ pc' \notin Openings
  /\ pc' # "idle" => tokens' = tokens
  /\ pc' = "idle" => /\ tok'.lo = local.lo /\ tok'.hi = pos' /\ tok'.type # "END"
                     /\ tokens' = Append(tokens, tok')
  /\ pc' \notin {"idle", "failed"} => local'.lo = local.lo
  /\ pc' # "failed" => \/ pos' \in {pos, pos + 1, local.lo + 1}
                       \/ pc = "bare" /\ pos' \in {local.escape + 1, local.escape + 2}
  /\ IsBare(pc', local') => IsBare(pc, local) /\ local'.escape = local.escape

(* Points a token can go on to without being read anew.                      *)
Onward(where) == where \notin Openings \cup {"bare", "idle", "failed", "number"}

LEMMA ForwardTo ==
  ASSUME pos \in Nat, NEW n \in {0, 1}, NEW where, Onward(where), NEW l, l.lo = local.lo,
         Advance(n, where, l)
  PROVE  Forward
BY DEF Advance, Forward, Onward, IsBare, ParserVars, InputVars

LEMMA ForwardWarned ==
  ASSUME pos \in Nat, NEW condition, NEW warning, NEW where, Onward(where), NEW l, l.lo = local.lo,
         Warn(condition, warning, 1, where, l)
  PROVE  Forward
BY DEF Warn, Forward, Onward, IsBare, ParserVars, InputVars

LEMMA ForwardRead ==
  ASSUME pos \in Nat, HasShape(local), NEW n \in {0, 1}, NEW l, l.lo = local.lo, "number" \in DOMAIN l,
         NEW base, NEW most, NEW limit, NEW error_code, NEW after, after # "bare",
         Read(n, Number(base, most, limit, error_code, after), l)
  PROVE  Forward
<1>1. PICK number : number = [Number(base, most, limit, error_code, after) EXCEPT !.lo = pos + n]
  OBVIOUS
<1>2. number.after = after
  BY <1>1 DEF Number
<1>3. PICK new : new = [l EXCEPT !.number = number]
  OBVIOUS
<1>4. new.number = number /\ new.lo = local.lo
  BY <1>3
<1>5. Advance(n, "number", new)
  BY <1>1, <1>3 DEF Read
<1> QED BY <1>2, <1>4, <1>5 DEF Advance, Forward, Openings, IsBare, ParserVars, InputVars

LEMMA ForwardEmit ==
  ASSUME pos \in Nat, NEW hi, hi \in {pos, pos + 1, local.lo + 1},
         NEW addresses, NEW type, type # "END", NEW data, EmitReleasing(addresses, hi, type, data)
  PROVE  Forward
BY DEF EmitReleasing, Forward, Openings, IsBare, ParserVars, InputVars

LEMMA ForwardToken ==
  ASSUME pos \in Nat, NEW n \in {0, 1}, NEW type, type # "END", NEW data, NEW warning,
         Emit(n, type, data) \/ EmitWarned(n, type, data, warning)
  PROVE  Forward
<1>1. EmitReleasing({}, pos + n, type, data)
  BY DEF Emit, EmitWarned, EmitAt
<1>2. pos + n \in {pos, pos + 1, local.lo + 1}
  OBVIOUS
<1> QED BY <1>1, <1>2, ForwardEmit

LEMMA ForwardFail ==
  ASSUME NEW addresses, NEW at, NEW code, NEW span, FailReleasing(addresses, at, code, span)
  PROVE  Forward
BY DEF FailReleasing, Forward, Openings, IsBare, ParserVars, InputVars

LEMMA ForwardFails ==
  ASSUME NEW n, NEW at, NEW code, NEW span, NEW lo,
         \/ FailAt(at, code, span) \/ Fail(n, code, lo) \/ FailHere(n, code)
         \/ Unterminated \/ Incomplete(n) \/ OutOfMemory(n) \/ Unclosed
  PROVE  Forward
<1>1. FailAt(at, code, span) \/ Fail(n, code, lo) \/ FailHere(n, code) => Forward
  BY ForwardFail DEF FailAt, Fail, FailHere
<1>2. Incomplete(n) \/ OutOfMemory(n) \/ Unclosed => Forward
  BY ForwardFail DEF FailAt, Fail, FailHere, Incomplete, OutOfMemory, Unclosed
<1>3. Unterminated => Forward
  BY ForwardFail DEF FailAt, Fail, FailHere, Incomplete, Unterminated
<1> QED BY <1>1, <1>2, <1>3

LEMMA ForwardName ==
  ASSUME pos \in Nat, NEW bytes, NEW is_next, NEW n \in {0, 1}, NEW where, Onward(where),
         NEW l, l.lo = local.lo,
         OpenName \/ AppendToName(bytes, is_next, n, where, l)
  PROVE  Forward
<1>1. OpenName => Forward
  BY DEF OpenName, Forward, Openings, IsBare, ParserVars, InputVars
<1>2. OutOfMemory(n) => Forward
  BY ForwardFails
<1>3. ASSUME pos' = pos + n, pc' = where, local' = l,
             UNCHANGED <<ParserVars, in_unicode_escape_brace, tok, tokens, error, warnings>>
      PROVE  Forward
  BY <1>3 DEF Forward, Onward, IsBare, ParserVars, InputVars
<1>4. AppendToName(bytes, is_next, n, where, l) => Forward
  BY <1>2, <1>3 DEF AppendToName
<1> QED BY <1>1, <1>4

LEMMA ForwardCode ==
  ASSUME pos \in Nat, NEW n \in {0, 1}, NEW data, NEW is_unclosed \in BOOLEAN, Deliver(n, data, is_unclosed)
  PROVE  Forward
<1>1. pos + n \in {pos, pos + 1, local.lo + 1} /\ "CODE" # "END"
  OBVIOUS
<1>2. EmitAt(pos + n, "CODE", data) => Forward
  BY <1>1, ForwardEmit DEF EmitAt
<1>3. Onward("in_brace") /\ Onward("name")
  BY DEF Onward, Openings
<1>4. AppendToName(Encode(data.value), FALSE, n, IF is_unclosed THEN "in_brace" ELSE "name", local)
        => Forward
  BY <1>3, ForwardName
<1> QED BY <1>2, <1>4, ForwardFails DEF Deliver

LEMMA ByteForward ==
  ASSUME HasShape(local), pos \in Nat, NEW n \in {0, 1}, NEW byte, ReadByte(n, byte)
  PROVE  Forward
<1>1. PICK l : l = [local EXCEPT !.bytes = Append(@, WithMeta(WithControl(byte))),
                                 !.control = FALSE, !.meta = FALSE]
  OBVIOUS
<1>2. l.lo = local.lo
  BY <1>1 DEF HasShape, Fields
<1>3. Advance(n, "bytes", l)
  BY <1>1 DEF ReadByte
<1> QED BY <1>2, <1>3, ForwardTo DEF Onward, Openings

LEMMA TokenForward ==
  ASSUME HasShape(local), pos \in Nat, LexToken, pc \notin {"idle", "number"} \cup Openings
  PROVE  Forward
<1> USE DEF Openings
<1>1. LexMin => Forward
  <2>1. LiteralBrace => Forward
    BY ForwardEmit DEF LiteralBrace, EmitAt
  <2>2. [local EXCEPT !.explicit = TRUE].lo = local.lo /\ "number" \in DOMAIN [local EXCEPT !.explicit = TRUE]
    BY DEF HasShape, Fields
  <2>3. Read(0, Bound("min"), [local EXCEPT !.explicit = TRUE]) => Forward
    BY <2>2, ForwardRead DEF Bound, DecimalNumber
  <2>4. Advance(1, "comma", local) => Forward
    BY ForwardTo DEF Onward
  <2> QED BY <2>1, <2>3, <2>4 DEF LexMin
<1>2. LexComma => Forward
  <2>1. LiteralBrace => Forward
    BY ForwardEmit DEF LiteralBrace, EmitAt
  <2>2. Advance(1, "comma", [local EXCEPT !.min = local.number.value]) => Forward
    BY ForwardTo DEF Onward, HasShape, Fields
  <2>3. ASSUME NEW l, l = [local EXCEPT !.min = local.number.value, !.max = local.number.value,
                                        !.has_max = TRUE, !.allows_reluctant = FALSE],
               Advance(0, "bounds_end", l)
        PROVE  Forward
    <3>1. l.lo = local.lo
      BY <2>3 DEF HasShape, Fields
    <3> QED BY <2>3, <3>1, ForwardTo DEF Onward
  <2> QED BY <2>1, <2>2, <2>3 DEF LexComma
<1>3. LexMax => Forward
  <2>1. LiteralBrace => Forward
    BY ForwardEmit DEF LiteralBrace, EmitAt
  <2>2. [local EXCEPT !.has_max = TRUE].lo = local.lo /\ "number" \in DOMAIN [local EXCEPT !.has_max = TRUE]
    BY DEF HasShape, Fields
  <2>3. Read(0, Bound("max"), [local EXCEPT !.has_max = TRUE]) => Forward
    BY <2>2, ForwardRead DEF Bound, DecimalNumber
  <2>4. Advance(0, "bounds_end", local) => Forward
    BY ForwardTo DEF Onward
  <2>5. Advance(0, "bounds_end", [local EXCEPT !.max = local.number.value]) => Forward
    BY ForwardTo DEF Onward, HasShape, Fields
  <2> QED BY <2>1, <2>3, <2>4, <2>5 DEF LexMax
<1>4. LexBoundsEnd => Forward
  <2>1. LiteralBrace => Forward
    BY ForwardEmit DEF LiteralBrace, EmitAt
  <2>2. Advance(1, "greed", local) => Forward
    BY ForwardTo DEF Onward
  <2> QED BY <2>1, <2>2, ForwardFails DEF LexBoundsEnd
<1>5. LexQuantifierType => Forward
  BY ForwardToken DEF LexQuantifierType
<1>6. LexLookbehind => Forward
  <2>1. Reference("group", ">", pos).lo = local.lo
    BY DEF Reference, HasShape, Fields
  <2>2. Advance(0, "reference", Reference("group", ">", pos)) => Forward
    BY <2>1, ForwardTo DEF Onward
  <2> QED BY <2>2, ForwardFails, ForwardToken DEF LexLookbehind
<1>7. LexCondition => Forward
  <2>1. \A kind, quote, lo : Reference(kind, quote, lo).lo = local.lo
    BY DEF Reference, HasShape, Fields
  <2>2. \A kind, quote, lo : \A n \in {0, 1} : Advance(n, "reference", Reference(kind, quote, lo)) => Forward
    BY <2>1, ForwardTo DEF Onward
  <2> QED BY <2>2, ForwardFails DEF LexCondition
<1>8. LexConditionClose => Forward
  BY ForwardFails, ForwardToken DEF LexConditionClose
<1>9. LexOption => Forward
  <2>1. [local EXCEPT !.option = Switched(@, Peek, local.positive)].lo = local.lo
    BY DEF HasShape, Fields
  <2>2. [local EXCEPT !.positive = Negated(@)].lo = local.lo
    BY DEF HasShape, Fields
  <2>3. Advance(1, "option", [local EXCEPT !.option = Switched(@, Peek, local.positive)]) => Forward
    BY <2>1, ForwardTo DEF Onward
  <2>4. Warn(~local.positive, "REDUNDANT_GROUP_OPTION_MINUS", 1, "option",
             [local EXCEPT !.positive = Negated(@)]) => Forward
    BY <2>2, ForwardWarned DEF Onward
  <2> QED BY <2>3, <2>4, ForwardFails, ForwardToken DEF LexOption
<1>10. pc # "token" /\ pc # "comment" /\ pc # "group" /\ pc # "specifier"
  OBVIOUS
<1>11. ~(LexEnd \/ SkipWhitespace \/ OpenComment \/ Comment \/ LexSimple \/ LexLiteral
          \/ LexQuantifier \/ OpenBounds \/ OpenGroup \/ LexSpecifier)
  BY <1>10 DEF LexEnd, SkipWhitespace, OpenComment, Comment, LexSimple, LexLiteral, LexQuantifier,
     OpenBounds, OpenGroup, LexSpecifier, At, Other
<1> QED BY <1>1, <1>2, <1>3, <1>4, <1>5, <1>6, <1>7, <1>8, <1>9, <1>11, Zenon DEF LexToken

LEMMA ReferenceForward ==
  ASSUME HasShape(local), pos \in Nat, LexReferences
  PROVE  Forward
<1> USE DEF Openings, Onward
<1>0. "number" \in DOMAIN local /\ 0 \in {0, 1} /\ 1 \in {0, 1}
  BY DEF HasShape, Fields
<1>1. LexReference => Forward
  <2>1. [local EXCEPT !.num_lo = pos].lo = local.lo /\ "number" \in DOMAIN [local EXCEPT !.num_lo = pos]
    BY DEF HasShape, Fields
  <2>2. Read(0, CaptureNumber, [local EXCEPT !.num_lo = pos]) => Forward
    BY <1>0, <2>1, ForwardRead DEF CaptureNumber, DecimalNumber
  <2>3. Advance(1, "sign", [local EXCEPT !.num_lo = pos, !.sign = -1]) => Forward
    BY ForwardTo DEF HasShape, Fields
  <2>4. OpenName => Forward
    BY <1>0, ForwardName
  <2> QED BY <2>2, <2>3, <2>4, ForwardFails DEF LexReference
<1>2. LexSign => Forward
  <2>1. Read(0, CaptureNumber, local) => Forward
    BY <1>0, ForwardRead DEF CaptureNumber, DecimalNumber
  <2> QED BY <2>1, ForwardFails DEF LexSign
<1>3. LexNumbered => Forward
  <2>1. ASSUME NEW number, NEW where \in {"depth", "close"}, NEW l,
               l = [local EXCEPT !.num = number, !.has_num = TRUE], Advance(0, where, l)
        PROVE  Forward
    <3>1. l.lo = local.lo
      BY <2>1 DEF HasShape, Fields
    <3> QED BY <1>0, <2>1, <3>1, ForwardTo
  <2> QED BY <2>1, ForwardFails DEF LexNumbered
<1>4. LexDepth => Forward
  <2>1. ASSUME NEW l \in {[local EXCEPT !.name_hi = pos],
                          [local EXCEPT !.depth_lo = pos, !.sign = IF Peek = "+" THEN 1 ELSE -1],
                          [local EXCEPT !.has_depth = TRUE, !.depth = local.sign * local.number.value,
                                        !.name_hi = pos]},
               NEW n \in {0, 1}, NEW where \in {"depth_sign", AfterReference}, Advance(n, where, l)
        PROVE  Forward
    <3>1. l.lo = local.lo
      BY <2>1 DEF HasShape, Fields
    <3> QED BY <2>1, <3>1, ForwardTo DEF AfterReference
  <2>2. Read(0, CaptureDepth, local) => Forward
    BY <1>0, ForwardRead DEF CaptureDepth, DecimalNumber
  <2> QED BY <2>1, <2>2, ForwardFails DEF LexDepth
<1>5. LexClose => Forward
  <2>1. Advance(1, "condition_close", [local EXCEPT !.name_hi = pos]) => Forward
    BY ForwardTo DEF HasShape, Fields
  <2> QED BY <2>1, ForwardFails, ForwardToken DEF LexClose
<1>6. LexName => Forward
  <2>1. Advance(1, "name_escape", [local EXCEPT !.escape = pos, !.first = pos, !.bytes = <<>>]) => Forward
    BY ForwardTo DEF HasShape, Fields
  <2>2. \A bytes : AppendToName(bytes, TRUE, 1, "name", local) => Forward
    BY <1>0, ForwardName
  <2>3. Advance(1, "unicode", local) \/ Advance(0, "escape", local) => Forward
    BY ForwardTo
  <2> QED BY <2>1, <2>2, <2>3, ForwardFails DEF LexName
<1>7. TrimName => Forward
  <2>1. ASSUME pos' = pos, pc' = "named", local' = local, UNCHANGED <<ParserVars, tok, tokens>>
        PROVE  Forward
    BY <2>1 DEF Forward, IsBare, ParserVars, InputVars
  <2> QED BY <2>1, ForwardFails DEF TrimName
<1>8. LexNamed => Forward
  <2>1. ASSUME NEW data, EmitReleasing(name.owns, pos + 1, "CHAR_PROP", data)
        PROVE  Forward
    <3>1. pos + 1 \in {pos, pos + 1, local.lo + 1}
      OBVIOUS
    <3> QED BY <2>1, <3>1, ForwardEmit
  <2>2. Advance(0, "depth", local) \/ Advance(0, "close", local) => Forward
    BY ForwardTo
  <2> QED BY <2>1, <2>2, ForwardFails DEF LexNamed
<1> QED BY <1>1, <1>2, <1>3, <1>4, <1>5, <1>6, <1>7, <1>8, Zenon DEF LexReferences

LEMMA EscapeForward ==
  ASSUME HasShape(local), pos \in Nat, StandsAt(pos, pc, local), LexEscapes, pc \notin {"idle", "number"} \cup Openings
  PROVE  Forward
<1> USE DEF Openings, Onward
<1>0. "number" \in DOMAIN local /\ 0 \in {0, 1} /\ 1 \in {0, 1}
  BY DEF HasShape, Fields
<1>1. ~(OpenEscape \/ LexEscapedAssertion \/ LexEscapedType \/ LexCommonEscape)
  BY DEF OpenEscape, LexEscapedAssertion, LexEscapedType, LexCommonEscape, At, Other
<1>2. ~At("escaped", {"p", "P"}) /\ ~At("escaped", {"k", "g"}) /\ ~At("escaped", Decimal \ {"0"})
  BY DEF At
<1>3. LexProperty => Forward
  <2>1. Reference("property", "}", pos + 1).lo = local.lo
    BY DEF Reference, HasShape, Fields
  <2>2. Advance(1, "negation", Reference("property", "}", pos + 1)) => Forward
    BY <2>1, ForwardTo
  <2>3. Advance(1, "property_name", [local EXCEPT !.positive = ~@, !.name_lo = pos + 1]) => Forward
    BY ForwardTo DEF HasShape, Fields
  <2>4. OpenName => Forward
    BY <1>0, ForwardName
  <2> QED BY <1>2, <2>2, <2>3, <2>4, ForwardToken DEF LexProperty
<1>4. LexNamedReference => Forward
  <2>1. \A kind, quote, lo : Reference(kind, quote, lo).lo = local.lo
    BY DEF Reference, HasShape, Fields
  <2>2. \A kind, quote, lo : Advance(1, "reference", Reference(kind, quote, lo)) => Forward
    BY <2>1, ForwardTo
  <2> QED BY <1>2, <2>2, ForwardToken DEF LexNamedReference
<1>5. LexBare => Forward
  <2>1. LexBare => pc = "bare"
    BY <1>2 DEF LexBare
  <2>2. ASSUME pc = "bare", Advance(local.escape + 1 - pos, "escape", local)
        PROVE  Forward
    <3>1. pos' = local.escape + 1
      BY <2>2 DEF Advance, StandsAt
    <3> QED BY <2>2, <3>1 DEF Advance, Forward, IsBare, ParserVars, InputVars
  <2>3. ASSUME NEW data, pc = "bare", EmitAt(local.escape + 1 + 1, "CODE", data)
        PROVE  Forward
    <3>1. pos' = local.escape + 2
      BY <2>3 DEF EmitAt, EmitReleasing, StandsAt
    <3> QED BY <2>3, <3>1 DEF EmitAt, EmitReleasing, Forward, IsBare, ParserVars, InputVars
  <2>4. ASSUME NEW data, Emit(0, "BACK_REF", data)
        PROVE  Forward
    <3>1. "BACK_REF" # "END"
      OBVIOUS
    <3> QED BY <1>0, <2>4, <3>1, ForwardToken
  <2> DEFINE reference == [Target EXCEPT !.has_num = TRUE, !.num = local.number.value]
             first == local.escape + 1
             digit == CodeData(Code(pattern[first + 1]), local.lo, first + 1)
  <2>5. LexBare => \/ At("escaped", Decimal \ {"0"})
                      /\ Read(0, DecimalNumber(bare_back_ref_max_num_limit, "INTERNAL_ERROR", "bare"), local)
                   \/ pc = "bare" /\ Emit(0, "BACK_REF", reference)
                   \/ pc = "bare" /\ Advance(first - pos, "escape", local)
                   \/ pc = "bare" /\ EmitAt(first + 1, "CODE", digit)
    BY DEF LexBare
  <2>6. CASE pc = "bare" /\ Emit(0, "BACK_REF", reference)
    BY <2>4, <2>6
  <2>7. CASE pc = "bare" /\ EmitAt(first + 1, "CODE", digit)
    BY <2>3, <2>7
  <2>8. CASE pc = "bare" /\ Advance(first - pos, "escape", local)
    <3>1. ASSUME NEW n, n = (local.escape + 1) - pos, pc = "bare", Advance(n, "escape", local)
          PROVE  Forward
      <4>1. pos' = local.escape + 1
        BY <3>1 DEF Advance, StandsAt
      <4> QED BY <3>1, <4>1 DEF Advance, Forward, IsBare, ParserVars, InputVars
    <3> QED BY <2>8, <3>1
  <2> HIDE DEF first, reference, digit
  <2> QED BY <1>2, <2>5, <2>6, <2>7, <2>8
<1>6. LexEscape => Forward
  <2>1. Read(1, Number(16, 2, 0, "SUCCESS", "hex_byte"), local) => Forward
    BY <1>0, ForwardRead
  <2>2. Read(0, Number(8, 3, 0, "SUCCESS", "octal_byte"), local) => Forward
    BY <1>0, ForwardRead
  <2>3. Advance(1, "meta", [local EXCEPT !.meta = TRUE]) => Forward
    BY ForwardTo DEF HasShape, Fields
  <2>4. \A where \in {"control", "control_code"} : Advance(1, where, [local EXCEPT !.control = TRUE]) => Forward
    BY ForwardTo DEF HasShape, Fields
  <2> QED BY <2>1, <2>2, <2>3, <2>4, ByteForward, ForwardFails DEF LexEscape
<1>7. LexNumberedByte => Forward
  BY <1>0, ByteForward, ForwardFails DEF LexNumberedByte
<1>8. LexMeta => Forward
  <2>1. Advance(1, "meta_code", local) \/ Advance(1, "escape", local) => Forward
    BY ForwardTo
  <2> QED BY <2>1, ByteForward, ForwardFails DEF LexMeta
<1>9. LexControl => Forward
  <2>1. Advance(1, "control_code", local) \/ Advance(1, "escape", local) => Forward
    BY ForwardTo
  <2>2. Advance(1, "bytes", [local EXCEPT !.bytes = Append(@, WithMeta(127)), !.control = FALSE,
                                          !.meta = FALSE]) => Forward
    BY ForwardTo DEF HasShape, Fields
  <2> QED BY <2>1, <2>2, ByteForward, ForwardFails DEF LexControl
<1>10. LexBytes => Forward
  <2>1. Advance(1, "escape", [local EXCEPT !.escape = pos]) => Forward
    BY ForwardTo DEF HasShape, Fields
  <2> QED BY <1>0, <2>1, ForwardCode, ForwardFails DEF LexBytes
<1>11. LexUnicode => Forward
  <2>1. Read(0, Number(16, 4, 0, "SUCCESS", "unicode_number"), local) => Forward
    BY <1>0, ForwardRead
  <2>2. Advance(1, "brace_open", local) => Forward
    BY ForwardTo
  <2> QED BY <2>1, <2>2, ForwardFails DEF LexUnicode
<1>12. LexUnicodeNumber => Forward
  BY <1>0, ForwardCode, ForwardFails DEF LexUnicodeNumber
<1>13. LexBrace => Forward
  <2>1. Read(0, BraceNumber, local) => Forward
    BY <1>0, ForwardRead DEF BraceNumber
  <2>2. Advance(1, "brace_open", local) => Forward
    BY ForwardTo
  <2> QED BY <2>1, <2>2, ForwardFails DEF LexBrace
<1>14. LexBraceNumber => Forward
  <2>1. Advance(0, "brace_next", [local EXCEPT !.code_hi = pos]) => Forward
    BY ForwardTo DEF HasShape, Fields
  <2> QED BY <2>1, ForwardFails DEF LexBraceNumber
<1>15. LexBraceNext => Forward
  <2>1. Advance(1, "brace_next", local) => Forward
    BY ForwardTo
  <2> QED BY <1>0, <2>1, ForwardCode, ForwardFails DEF LexBraceNext
<1> QED BY <1>1, <1>3, <1>4, <1>5, <1>6, <1>7, <1>8, <1>9, <1>10, <1>11, <1>12, <1>13, <1>14, <1>15,
           Zenon DEF LexEscapes

LEMMA StepForward ==
  ASSUME HasShape(local), pos \in Nat, StandsAt(pos, pc, local), Next, pc \notin {"idle", "number"} \cup Openings
  PROVE  Forward
<1>1. InvalidBytes => Forward
  BY ForwardFail DEF InvalidBytes
<1>2. ~Lex /\ ~NumberDigit /\ ~NumberTooLarge /\ ~NumberEnd
  BY DEF Lex, NumberDigit, NumberTooLarge, NumberEnd, AtDigit
<1> QED BY <1>1, <1>2, TokenForward, ReferenceForward, EscapeForward DEF Next

-----------------------------------------------------------------------------
(* No symbol is the mark of the end.                                         *)
Space == " "
QuoteSign == "\""
Semicolon == ";"
Underscore == "_"
Signs ==
  <<Space, "!", QuoteSign, "#", "$", "%", "&", "'", "(", ")", "*", "+", CommaSign, "-", ".", "/",
    "0", "1", "2", "3", "4", "5", "6", "7", "8", "9", ":", Semicolon, "<", "=", ">", "?",
    "@", "A", "B", "C", "D", "E", "F", "G", "H", "I", "J", "K", "L", "M", "N", "O",
    "P", "Q", "R", "S", "T", "U", "V", "W", "X", "Y", "Z", "[", "\\", "]", "^", Underscore,
    "GRAVE", "a", "b", "c", "d", "e", "f", "g", "h", "i", "j", "k", "l", "m", "n", "o",
    "p", "q", "r", "s", "t", "u", "v", "w", "x", "y", "z", LeftBrace, "|", RightBrace, "~">>

LEMMA NoSignIsEnd ==
  ASSUME NEW i \in DOMAIN Signs
  PROVE  Signs[i] # "END"
<1>1. /\ CommaSign # "END" /\ LeftBrace # "END" /\ RightBrace # "END" /\ Space # "END"
      /\ QuoteSign # "END" /\ Semicolon # "END" /\ Underscore # "END"
  BY Zenon DEF CommaSign, LeftBrace, RightBrace, Space, QuoteSign, Semicolon, Underscore
<1> QED BY <1>1, SMT DEF Signs

LEMMA NoSymbolIsEnd == "END" \notin Symbols
<1>1. Signs = Printable
  BY Zenon DEF Printable, Signs, CommaSign, LeftBrace, RightBrace, Space, QuoteSign, Semicolon,
     Underscore
<1>2. "END" \notin {Printable[i] : i \in DOMAIN Printable}
  BY <1>1, NoSignIsEnd
<1> QED BY <1>2, Zenon DEF Symbols

LEMMA PeekEnd ==
  ASSUME LexerInv, pattern \in Seq(Symbols)
  PROVE  /\ Peek = "END" => pos = Len(pattern)
         /\ Peek # "END" => pos < Len(pattern) /\ Peek = pattern[pos + 1]
<1>1. pos \in Nat /\ Len(pattern) \in Nat /\ pos <= Len(pattern)
  BY DEF LexerInv, Located
<1>2. pos < Len(pattern) => pattern[pos + 1] \in Symbols
  BY <1>1
<1> QED BY <1>1, <1>2, NoSymbolIsEnd DEF Peek, AtEnd

-----------------------------------------------------------------------------
(* Text without meaning.                                                     *)
LEMMA NothingIgnored ==
  ASSUME NEW a \in Nat
  PROVE  AllIgnored(a, a)
<1>1. {a} \in SUBSET (a .. a)
  OBVIOUS
<1> QED BY <1>1 DEF AllIgnored

LEMMA MoreIgnored ==
  ASSUME NEW a \in Nat, NEW b \in Nat, NEW c \in Nat, AllIgnored(a, b), b < c, IsIgnored(b, c)
  PROVE  AllIgnored(a, c)
<1>1. PICK cuts \in SUBSET (a .. b) :
        /\ {a, b} \subseteq cuts
        /\ \A j \in cuts \ {a} : \E i \in cuts : i < j /\ IsIgnored(i, j)
  BY DEF AllIgnored
<1> DEFINE more == cuts \cup {c}
<1>2. a <= b
  BY <1>1
<1>3. more \in SUBSET (a .. c) /\ {a, c} \subseteq more
  BY <1>1, <1>2
<1>4. ASSUME NEW j \in more \ {a} PROVE \E i \in more : i < j /\ IsIgnored(i, j)
  <2>1. CASE j = c
    BY <1>1, <2>1
  <2>2. CASE j # c
    BY <1>1, <2>2
  <2> QED BY <2>1, <2>2
<1> HIDE DEF more
<1> QED BY <1>3, <1>4 DEF AllIgnored

LEMMA TextIs ==
  ASSUME pattern \in Seq(Symbols), NEW lo \in Nat, NEW hi \in Nat, lo < hi, hi <= Len(pattern)
  PROVE  /\ Text(lo, hi) \in Seq(Symbols)
         /\ Len(Text(lo, hi)) = hi - lo
         /\ \A i \in 1 .. hi - lo : Text(lo, hi)[i] = pattern[lo + i]
<1>1. PICK m, n \in Nat : m = lo + 1 /\ n = hi
  OBVIOUS
<1>2. \A i \in m .. n : pattern[i] \in Symbols
  BY <1>1
<1>3. PICK text : text = SubSeq(pattern, m, n)
  OBVIOUS
<1>4. /\ text \in Seq(Symbols) /\ Len(text) = n - m + 1
      /\ \A i \in 1 .. n - m + 1 : text[i] = pattern[m + i - 1]
  BY <1>1, <1>2, <1>3, SubSeqProperties
<1>5. n - m + 1 = hi - lo /\ \A i \in 1 .. hi - lo : m + i - 1 = lo + i
  BY <1>1
<1>6. text = Text(lo, hi)
  BY <1>1, <1>3 DEF Text
<1> QED BY <1>4, <1>5, <1>6

Pair(a, b) == <<a, b>>
Triple(a, b, c) == <<a, b, c>>

LEMMA TextOf ==
  ASSUME pattern \in Seq(Symbols), NEW lo \in Nat, NEW hi \in Nat, lo < hi, hi <= Len(pattern),
         NEW a, NEW b, NEW c
  PROVE  /\ Text(lo, hi) = Pair(a, b) <=> hi = lo + 2 /\ pattern[lo + 1] = a /\ pattern[lo + 2] = b
         /\ Text(lo, hi) = Triple(a, b, c) <=>
              hi = lo + 3 /\ pattern[lo + 1] = a /\ pattern[lo + 2] = b /\ pattern[lo + 3] = c
<1>1. PICK text : text = Text(lo, hi)
  OBVIOUS
<1>2. /\ text \in Seq(Symbols) /\ Len(text) = hi - lo
      /\ \A i \in 1 .. hi - lo : text[i] = pattern[lo + i]
  BY <1>1, TextIs
<1>3. text = Pair(a, b) <=> Len(text) = 2 /\ text[1] = a /\ text[2] = b
  <2>1. text \in Seq(Symbols)
    BY <1>2
  <2>2. Len(text) = 2 => text = <<text[1], text[2]>>
    BY <2>1
  <2>3. text = <<a, b>> => Len(text) = 2 /\ text[1] = a /\ text[2] = b
    OBVIOUS
  <2> QED BY <2>2, <2>3 DEF Pair
<1>4. text = Triple(a, b, c) <=> Len(text) = 3 /\ text[1] = a /\ text[2] = b /\ text[3] = c
  <2>1. text \in Seq(Symbols)
    BY <1>2
  <2>2. Len(text) = 3 => text = <<text[1], text[2], text[3]>>
    BY <2>1
  <2>3. text = <<a, b, c>> => Len(text) = 3 /\ text[1] = a /\ text[2] = b /\ text[3] = c
    OBVIOUS
  <2> QED BY <2>2, <2>3 DEF Triple
<1>5. /\ Len(text) = 2 => hi = lo + 2 /\ text[1] = pattern[lo + 1] /\ text[2] = pattern[lo + 2]
      /\ Len(text) = 3 => /\ hi = lo + 3 /\ text[1] = pattern[lo + 1]
                          /\ text[2] = pattern[lo + 2] /\ text[3] = pattern[lo + 3]
      /\ hi = lo + 2 => Len(text) = 2
      /\ hi = lo + 3 => Len(text) = 3
  BY <1>2
<1> QED BY <1>1, <1>3, <1>4, <1>5

LEMMA LineBreakIs ==
  ASSUME pattern \in Seq(Symbols), NEW lo \in Nat, NEW hi \in Nat, lo < hi, hi <= Len(pattern)
  PROVE  /\ Text(lo, hi) = <<"\\", "\n">> <=>
              hi = lo + 2 /\ pattern[lo + 1] = "\\" /\ pattern[lo + 2] = "\n"
         /\ Text(lo, hi) = <<"\\", "\r", "\n">> <=>
              hi = lo + 3 /\ pattern[lo + 1] = "\\" /\ pattern[lo + 2] = "\r" /\ pattern[lo + 3] = "\n"
         /\ Text(lo, hi) = <<"(", "?", "#">> <=>
              hi = lo + 3 /\ pattern[lo + 1] = "(" /\ pattern[lo + 2] = "?" /\ pattern[lo + 3] = "#"
<1>1. /\ Text(lo, hi) = Pair("\\", "\n") <=>
           hi = lo + 2 /\ pattern[lo + 1] = "\\" /\ pattern[lo + 2] = "\n"
      /\ Text(lo, hi) = Triple("\\", "\r", "\n") <=>
           hi = lo + 3 /\ pattern[lo + 1] = "\\" /\ pattern[lo + 2] = "\r" /\ pattern[lo + 3] = "\n"
      /\ Text(lo, hi) = Triple("(", "?", "#") <=>
           hi = lo + 3 /\ pattern[lo + 1] = "(" /\ pattern[lo + 2] = "?" /\ pattern[lo + 3] = "#"
  BY TextOf
<1>2. /\ Pair("\\", "\n") = <<"\\", "\n">>
      /\ Triple("\\", "\r", "\n") = <<"\\", "\r", "\n">>
      /\ Triple("(", "?", "#") = <<"(", "?", "#">>
  BY Zenon DEF Pair, Triple
<1> QED BY <1>1, <1>2, Zenon

-----------------------------------------------------------------------------
(* Where a token begins, and what stands between it and the one before.      *)
LastEnd == IF tokens = <<>> THEN 0 ELSE tokens[Len(tokens)].hi
EndBefore == IF Len(tokens) = 1 THEN 0 ELSE tokens[Len(tokens) - 1].hi

HasMeaning(lo) ==
  /\ lo \in Nat /\ lo < Len(pattern)
  /\ ~\E hi \in lo + 1 .. Len(pattern) : IsIgnored(lo, hi)

(* A comment so far.                                                         *)
CommentAt(l, p) ==
  \/ /\ l.terminator = "\n" /\ options.is_extended_mode /\ l.lo < p
     /\ pattern[l.lo + 1] = "#" /\ \A i \in l.lo + 1 .. p : pattern[i] # "\n"
  \/ /\ l.terminator = ")" /\ l.lo + 3 <= p
     /\ pattern[l.lo + 1] = "(" /\ pattern[l.lo + 2] = "?" /\ pattern[l.lo + 3] = "#"
     /\ \A i \in l.lo + 4 .. p : pattern[i] # ")"

OpeningAt(where, l, p) ==
  /\ where = "comment" => CommentAt(l, p)
  /\ where = "group" => p = l.lo + 1 /\ pattern[l.lo + 1] = "("
  /\ where = "specifier" => p = l.lo + 2 /\ pattern[l.lo + 1] = "(" /\ pattern[l.lo + 2] = "?"
  /\ where = "escaped" => p = l.lo + 1 /\ pattern[l.lo + 1] = "\\"
  /\ where = "carriage_return" => /\ p = l.lo + 2 /\ pattern[l.lo + 1] = "\\"
                                  /\ pattern[l.lo + 2] = "\r"

Pends(where, l, p) == Pending(where, l, p) /\ (where = "number" => l.number.base = 16)

Reading(where, l, p) ==
  where \notin {"idle", "failed"} =>
    /\ l.lo \in Nat /\ \E end \in Nat : end = LastEnd /\ AllIgnored(end, l.lo)
    /\ OpeningAt(where, l, p)
    /\ where \notin Openings => (HasMeaning(l.lo) /\ l.lo < p) \/ Pends(where, l, p)
    /\ where = "escaped" \/ IsBare(where, l) => l.escape = l.lo

IsSequence(s) == \E T : s \in Seq(T)

TokenStands ==
  pc = "idle" =>
    /\ tokens # <<>> /\ tokens[Len(tokens)] = tok
    /\ tok.hi = pos
    /\ \E end, lo \in Nat :
         /\ end = EndBefore /\ lo = tok.lo /\ AllIgnored(end, lo)
         /\ IF tok.type = "END" THEN lo = Len(pattern) ELSE HasMeaning(lo) /\ lo < tok.hi

Covered ==
  /\ pattern \in Seq(Symbols) /\ IsSequence(tokens)
  /\ Reading(pc, local, pos) /\ TokenStands

LEMMA LongerBy ==
  ASSUME NEW s, IsSequence(s), NEW e
  PROVE  /\ IsSequence(Append(s, e)) /\ Append(s, e) # <<>>
         /\ Len(Append(s, e)) = Len(s) + 1 /\ Append(s, e)[Len(s) + 1] = e
         /\ Len(s) \in Nat /\ (s = <<>> <=> Len(s) = 0)
         /\ s # <<>> => Append(s, e)[Len(s)] = s[Len(s)]
<1>1. PICK T : s \in Seq(T)
  BY DEF IsSequence
<1>2. PICK R : R = T \cup {e}
  OBVIOUS
<1>3. s \in Seq(R)
  BY <1>1, <1>2
<1>4. Append(s, e) \in Seq(R)
  BY <1>2, <1>3
<1>5. /\ Len(Append(s, e)) = Len(s) + 1 /\ Append(s, e)[Len(s) + 1] = e
      /\ Len(s) \in Nat
      /\ \A i \in 1 .. Len(s) : Append(s, e)[i] = s[i]
  BY <1>2, <1>3
<1>6. s = <<>> <=> Len(s) = 0
  BY <1>1
<1>7. Append(s, e) # <<>>
  BY <1>4, <1>5
<1> QED BY <1>4, <1>5, <1>6, <1>7 DEF IsSequence

LEMMA SameIgnored ==
  ASSUME NEW lo, NEW hi, pattern' = pattern, options' = options
  PROVE  /\ IsIgnored(lo, hi)' = IsIgnored(lo, hi)
         /\ AllIgnored(lo, hi)' = AllIgnored(lo, hi)
<1>1. ASSUME NEW i, NEW j PROVE IsIgnored(i, j)' = IsIgnored(i, j)
  BY Zenon DEF IsIgnored, IsLineComment, IsCommentGroup, Text
<1> QED BY <1>1, Zenon DEF AllIgnored

LEMMA SameMeaning ==
  ASSUME NEW lo, pattern' = pattern, options' = options
  PROVE  HasMeaning(lo)' = HasMeaning(lo)
BY SameIgnored, Zenon DEF HasMeaning

LEMMA SameReading ==
  ASSUME NEW where, NEW l, NEW p, pattern' = pattern, options' = options, tokens' = tokens
  PROVE  Reading(where, l, p)' = Reading(where, l, p)
<1>1. OpeningAt(where, l, p)' = OpeningAt(where, l, p)
  BY DEF OpeningAt, CommentAt
<1>2. LastEnd' = LastEnd
  BY DEF LastEnd
<1>3. Pends(where, l, p)' = Pends(where, l, p)
  BY DEF Pends, Pending
<1>4. \A end : AllIgnored(end, l.lo)' = AllIgnored(end, l.lo)
  BY SameIgnored
<1>5. HasMeaning(l.lo)' = HasMeaning(l.lo)
  BY SameMeaning
<1> QED BY <1>1, <1>2, <1>3, <1>4, <1>5 DEF Reading, IsBare

LEMMA StillCovered ==
  ASSUME Covered, NEW where, NEW l, NEW p, Reading(where, l, p), where # "idle",
         pc' = where, local' = l, pos' = p, pattern' = pattern, options' = options, tokens' = tokens
  PROVE  Covered'
<1>1. Reading(where, l, p)'
  BY SameReading
<1>2. Reading(pc, local, pos)'
  BY <1>1, Zenon DEF Reading, OpeningAt, CommentAt, Pends, Pending, IsBare
<1>3. TokenStands'
  BY DEF TokenStands
<1> QED BY <1>2, <1>3 DEF Covered, IsSequence

(* A token that ends there has no text without meaning at its front.         *)
LEMMA TokenCovered ==
  ASSUME Covered, pc \notin {"idle", "failed"},
         UNCHANGED <<pattern, options>>, pc' = "idle", tokens' = Append(tokens, tok'),
         tok'.lo = local.lo, tok'.hi = pos',
         IF tok'.type = "END" THEN local.lo = Len(pattern) ELSE HasMeaning(local.lo) /\ local.lo < pos'
  PROVE  Covered'
<1>1. PICK lo : lo = local.lo
  OBVIOUS
<1>2. lo \in Nat
  BY <1>1 DEF Covered, Reading
<1>3. PICK end \in Nat : end = LastEnd /\ AllIgnored(end, lo)
  BY <1>1 DEF Covered, Reading
<1>4. /\ IsSequence(tokens') /\ tokens' # <<>>
      /\ Len(tokens') = Len(tokens) + 1 /\ tokens'[Len(tokens')] = tok'
      /\ Len(tokens) \in Nat /\ (tokens = <<>> <=> Len(tokens) = 0)
      /\ tokens # <<>> => tokens'[Len(tokens)] = tokens[Len(tokens)]
  BY LongerBy DEF Covered
<1>5. EndBefore' = end
  <2>1. Len(tokens') - 1 = Len(tokens) /\ (Len(tokens') = 1 <=> tokens = <<>>)
    BY <1>4
  <2> QED BY <1>3, <1>4, <2>1 DEF EndBefore, LastEnd
<1>6. AllIgnored(end, lo)' /\ HasMeaning(lo)' = HasMeaning(lo)
  BY <1>3, SameIgnored, SameMeaning
<1>7. TokenStands'
  BY <1>1, <1>2, <1>4, <1>5, <1>6 DEF TokenStands
<1> QED BY <1>4, <1>7 DEF Covered, Reading, IsSequence

LEMMA FailCovered ==
  ASSUME Covered, NEW addresses, NEW at, NEW code, NEW span, FailReleasing(addresses, at, code, span)
  PROVE  Covered'
BY DEF Covered, FailReleasing, Reading, TokenStands, IsSequence, ParserVars, InputVars

LEMMA ForwardCovered ==
  ASSUME LexerInv, Covered, Forward, pc \notin {"idle", "failed", "number"} \cup Openings,
         ~Pends(pc, local, pos)
  PROVE  Covered'
<1>1. /\ local.lo \in Nat /\ HasMeaning(local.lo) /\ local.lo < pos /\ pos \in Nat
      /\ IsBare(pc, local) => local.escape = local.lo
  BY DEF Covered, Reading, LexerInv, Located
<1>2. CASE pc' = "failed"
  BY <1>2 DEF Covered, Reading, TokenStands, IsSequence, Forward
<1>3. CASE pc' = "idle"
  <2>1. local.lo < pos'
    BY <1>1, <1>3 DEF Forward, IsBare
  <2> QED BY <1>1, <1>3, <2>1, TokenCovered DEF Forward
<1>4. CASE pc' \notin {"idle", "failed"}
  <2>1. PICK where, l, p : where = pc' /\ l = local' /\ p = pos'
    OBVIOUS
  <2>2. l.lo = local.lo /\ local.lo < p /\ where \notin Openings /\ tokens' = tokens
    BY <1>1, <1>4, <2>1 DEF Forward, IsBare
  <2>3. IsBare(where, l) => l.escape = local.lo
    BY <1>1, <1>4, <2>1 DEF Forward, IsBare
  <2>4. \E end \in Nat : end = LastEnd /\ AllIgnored(end, local.lo)
    BY DEF Covered, Reading
  <2>5. Reading(where, l, p)
    BY <1>1, <2>2, <2>3, <2>4 DEF Reading, OpeningAt, Openings
  <2> QED BY <1>4, <2>1, <2>2, <2>5, StillCovered DEF Forward
<1> QED BY <1>2, <1>3, <1>4

-----------------------------------------------------------------------------
LEMMA Blank ==
  ASSUME NEW symbol \in {"(", ")", "[", ".", "^", "$", "|", "*", "+", "?", "\\", LeftBrace} \cup Hex
  PROVE  symbol \notin Whitespace
BY Zenon DEF Whitespace, Hex, Decimal, Octal, LeftBrace

LEMMA IgnoredIs ==
  ASSUME pattern \in Seq(Symbols), NEW lo \in Nat, NEW hi \in Nat, lo < hi, hi <= Len(pattern),
         IsIgnored(lo, hi)
  PROVE  \/ options.is_extended_mode /\ (pattern[lo + 1] = "#" \/ pattern[lo + 1] \in Whitespace)
         \/ pattern[lo + 1] = "(" /\ pattern[lo + 2] = "?" /\ pattern[lo + 3] = "#" /\ lo + 3 <= hi
         \/ pattern[lo + 1] = "\\" /\ pattern[lo + 2] = "\n" /\ lo + 2 = hi
         \/ /\ pattern[lo + 1] = "\\" /\ pattern[lo + 2] = "\r" /\ pattern[lo + 3] = "\n"
            /\ lo + 3 = hi
<1>1. CASE options.is_extended_mode /\ IsLineComment(lo, hi)
  BY <1>1 DEF IsLineComment
<1>2. CASE options.is_extended_mode /\ hi = lo + 1 /\ pattern[hi] \in Whitespace
  BY <1>2
<1>3. CASE IsCommentGroup(lo, hi)
  <2>1. PICK k \in Nat : k = lo + 3
    OBVIOUS
  <2>2. lo < k /\ k <= hi /\ k <= Len(pattern) /\ Text(lo, lo + 3) = Text(lo, k)
    BY <1>3, <2>1 DEF IsCommentGroup
  <2>3. Text(lo, k) = <<"(", "?", "#">>
    BY <1>3, <2>2 DEF IsCommentGroup
  <2> QED BY <2>1, <2>2, <2>3, LineBreakIs
<1>4. CASE Text(lo, hi) = <<"\\", "\n">>
  BY <1>4, LineBreakIs
<1>5. CASE Text(lo, hi) = <<"\\", "\r", "\n">>
  BY <1>5, LineBreakIs
<1>6. \/ options.is_extended_mode /\ IsLineComment(lo, hi)
      \/ options.is_extended_mode /\ hi = lo + 1 /\ pattern[hi] \in Whitespace
      \/ IsCommentGroup(lo, hi) \/ Text(lo, hi) = <<"\\", "\n">> \/ Text(lo, hi) = <<"\\", "\r", "\n">>
  BY Zenon DEF IsIgnored
<1> QED BY <1>1, <1>2, <1>3, <1>4, <1>5, <1>6

LEMMA Means ==
  ASSUME pattern \in Seq(Symbols), NEW lo \in Nat, lo < Len(pattern),
         options.is_extended_mode => pattern[lo + 1] # "#" /\ pattern[lo + 1] \notin Whitespace,
         pattern[lo + 1] = "(" /\ lo + 3 <= Len(pattern) => pattern[lo + 2] # "?" \/ pattern[lo + 3] # "#",
         pattern[lo + 1] = "\\" /\ lo + 2 <= Len(pattern) => pattern[lo + 2] # "\n",
         pattern[lo + 1] = "\\" /\ lo + 3 <= Len(pattern) => pattern[lo + 2] # "\r" \/ pattern[lo + 3] # "\n"
  PROVE  HasMeaning(lo)
<1>1. ASSUME NEW hi \in lo + 1 .. Len(pattern), IsIgnored(lo, hi)
      PROVE  FALSE
  <2>1. hi \in Nat /\ lo < hi /\ hi <= Len(pattern)
    OBVIOUS
  <2>2. \/ options.is_extended_mode /\ (pattern[lo + 1] = "#" \/ pattern[lo + 1] \in Whitespace)
        \/ pattern[lo + 1] = "(" /\ pattern[lo + 2] = "?" /\ pattern[lo + 3] = "#" /\ lo + 3 <= hi
        \/ pattern[lo + 1] = "\\" /\ pattern[lo + 2] = "\n" /\ lo + 2 = hi
        \/ /\ pattern[lo + 1] = "\\" /\ pattern[lo + 2] = "\r" /\ pattern[lo + 3] = "\n"
           /\ lo + 3 = hi
    BY <1>1, <2>1, IgnoredIs
  <2> QED BY <2>1, <2>2
<1> QED BY <1>1 DEF HasMeaning

-----------------------------------------------------------------------------
(* The steps at which it becomes clear what begins here, or that nothing does. *)
LEMMA EmitCovered ==
  ASSUME LexerInv, Covered, pc \notin {"idle", "failed"}, NEW n \in {0, 1}, NEW type, NEW data, NEW warning,
         Emit(n, type, data) \/ EmitWarned(n, type, data, warning),
         IF type = "END" THEN local.lo = Len(pattern) ELSE HasMeaning(local.lo) /\ local.lo < pos + n
  PROVE  Covered'
<1>1. /\ UNCHANGED <<pattern, options>> /\ pc' = "idle" /\ tokens' = Append(tokens, tok')
      /\ tok'.lo = local.lo /\ tok'.hi = pos' /\ tok'.type = type /\ pos' = pos + n
  BY DEF Emit, EmitWarned, EmitAt, EmitReleasing, ParserVars, InputVars
<1> QED BY <1>1, TokenCovered

LEMMA OnwardCovered ==
  ASSUME LexerInv, Covered, pc \notin {"idle", "failed"}, NEW n \in {0, 1}, NEW where,
         NEW l, l.lo = local.lo, Advance(n, where, l), where \notin Openings \cup {"idle", "failed"},
         HasMeaning(local.lo), local.lo < pos + n, IsBare(where, l) => l.escape = local.lo
  PROVE  Covered'
<1>1. PICK p : p = pos + n
  OBVIOUS
<1>2. local.lo \in Nat /\ \E end \in Nat : end = LastEnd /\ AllIgnored(end, local.lo)
  BY DEF Covered, Reading
<1>3. Reading(where, l, p)
  BY <1>1, <1>2 DEF Reading, OpeningAt, Openings
<1>4. /\ pc' = where /\ local' = l /\ pos' = p /\ pattern' = pattern /\ options' = options
      /\ tokens' = tokens
  BY <1>1 DEF Advance, ParserVars, InputVars
<1> QED BY <1>3, <1>4, StillCovered

LEMMA ReadCovered ==
  ASSUME LexerInv, Covered, pc \notin {"idle", "failed"}, NEW n \in {0, 1}, NEW l, l.lo = local.lo,
         "number" \in DOMAIN l, l.escape = local.lo,
         NEW number, Read(n, number, l), HasMeaning(local.lo), local.lo < pos + n
  PROVE  Covered'
<1>1. PICK new : new = [l EXCEPT !.number = [number EXCEPT !.lo = pos + n]]
  OBVIOUS
<1>2. new.lo = local.lo /\ new.escape = local.lo
  BY <1>1
<1>3. Advance(n, "number", new)
  BY <1>1 DEF Read
<1> QED BY <1>2, <1>3, OnwardCovered DEF Openings

LEMMA OpeningCovered ==
  ASSUME LexerInv, Covered, pc \notin {"idle", "failed"}, NEW n \in {0, 1}, NEW where \in Openings,
         NEW l, l.lo = local.lo, Advance(n, where, l), NEW p, p = pos + n, OpeningAt(where, l, p),
         where = "escaped" => l.escape = local.lo
  PROVE  Covered'
<1>1. local.lo \in Nat /\ \E end \in Nat : end = LastEnd /\ AllIgnored(end, local.lo)
  BY DEF Covered, Reading
<1>2. Reading(where, l, p)
  BY <1>1 DEF Reading, Openings, IsBare
<1>3. /\ pc' = where /\ local' = l /\ pos' = p /\ pattern' = pattern /\ options' = options
      /\ tokens' = tokens
  BY DEF Advance, ParserVars, InputVars
<1> QED BY <1>2, <1>3, StillCovered DEF Openings

(* Text without meaning is over: the lexer begins anew behind it.            *)
LEMMA RetryCovered ==
  ASSUME LexerInv, Covered, pc \notin {"idle", "failed"}, NEW n \in {0, 1}, Retry(n), NEW p, p = pos + n,
         local.lo < p, IsIgnored(local.lo, p)
  PROVE  Covered'
<1>1. PICK lo : lo = local.lo
  OBVIOUS
<1>2. pos \in Nat /\ p \in Nat /\ lo \in Nat
  BY <1>1 DEF LexerInv, Located, Covered, Reading
<1>3. PICK end \in Nat : end = LastEnd /\ AllIgnored(end, lo)
  BY <1>1 DEF Covered, Reading
<1>4. AllIgnored(end, p)
  BY <1>1, <1>2, <1>3, MoreIgnored
<1>5. PICK l : l = Local(p)
  OBVIOUS
<1>6. l.lo = p
  BY <1>5 DEF Local
<1>7. Reading("token", l, p)
  BY <1>2, <1>3, <1>4, <1>6 DEF Reading, OpeningAt, Openings, IsBare
<1>8. /\ pc' = "token" /\ local' = l /\ pos' = p /\ pattern' = pattern /\ options' = options
      /\ tokens' = tokens
  BY <1>5 DEF Retry, Advance, ParserVars, InputVars
<1> QED BY <1>7, <1>8, StillCovered

LEMMA InvalidCovered ==
  ASSUME Covered, InvalidBytes
  PROVE  Covered'
BY FailCovered DEF InvalidBytes

LEMMA Failures ==
  ASSUME Covered, NEW n, NEW at, NEW code, NEW span, NEW lo,
         \/ FailAt(at, code, span) \/ Fail(n, code, lo) \/ FailHere(n, code) \/ Incomplete(n)
  PROVE  Covered'
<1>1. FailAt(at, code, span) \/ Fail(n, code, lo) \/ FailHere(n, code) => Covered'
  BY FailCovered DEF FailAt, Fail, FailHere
<1>2. Incomplete(n) => Covered'
  BY FailCovered DEF FailAt, Fail, Incomplete
<1> QED BY <1>1, <1>2

LEMMA PlaceInText ==
  ASSUME LexerInv, Covered, pc \notin {"idle", "failed"}
  PROVE  /\ local.lo \in Nat /\ pos \in Nat /\ Len(pattern) \in Nat /\ pos <= Len(pattern)
         /\ HasShape(local) /\ pattern \in Seq(Symbols)
         /\ OpeningAt(pc, local, pos)
         /\ pc = "token" => pos = local.lo
         /\ Peek = "END" => pos = Len(pattern)
         /\ Peek # "END" => pos < Len(pattern) /\ Peek = pattern[pos + 1]
BY PeekEnd DEF Covered, Reading, LexerInv, Located, StandsAt

(* A character that begins a token by itself.                                *)
LEMMA PlainMeans ==
  ASSUME LexerInv, Covered, pc = "token", Peek \notin {"END", "(", "\\"},
         options.is_extended_mode => Peek \notin Whitespace /\ Peek # "#"
  PROVE  HasMeaning(local.lo) /\ local.lo < pos + 1
BY PlaceInText, Means

LEMMA TokenCovers ==
  ASSUME LexerInv, Covered, Next, pc = "token"
  PROVE  Covered'
<1>0. /\ local.lo \in Nat /\ pos = local.lo /\ Len(pattern) \in Nat /\ HasShape(local)
      /\ pattern \in Seq(Symbols)
      /\ Peek = "END" => pos = Len(pattern)
      /\ Peek # "END" => pos < Len(pattern) /\ Peek = pattern[pos + 1]
  BY PlaceInText
<1>1. CASE LexEnd
  <2>1. Emit(0, "END", <<>>) /\ local.lo = Len(pattern)
    BY <1>0, <1>1 DEF LexEnd, At
  <2> QED BY <2>1, EmitCovered
<1>2. CASE SkipWhitespace
  <2>1. PICK p : p = pos + 1
    OBVIOUS
  <2>2. Peek # "END"
    BY <1>2, Zenon DEF SkipWhitespace, At, Whitespace
  <2>3. pattern[p] \in Whitespace /\ options.is_extended_mode /\ Retry(1)
    BY <1>0, <1>2, <2>1, <2>2 DEF SkipWhitespace, At
  <2>4. p = local.lo + 1 /\ local.lo < p
    BY <1>0, <2>1
  <2>5. IsIgnored(local.lo, p)
    BY <2>3, <2>4 DEF IsIgnored
  <2> QED BY <2>1, <2>3, <2>4, <2>5, RetryCovered
<1>3. CASE OpenComment
  <2>1. PICK l, p : l = [local EXCEPT !.terminator = "\n"] /\ p = pos + 1
    OBVIOUS
  <2>2. Advance(1, "comment", l) /\ Peek = "#" /\ options.is_extended_mode
    BY <1>3, <2>1 DEF OpenComment, At
  <2>3. l.lo = local.lo /\ l.terminator = "\n"
    BY <1>0, <2>1 DEF HasShape, Fields
  <2>4. CommentAt(l, p)
    <3>1. p = l.lo + 1 /\ pattern[l.lo + 1] = "#"
      BY <1>0, <2>1, <2>2, <2>3
    <3>2. \A i \in l.lo + 1 .. p : pattern[i] = "#"
      BY <1>0, <2>3, <3>1
    <3> QED BY <1>0, <2>2, <2>3, <3>1, <3>2 DEF CommentAt
  <2> QED BY <2>1, <2>2, <2>3, <2>4, OpeningCovered DEF OpeningAt, Openings
<1>4. CASE LexSimple
  <2>1. Peek \in {"[", ".", "^", "$", "|", ")"}
    BY <1>4 DEF LexSimple, At
  <2>2. Peek \notin {"END", "(", "\\", "#"} /\ Peek \notin Whitespace
    BY <2>1, Blank
  <2>3. HasMeaning(local.lo) /\ local.lo < pos + 1
    BY <2>2, PlainMeans
  <2> QED BY <1>4, <2>3, EmitCovered DEF LexSimple
<1>5. CASE LexLiteral
  <2>1. Peek \notin Special \cup Ignored \cup {"END"}
    BY <1>5 DEF LexLiteral, Other
  <2>2. Peek \notin {"END", "(", "\\"} /\ (options.is_extended_mode => Peek \notin Whitespace /\ Peek # "#")
    BY <2>1, Zenon DEF Special, Ignored
  <2>3. HasMeaning(local.lo) /\ local.lo < pos + 1
    BY <2>2, PlainMeans
  <2>4. \/ EmitWarned(1, "LITERAL", Span(pos, pos + 1), "LITERAL_RIGHT_BRACKET")
        \/ Emit(1, "LITERAL", Span(pos, pos + 1))
    BY <1>5 DEF LexLiteral
  <2> QED BY <2>3, <2>4, EmitCovered
<1>6. CASE LexQuantifier
  <2>1. Peek \in {"*", "+", "?"}
    BY <1>6 DEF LexQuantifier, At
  <2>2. Peek \notin {"END", "(", "\\", "#"} /\ Peek \notin Whitespace
    BY <2>1, Blank
  <2>3. HasMeaning(local.lo) /\ local.lo < pos + 1
    BY <2>2, PlainMeans
  <2>4. PICK l : l = [local EXCEPT !.min = IF Peek = "+" THEN 1 ELSE 0, !.has_max = Peek = "?",
                                   !.max = IF Peek = "?" THEN 1 ELSE 0]
    OBVIOUS
  <2>5. Advance(1, "greed", l)
    BY <1>6, <2>4 DEF LexQuantifier
  <2>6. l.lo = local.lo
    BY <1>0, <2>4 DEF HasShape, Fields
  <2> QED BY <2>3, <2>5, <2>6, OnwardCovered DEF Openings, IsBare
<1>7. CASE OpenBounds
  <2>1. Peek = LeftBrace
    BY <1>7, Zenon DEF OpenBounds, At, LeftBrace
  <2>2. LeftBrace \notin {"END", "(", "\\", "#"}
    BY Zenon DEF LeftBrace
  <2>3. Peek \notin Whitespace
    BY <2>1, Blank
  <2>4. HasMeaning(local.lo) /\ local.lo < pos + 1
    BY <2>1, <2>2, <2>3, PlainMeans
  <2>5. Advance(1, "bounds", local)
    BY <1>7, Zenon DEF OpenBounds
  <2> QED BY <2>4, <2>5, OnwardCovered DEF Openings, IsBare
<1>8. CASE OpenGroup
  <2>1. Peek = "(" /\ Advance(1, "group", local)
    BY <1>8 DEF OpenGroup, At, Other
  <2>2. PICK p : p = pos + 1
    OBVIOUS
  <2>3. OpeningAt("group", local, p)
    BY <1>0, <2>1, <2>2 DEF OpeningAt
  <2> QED BY <2>1, <2>2, <2>3, OpeningCovered DEF Openings
<1>9. CASE OpenEscape
  <2>1. PICK l, p : l = [local EXCEPT !.escape = pos, !.first = pos, !.bytes = <<>>] /\ p = pos + 1
    OBVIOUS
  <2>2. Peek = "\\" /\ Advance(1, "escaped", l)
    BY <1>9, <2>1 DEF OpenEscape, At
  <2>3. l.lo = local.lo /\ l.escape = local.lo
    BY <1>0, <2>1 DEF HasShape, Fields
  <2>4. OpeningAt("escaped", l, p)
    BY <1>0, <2>1, <2>2, <2>3 DEF OpeningAt
  <2> QED BY <2>1, <2>2, <2>3, <2>4, OpeningCovered DEF Openings
<1> QED BY <1>1, <1>2, <1>3, <1>4, <1>5, <1>6, <1>7, <1>8, <1>9, TokenSteps, InvalidCovered

LEMMA CommentSteps ==
  ASSUME Next, pc = "comment"
  PROVE  InvalidBytes \/ Comment
<1>1. ~Lex /\ ~NumberDigit /\ ~NumberTooLarge /\ ~NumberEnd
  BY DEF Lex, NumberDigit, NumberTooLarge, NumberEnd, AtDigit
<1>2. LexToken => Comment
  BY DEF LexToken, LexEnd, SkipWhitespace, OpenComment, LexSimple, LexLiteral,
     LexQuantifier, OpenBounds, LexMin, LexComma, LexMax, LexBoundsEnd, LexQuantifierType,
     OpenGroup, LexSpecifier, LexLookbehind, LexCondition, LexConditionClose, LexOption, At, Other
<1>3. ~LexReferences
  BY DEF LexReferences, LexReference, LexSign, LexNumbered, LexDepth, LexClose, LexName,
     TrimName, LexNamed, At, Other
<1>4. ~LexEscapes
  BY DEF LexEscapes, OpenEscape, LexEscapedAssertion, LexEscapedType, LexProperty,
     LexNamedReference, LexBare, LexCommonEscape, LexEscape, LexNumberedByte, LexMeta,
     LexControl, LexBytes, LexUnicode, LexUnicodeNumber, LexBrace, LexBraceNumber, LexBraceNext,
     At, Other
<1> QED BY <1>1, <1>2, <1>3, <1>4 DEF Next

LEMMA CommentCovers ==
  ASSUME LexerInv, Covered, Next, pc = "comment"
  PROVE  Covered'
<1>0. /\ local.lo \in Nat /\ pos \in Nat /\ Len(pattern) \in Nat /\ pos <= Len(pattern)
      /\ HasShape(local) /\ pattern \in Seq(Symbols) /\ CommentAt(local, pos)
      /\ Peek = "END" => pos = Len(pattern)
      /\ Peek # "END" => pos < Len(pattern) /\ Peek = pattern[pos + 1]
  BY PlaceInText DEF OpeningAt
<1>1. local.lo < pos
  BY <1>0 DEF CommentAt
<1>2. ASSUME NEW p \in Nat, pos <= p, p <= Len(pattern),
             \/ p = pos /\ pos = Len(pattern)
             \/ p = pos + 1 /\ pattern[p] = local.terminator
      PROVE  IsIgnored(local.lo, p)
  <2>1. PICK lo \in Nat : lo = local.lo
    BY <1>0
  <2>2. CASE local.terminator = "\n" /\ options.is_extended_mode
    <3>1. pattern[lo + 1] = "#" /\ \A i \in lo + 1 .. pos : pattern[i] # "\n"
      BY <1>0, <2>1, <2>2 DEF CommentAt
    <3>2. \A i \in lo + 1 .. p - 1 : pattern[i] # "\n"
      BY <1>0, <1>2, <3>1
    <3>3. pattern[p] = "\n" \/ p = Len(pattern)
      BY <1>2, <2>2
    <3>4. IsLineComment(lo, p)
      BY <3>1, <3>2, <3>3 DEF IsLineComment
    <3> QED BY <2>1, <2>2, <3>4 DEF IsIgnored
  <2>3. CASE local.terminator = ")" /\ lo + 3 <= pos
    <3>1. /\ pattern[lo + 1] = "(" /\ pattern[lo + 2] = "?" /\ pattern[lo + 3] = "#"
          /\ \A i \in lo + 4 .. pos : pattern[i] # ")"
      BY <1>0, <2>1, <2>3 DEF CommentAt
    <3>2. p - lo >= 3
      BY <1>0, <1>2, <2>3
    <3>3. \A i \in lo + 4 .. p - 1 : pattern[i] # ")"
      BY <1>0, <1>2, <3>1
    <3>4. (p - lo > 3 /\ pattern[p] = ")") \/ p = Len(pattern)
      BY <1>0, <1>2, <2>3
    <3>5. Text(lo, lo + 3) = <<"(", "?", "#">>
      <4>1. PICK k \in Nat : k = lo + 3
        OBVIOUS
      <4>2. lo < k /\ k <= Len(pattern)
        BY <1>0, <2>3, <4>1
      <4>3. Text(lo, k) = <<"(", "?", "#">>
        BY <1>0, <3>1, <4>1, <4>2, LineBreakIs
      <4> QED BY <4>1, <4>3
    <3>6. IsCommentGroup(lo, p)
      BY <3>2, <3>3, <3>4, <3>5 DEF IsCommentGroup
    <3> QED BY <2>1, <3>6 DEF IsIgnored
  <2> QED BY <1>0, <2>1, <2>2, <2>3 DEF CommentAt
<1>3. CASE At("comment", {"END"}) /\ Retry(0)
  <2>1. PICK p \in Nat : p = pos + 0 /\ p = pos
    BY <1>0
  <2>2. pos = Len(pattern)
    BY <1>0, <1>3 DEF At
  <2>3. IsIgnored(local.lo, p)
    BY <1>0, <1>2, <2>1, <2>2
  <2> QED BY <1>1, <1>3, <2>1, <2>3, RetryCovered
<1>4. CASE At("comment", {local.terminator}) /\ Retry(1)
  <2>1. PICK p \in Nat : p = pos + 1
    BY <1>0
  <2>2. Peek = local.terminator /\ Peek # "END"
    BY <1>0, <1>4 DEF At, HasShape
  <2>3. IsIgnored(local.lo, p)
    BY <1>0, <1>2, <2>1, <2>2
  <2>4. local.lo < p
    BY <1>0, <1>1, <2>1
  <2> QED BY <1>4, <2>1, <2>3, <2>4, RetryCovered
<1>5. CASE Other("comment", {local.terminator, "END"}) /\ Advance(1, "comment", local)
  <2>1. PICK p \in Nat : p = pos + 1
    BY <1>0
  <2>2. pattern[p] # local.terminator
    BY <1>0, <1>5, <2>1 DEF Other
  <2>3. CommentAt(local, p)
    BY <1>0, <2>1, <2>2 DEF CommentAt
  <2> QED BY <1>5, <2>1, <2>3, OpeningCovered DEF OpeningAt, Openings
<1> QED BY <1>3, <1>4, <1>5, CommentSteps, InvalidCovered DEF Comment

LEMMA GroupCovers ==
  ASSUME LexerInv, Covered, Next, pc \in {"group", "specifier"}
  PROVE  Covered'
<1>0. /\ local.lo \in Nat /\ pos \in Nat /\ Len(pattern) \in Nat /\ HasShape(local)
      /\ pattern \in Seq(Symbols) /\ OpeningAt(pc, local, pos)
      /\ Peek = "END" => pos = Len(pattern)
      /\ Peek # "END" => pos < Len(pattern) /\ Peek = pattern[pos + 1]
      /\ pos <= Len(pattern)
  BY PlaceInText
<1>1. pattern[local.lo + 1] = "(" /\ local.lo < pos /\ local.lo < pos + 1 /\ local.lo < Len(pattern)
      /\ "(" # "#" /\ "(" \notin Whitespace
  BY <1>0, Blank DEF OpeningAt
<1>2. CASE OpenGroup
  <2>1. pc = "group" /\ pos = local.lo + 1
    BY <1>0, <1>2 DEF OpenGroup, At, Other, OpeningAt
  <2>2. CASE Peek = "?"
    <3>1. PICK p : p = pos + 1
      OBVIOUS
    <3>2. Advance(1, "specifier", local)
      BY <1>2, <2>1, <2>2 DEF OpenGroup, At, Other
    <3>3. OpeningAt("specifier", local, p)
      BY <1>0, <1>1, <2>1, <2>2, <3>1 DEF OpeningAt
    <3> QED BY <3>1, <3>2, <3>3, OpeningCovered DEF Openings
  <2>3. CASE Peek # "?"
    <3>1. Emit(0, "GROUP_OPEN", <<>>)
      BY <1>2, <2>1, <2>3 DEF OpenGroup, At
    <3>2. HasMeaning(local.lo)
      <4>1. local.lo + 3 <= Len(pattern) => pattern[local.lo + 2] # "?"
        BY <1>0, <2>1, <2>3
      <4> QED BY <1>0, <1>1, <4>1, Means
    <3>3. local.lo < pos + 0 /\ "GROUP_OPEN" # "END"
      BY <1>0, <1>1
    <3> QED BY <3>1, <3>2, <3>3, EmitCovered
  <2> QED BY <2>2, <2>3
<1>3. CASE LexSpecifier
  <2>1. pc = "specifier" /\ pos = local.lo + 2
    BY <1>0, <1>3 DEF LexSpecifier, At, Other, OpeningAt
  <2>2. CASE Peek = "#"
    <3>1. PICK l, p : l = [local EXCEPT !.terminator = ")"] /\ p = pos + 1
      OBVIOUS
    <3>2. Advance(1, "comment", l)
      BY <1>3, <2>1, <2>2, <3>1 DEF LexSpecifier, At, Other, OptionSymbols, Specifiers
    <3>3. l.lo = local.lo /\ l.terminator = ")"
      BY <1>0, <3>1 DEF HasShape, Fields
    <3>4. CommentAt(l, p)
      BY <1>0, <1>1, <2>1, <2>2, <3>1, <3>3 DEF OpeningAt, CommentAt
    <3> QED BY <3>1, <3>2, <3>3, <3>4, OpeningCovered DEF OpeningAt, Openings
  <2>3. CASE Peek # "#"
    <3>1. HasMeaning(local.lo)
      <4>1. local.lo + 3 <= Len(pattern) => pattern[local.lo + 3] # "#"
        BY <1>0, <2>1, <2>3
      <4> QED BY <1>0, <1>1, <4>1, Means
    <3>2. ASSUME NEW type, type # "END", NEW data, Emit(1, type, data)
          PROVE  Covered'
      BY <1>0, <1>1, <3>1, <3>2, EmitCovered
    <3>3. ASSUME NEW n \in {0, 1}, NEW where \in {"lookbehind", "reference", "condition", "option"},
                 NEW l, l.lo = local.lo, Advance(n, where, l)
          PROVE  Covered'
      BY <1>0, <1>1, <3>1, <3>3, OnwardCovered DEF Openings, IsBare
    <3>4. Reference("group", "'", pos + 1).lo = local.lo
      BY <1>0 DEF HasShape, Fields, Reference
    <3>5. [local EXCEPT !.option = options].lo = local.lo
      BY <1>0 DEF HasShape, Fields
    <3>6. ~At("specifier", {"#"})
      BY <2>3 DEF At
    <3> QED BY <1>3, <3>2, <3>3, <3>4, <3>5, <3>6, Failures DEF LexSpecifier
  <2> QED BY <2>2, <2>3
<1>4. ~LexOption
  BY DEF LexOption, At, Other
<1>5. OpenGroup \/ LexSpecifier \/ InvalidBytes
  BY <1>4, OptionPoints DEF OfOptions
<1> QED BY <1>2, <1>3, <1>5, InvalidCovered

LEMMA EscapedSteps ==
  ASSUME Next, pc \in {"escaped", "carriage_return"}
  PROVE  \/ InvalidBytes \/ LexEscapedAssertion \/ LexEscapedType \/ LexProperty
         \/ LexNamedReference \/ LexBare \/ LexCommonEscape
<1>1. ~Lex /\ ~NumberDigit /\ ~NumberTooLarge /\ ~NumberEnd
  BY DEF Lex, NumberDigit, NumberTooLarge, NumberEnd, AtDigit
<1>2. ~LexToken
  BY DEF LexToken, LexEnd, SkipWhitespace, OpenComment, Comment, LexSimple, LexLiteral,
     LexQuantifier, OpenBounds, LexMin, LexComma, LexMax, LexBoundsEnd, LexQuantifierType,
     OpenGroup, LexSpecifier, LexLookbehind, LexCondition, LexConditionClose, LexOption, At, Other
<1>3. ~LexReferences
  BY DEF LexReferences, LexReference, LexSign, LexNumbered, LexDepth, LexClose, LexName,
     TrimName, LexNamed, At, Other
<1>4. ~(\/ OpenEscape \/ LexEscape \/ LexNumberedByte \/ LexMeta \/ LexControl \/ LexBytes
        \/ LexUnicode \/ LexUnicodeNumber \/ LexBrace \/ LexBraceNumber \/ LexBraceNext)
  BY DEF OpenEscape, LexEscape, LexNumberedByte, LexMeta, LexControl, LexBytes, LexUnicode,
     LexUnicodeNumber, LexBrace, LexBraceNumber, LexBraceNext, At, Other
<1> QED BY <1>1, <1>2, <1>3, <1>4 DEF Next, LexEscapes

LEMMA EscapedCovers ==
  ASSUME LexerInv, Covered, Next, pc = "escaped"
  PROVE  Covered'
<1>0. /\ local.lo \in Nat /\ pos = local.lo + 1 /\ pos \in Nat /\ Len(pattern) \in Nat /\ HasShape(local)
      /\ pattern \in Seq(Symbols) /\ pattern[local.lo + 1] = "\\" /\ pos <= Len(pattern)
      /\ Peek = "END" => pos = Len(pattern)
      /\ Peek # "END" => pos < Len(pattern) /\ Peek = pattern[pos + 1]
      /\ local.escape = local.lo /\ "number" \in DOMAIN local
  BY PlaceInText DEF OpeningAt, Covered, Reading, HasShape, Fields
<1>1. "\\" \notin Whitespace /\ "\\" # "#" /\ "\\" # "("
  BY Blank
<1>2. ASSUME Peek \notin {"END", "\n", "\r"} PROVE HasMeaning(local.lo)
  <2>1. pattern[local.lo + 2] \notin {"\n", "\r"}
    BY <1>0, <1>2
  <2>2. local.lo < Len(pattern)
    BY <1>0, <1>2
  <2> QED BY <1>0, <1>1, <2>1, <2>2, Means
<1>3. ASSUME Peek \notin {"END", "\n", "\r"}, NEW type, type # "END", NEW data, Emit(1, type, data)
      PROVE  Covered'
  <2>1. local.lo < pos + 1 /\ HasMeaning(local.lo)
    BY <1>0, <1>2, <1>3
  <2> QED BY <1>3, <2>1, EmitCovered
<1>4. ASSUME Peek \notin {"END", "\n", "\r"}, NEW n \in {0, 1}, NEW where,
             where \in {"property", "named_reference", "unicode", "escape"},
             NEW l, l.lo = local.lo, Advance(n, where, l)
      PROVE  Covered'
  BY <1>0, <1>2, <1>4, OnwardCovered DEF Openings, IsBare
<1>5. CASE LexEscapedAssertion
  <2>1. Peek \notin {"END", "\n", "\r"}
    BY <1>5 DEF LexEscapedAssertion, At
  <2>2. \A type, data : Emit(1, type, data) /\ type # "END" => Covered'
    BY <1>3, <2>1
  <2>3. \E type, data : Emit(1, type, data) /\ type \in {"GRAPHEME_CLUSTER", "KEEP", "NEWLINE", "ASSERTION"}
    <3>1. Assertion("x") = Assertion("x")
      OBVIOUS
    <3> QED BY <1>5, Zenon DEF LexEscapedAssertion
  <2> QED BY <2>2, <2>3
<1>6. CASE LexEscapedType
  <2>1. At("escaped", CharTypes)
    BY <1>6 DEF LexEscapedType
  <2>2. Peek \notin {"END", "\n", "\r"}
    BY <2>1 DEF At, CharTypes
  <2> QED BY <1>3, <1>6, <2>2 DEF LexEscapedType
<1>7. CASE LexProperty
  <2>1. At("escaped", {"p", "P"}) /\ Advance(1, "property", [local EXCEPT !.positive = Peek = "p"])
    BY <1>7 DEF LexProperty, At, Other
  <2>2. Peek \notin {"END", "\n", "\r"}
    BY <2>1 DEF At
  <2>3. [local EXCEPT !.positive = Peek = "p"].lo = local.lo
    BY <1>0 DEF HasShape, Fields
  <2> QED BY <1>4, <2>1, <2>2, <2>3
<1>8. CASE LexNamedReference
  <2>1. At("escaped", {"k", "g"}) /\ Advance(1, "named_reference", local)
    BY <1>8 DEF LexNamedReference, At, Other
  <2>2. Peek \notin {"END", "\n", "\r"}
    BY <2>1 DEF At
  <2> QED BY <1>4, <2>1, <2>2
<1>9. CASE LexBare
  <2>1. /\ At("escaped", Decimal \ {"0"})
        /\ Read(0, DecimalNumber(bare_back_ref_max_num_limit, "INTERNAL_ERROR", "bare"), local)
    BY <1>9 DEF LexBare
  <2>2. Peek \notin {"END", "\n", "\r"}
    BY <2>1 DEF At, Decimal, Octal
  <2>3. HasMeaning(local.lo) /\ local.lo < pos + 0
    BY <1>0, <1>2, <2>2
  <2> QED BY <1>0, <2>1, <2>3, ReadCovered
<1>10. CASE LexCommonEscape
  <2>1. CASE At("escaped", {"END"})
    <3>1. FailHere(0, "INCOMPLETE_ESCAPE")
      BY <1>10, <2>1 DEF LexCommonEscape, At, Other, Escaped, ByteEscapes
    <3> QED BY <3>1, Failures
  <2>2. CASE At("escaped", {"\n"}) /\ Retry(1)
    <3>1. PICK p : p = pos + 1
      OBVIOUS
    <3>2. p \in Nat /\ local.lo < p /\ p = local.lo + 2 /\ p <= Len(pattern) /\ pattern[local.lo + 2] = "\n"
      BY <1>0, <2>2, <3>1 DEF At
    <3>3. Text(local.lo, p) = <<"\\", "\n">>
      BY <1>0, <3>2, LineBreakIs
    <3>4. IsIgnored(local.lo, p)
      BY <3>3, Zenon DEF IsIgnored
    <3> QED BY <2>2, <3>1, <3>2, <3>4, RetryCovered
  <2>3. CASE At("escaped", {"\r"}) /\ Advance(1, "carriage_return", local)
    <3>1. PICK p : p = pos + 1
      OBVIOUS
    <3>2. OpeningAt("carriage_return", local, p)
      BY <1>0, <2>3, <3>1 DEF OpeningAt, At
    <3> QED BY <2>3, <3>1, <3>2, OpeningCovered DEF Openings
  <2>4. CASE /\ Peek \notin {"END", "\n", "\r"}
             /\ \/ Advance(1, "unicode", local) \/ Advance(0, "escape", local)
                \/ Emit(1, "CODE", CodeData(Code(Peek), local.lo, pos + 1))
    BY <1>3, <1>4, <2>4
  <2>5. At("escaped", {"u"}) \/ At("escaped", ByteEscapes) \/ Other("escaped", Escaped) =>
          Peek \notin {"END", "\n", "\r"}
    BY DEF At, Other, ByteEscapes, Escaped
  <2>6. ~At("carriage_return", {"\n"}) /\ ~Other("carriage_return", {"\n"})
    BY DEF At, Other
  <2> QED BY <1>10, <2>1, <2>2, <2>3, <2>4, <2>5, <2>6, Zenon DEF LexCommonEscape
<1> QED BY <1>5, <1>6, <1>7, <1>8, <1>9, <1>10, EscapedSteps, InvalidCovered

LEMMA CarriageReturnCovers ==
  ASSUME LexerInv, Covered, Next, pc = "carriage_return"
  PROVE  Covered'
<1>0. /\ local.lo \in Nat /\ pos = local.lo + 2 /\ pos \in Nat /\ Len(pattern) \in Nat
      /\ pattern \in Seq(Symbols) /\ pos <= Len(pattern)
      /\ pattern[local.lo + 1] = "\\" /\ pattern[local.lo + 2] = "\r"
      /\ Peek = "END" => pos = Len(pattern)
      /\ Peek # "END" => pos < Len(pattern) /\ Peek = pattern[pos + 1]
  BY PlaceInText DEF OpeningAt
<1>1. "\\" \notin Whitespace /\ "\\" # "#" /\ "\\" # "(" /\ "\r" # "\n"
  BY Blank
<1>2. CASE LexCommonEscape
  <2>1. CASE Peek = "\n"
    <3>1. PICK p : p = pos + 1
      OBVIOUS
    <3>2. Retry(1)
      BY <1>2, <2>1 DEF LexCommonEscape, At, Other
    <3>3. p \in Nat /\ local.lo < p /\ p = local.lo + 3 /\ p <= Len(pattern) /\ pattern[local.lo + 3] = "\n"
      BY <1>0, <2>1, <3>1
    <3>4. Text(local.lo, p) = <<"\\", "\r", "\n">>
      BY <1>0, <3>3, LineBreakIs
    <3>5. IsIgnored(local.lo, p)
      BY <3>4, Zenon DEF IsIgnored
    <3> QED BY <3>1, <3>2, <3>3, <3>5, RetryCovered
  <2>2. CASE Peek # "\n"
    <3>1. Emit(0, "CODE", CodeData(13, local.lo, pos))
      BY <1>2, <2>2 DEF LexCommonEscape, At, Other
    <3>2. local.lo + 3 <= Len(pattern) => pattern[local.lo + 3] # "\n"
      BY <1>0, <2>2
    <3>3. local.lo < Len(pattern) /\ local.lo < pos + 0 /\ "CODE" # "END"
      BY <1>0
    <3>4. HasMeaning(local.lo)
      BY <1>0, <1>1, <3>2, <3>3, Means
    <3> QED BY <3>1, <3>3, <3>4, EmitCovered
  <2> QED BY <2>1, <2>2
<1>3. ~LexEscapedAssertion /\ ~LexEscapedType /\ ~LexProperty /\ ~LexNamedReference /\ ~LexBare
  BY DEF LexEscapedAssertion, LexEscapedType, LexProperty, LexNamedReference, LexBare, At, Other
<1> QED BY <1>2, <1>3, EscapedSteps, InvalidCovered

(* A number, and before its first digit perhaps not yet one.                 *)
LEMMA NumberCovers ==
  ASSUME LexerInv, Covered, Next, pc = "number"
  PROVE  Covered'
<1>1. /\ HasShape(local) /\ local.number.after \in Afters /\ pos \in Nat /\ Len(pattern) \in Nat
      /\ pattern \in Seq(Symbols) /\ local.lo \in Nat
  BY DEF LexerInv, Located, Covered, Reading
<1>2. /\ (HasMeaning(local.lo) /\ local.lo < pos) \/ Pends(pc, local, pos)
      /\ IsBare(pc, local) => local.escape = local.lo
  BY DEF Covered, Reading, Openings
<1>3. AtDigit => HasMeaning(local.lo) /\ local.lo < pos + 1
  <2> SUFFICES ASSUME AtDigit, Pends(pc, local, pos) PROVE HasMeaning(local.lo) /\ local.lo < pos + 1
    BY <1>1, <1>2
  <2>1. pos = local.lo
    BY DEF Pends, Pending
  <2>2. Peek = pattern[pos + 1] /\ pattern[pos + 1] \in Hex
    BY DigitThere
  <2>3. Peek # "END"
    BY <2>2 DEF Hex, Decimal, Octal
  <2>4. pos < Len(pattern)
    BY <2>3, PlaceInText
  <2>5. pattern[local.lo + 1] \notin Whitespace
    BY <2>1, <2>2, Blank
  <2>6. pattern[local.lo + 1] \notin {"#", "(", "\\"}
    BY <2>1, <2>2 DEF Hex, Decimal, Octal
  <2> QED BY <1>1, <2>1, <2>4, <2>5, <2>6, Means
<1>4. CASE NumberDigit
  <2>1. PICK l : l = [local EXCEPT !.number.value = Appended(DigitValue(Peek)), !.number.digits = @ + 1]
    OBVIOUS
  <2>2. l.lo = local.lo /\ l.number.after = local.number.after /\ l.escape = local.escape
    BY <1>1, <2>1 DEF HasShape, Fields
  <2>3. Advance(1, "number", l) /\ AtDigit
    BY <1>4, <2>1 DEF NumberDigit
  <2>4. IsBare("number", l) => l.escape = local.lo
    BY <1>2, <2>2 DEF IsBare
  <2> QED BY <1>3, <2>2, <2>3, <2>4, OnwardCovered DEF Openings
<1>5. ASSUME NEW l, l.lo = local.lo, l.escape = local.escape,
             Pends(pc, local, pos) => l.number.digits = local.number.digits,
             Advance(0, local.number.after, l)
      PROVE  Covered'
  <2>1. PICK after : after = local.number.after
    OBVIOUS
  <2>2. after \notin Openings \cup {"idle", "failed", "number"}
    BY <1>1, <2>1 DEF Afters, Openings
  <2>3. Advance(0, after, l) /\ (IsBare(after, l) => l.escape = local.lo)
    BY <1>2, <1>5, <2>1, <2>2 DEF IsBare
  <2>4. CASE HasMeaning(local.lo) /\ local.lo < pos
    <3>1. local.lo < pos + 0
      BY <1>1, <2>4
    <3> QED BY <1>5, <2>2, <2>3, <2>4, <3>1, OnwardCovered
  <2>5. CASE Pends(pc, local, pos)
    <3>1. PICK p : p = pos + 0 /\ p = pos
      BY <1>1
    <3>2. Pends(after, l, p)
      BY <1>5, <2>1, <2>2, <2>5, <3>1 DEF Pends, Pending
    <3>3. Reading(after, l, p)
      BY <1>5, <2>2, <2>3, <3>2 DEF Covered, Reading, OpeningAt, Openings
    <3>4. /\ pc' = after /\ local' = l /\ pos' = p /\ pattern' = pattern /\ options' = options
          /\ tokens' = tokens
      BY <2>3, <3>1 DEF Advance, ParserVars, InputVars
    <3> QED BY <2>2, <3>3, <3>4, StillCovered
  <2> QED BY <1>2, <2>4, <2>5
<1>6. CASE NumberEnd
  BY <1>5, <1>6 DEF NumberEnd
<1>7. CASE NumberTooLarge
  <2>1. PICK l : l = [local EXCEPT !.number.overflowed = TRUE]
    OBVIOUS
  <2>2. l.lo = local.lo /\ l.escape = local.escape
    BY <1>1, <2>1 DEF HasShape, Fields
  <2>3. ~Pends(pc, local, pos)
    BY <1>7 DEF NumberTooLarge, IsTooLarge, Pends
  <2>4. Advance(0, local.number.after, l) \/ Fail(1, local.number.error, local.number.lo)
    BY <1>7, <2>1 DEF NumberTooLarge
  <2> QED BY <1>5, <2>2, <2>3, <2>4, Failures
<1> QED BY <1>4, <1>6, <1>7, NumberSteps, InvalidCovered

LEMMA PendingCovers ==
  ASSUME LexerInv, Covered, Next, Pends(pc, local, pos), pc # "number"
  PROVE  Covered'
<1>1. pc \in {"in_brace", "brace_number"}
  BY DEF Pends, Pending
<1>2. LexBrace \/ LexBraceNumber \/ InvalidBytes
  BY <1>1, BracePoints
<1>3. CASE LexBraceNumber
  <2>1. \/ FailHere(0, "INVALID_UNICODE_ESCAPE")
        \/ FailAt(EndOfDigits, "CODE_POINT_OUT_OF_RANGE", Span(local.number.lo, EndOfDigits))
    BY <1>1, <1>3 DEF LexBraceNumber, At, Other, Pends, Pending
  <2> QED BY <2>1, Failures
<1>4. CASE LexBrace
  <2>1. Read(0, BraceNumber, local)
    BY <1>1, <1>4 DEF LexBrace, At, Other
  <2>2. PICK n : n = [BraceNumber EXCEPT !.lo = pos + 0]
    OBVIOUS
  <2>3. n.after = "brace_number" /\ n.digits = 0 /\ n.base = 16
    BY <2>2 DEF BraceNumber, Number
  <2>4. PICK l : l = [local EXCEPT !.number = n]
    OBVIOUS
  <2>5. l.number = n /\ l.lo = local.lo
    BY <2>4 DEF LexerInv, Located, HasShape, Fields
  <2>6. /\ pc' = "number" /\ local' = l /\ pos' = pos /\ pattern' = pattern /\ options' = options
        /\ tokens' = tokens
    BY <2>1, <2>2, <2>4 DEF Read, Advance, ParserVars, InputVars, LexerInv, Located
  <2>7. PICK p : p = pos
    OBVIOUS
  <2>8. Pends("number", l, p)
    BY <2>3, <2>5, <2>7 DEF Pends, Pending
  <2>9. Reading("number", l, p)
    BY <1>1, <2>3, <2>5, <2>8 DEF Covered, Reading, OpeningAt, Openings, IsBare
  <2> QED BY <2>6, <2>7, <2>9, StillCovered
<1> QED BY <1>2, <1>3, <1>4, InvalidCovered

LEMMA LexCovers ==
  ASSUME LexerInv, Covered, Lex
  PROVE  Covered'
<1>1. /\ pc = "idle" /\ pos' = pos /\ pattern' = pattern /\ tokens' = tokens /\ local' = Local(pos)
      /\ pc' \in {"token", "in_brace"}
  BY DEF Lex, InputVars
<1>2. local'.lo = pos /\ pos \in Nat
  BY <1>1 DEF Local, LexerInv, Located
<1>3. LastEnd' = pos
  BY <1>1 DEF LastEnd, Covered, TokenStands
<1>4. ASSUME NEW lo, NEW hi \in Nat, lo = hi PROVE AllIgnored(lo, hi)'
  <2>1. {lo} \in SUBSET (lo .. hi)
    BY <1>4
  <2> QED BY <1>4, <2>1 DEF AllIgnored
<1>5. PICK where, l, p : where = pc' /\ l = local' /\ p = pos'
  OBVIOUS
<1>6. \E end \in Nat : end = LastEnd' /\ AllIgnored(end, l.lo)'
  BY <1>1, <1>2, <1>3, <1>4, <1>5
<1>7. Pends(where, l, p)' \/ where = "token"
  BY <1>1, <1>2, <1>5 DEF Pends, Pending
<1>8. Reading(where, l, p)'
  BY <1>1, <1>2, <1>5, <1>6, <1>7 DEF Reading, OpeningAt, Openings, IsBare
<1>9. Reading(pc, local, pos)'
  BY <1>5, <1>8, Zenon DEF Reading, OpeningAt, CommentAt, Pends, Pending, IsBare
<1> QED BY <1>1, <1>9 DEF Covered, TokenStands, IsSequence

(* The scanner covers the text it has passed.                                *)
LEMMA AlwaysCovered == Spec => []Covered
<1>1. Init => Covered
  <2> SUFFICES ASSUME Init PROVE Covered
    OBVIOUS
  <2>1. /\ pattern \in Seq(Symbols) /\ pc = "token" /\ pos = 0 /\ local = Local(0) /\ tokens = <<>>
    BY LexerAssumption DEF Init
  <2>2. local.lo = 0 /\ LastEnd = 0
    BY <2>1 DEF Local, LastEnd
  <2>3. AllIgnored(0, 0)
    BY NothingIgnored
  <2>4. Reading(pc, local, pos)
    BY <2>1, <2>2, <2>3 DEF Reading, OpeningAt, Openings, IsBare
  <2> QED BY <2>1, <2>4 DEF Covered, TokenStands, IsSequence
<1>2. LexerInv /\ Covered /\ [Next]_vars => Covered'
  <2> SUFFICES ASSUME LexerInv, Covered, [Next]_vars PROVE Covered'
    OBVIOUS
  <2>1. CASE UNCHANGED vars
    <3>1. UNCHANGED <<pattern, options, tokens, tok, pc, local, pos>>
      BY <2>1 DEF vars, ParserVars, InputVars
    <3>2. CASE pc # "idle"
      <4>1. PICK where, l, p : where = pc /\ l = local /\ p = pos
        OBVIOUS
      <4> QED BY <3>1, <3>2, <4>1, StillCovered DEF Covered
    <3>3. CASE pc = "idle"
      <4>1. PICK end, lo \in Nat :
              /\ end = EndBefore /\ lo = tok.lo /\ AllIgnored(end, lo)
              /\ IF tok.type = "END" THEN lo = Len(pattern) ELSE HasMeaning(lo) /\ lo < tok.hi
        BY <3>3 DEF Covered, TokenStands
      <4>2. AllIgnored(end, lo)' /\ HasMeaning(lo)' = HasMeaning(lo)
        BY <3>1, <4>1, SameIgnored, SameMeaning
      <4>3. EndBefore' = EndBefore
        BY <3>1 DEF EndBefore
      <4>4. TokenStands'
        BY <3>1, <3>3, <4>1, <4>2, <4>3 DEF Covered, TokenStands
      <4> QED BY <3>1, <3>3, <4>4 DEF Covered, Reading, IsSequence
    <3> QED BY <3>2, <3>3
  <2>2. CASE Next /\ pc = "idle"
    BY <2>2, IdleSteps, LexCovers
  <2>3. CASE Next /\ pc = "number"
    BY <2>3, NumberCovers
  <2>4. CASE Next /\ pc \in Openings
    BY <2>4, TokenCovers, CommentCovers, GroupCovers, EscapedCovers, CarriageReturnCovers DEF Openings
  <2>5. CASE Next /\ pc \notin {"idle", "number"} \cup Openings
    <3>1. pc # "failed"
      BY <2>5, BracePoints
    <3>2. CASE Pends(pc, local, pos)
      BY <2>5, <3>2, PendingCovers
    <3>3. CASE ~Pends(pc, local, pos)
      <4>1. Forward
        BY <2>5, StepForward DEF LexerInv, Located
      <4> QED BY <2>5, <3>1, <3>3, <4>1, ForwardCovered
    <3> QED BY <3>2, <3>3
  <2> QED BY <2>1, <2>2, <2>3, <2>4, <2>5
<1>3. Spec => []LexerInv
  BY LexerInvariant
<1> QED BY <1>1, <1>2, <1>3, PTL DEF Spec

(* lex_impl: for every pattern, the tokens follow one another through all of *)
(* it.  Between two of them stands only white space, comments and escaped    *)
(* line breaks, and no token begins with such text.                          *)
THEOREM TokensCover == Spec => []TokensCoverPattern
<1>1. Covered => TokensCoverPattern
  BY DEF Covered, TokenStands, TokensCoverPattern, HasToken, EndBefore, HasMeaning
<1> QED BY <1>1, AlwaysCovered, PTL
=============================================================================
