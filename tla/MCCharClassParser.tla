-------------------------- MODULE MCCharClassParser --------------------------
(* Instances of CharClassParser for TLC.                                     *)
EXTENDS CharClassTree

MCAddresses == 1 .. 16

Over(alphabet, length) ==
  {p \in {<<"[">> \o q : q \in UNION {[1 .. n -> alphabet] : n \in 0 .. length}} :
     IsPattern(p)}

RangeSymbols == {"-", "]", "a", "b", "&"}
HyphenSymbols == {"-", "]", "a", "&"}
NestingSymbols == {"[", "]", "^", "a", "-", "BYTES"}
EscapeSymbols ==
  {"-", "]", "&", "ESC", "UESC", "HEX", "NOCODE", "TYPE", "POSIX", "CONTINUE"}

ContinuedSymbols == {"-", "]", "ESC", "CONTINUE"}

(* Ranges, hyphens next to operators, nested classes, escapes, and newlines  *)
(* escaped anywhere in a range.                                              *)
MCPatterns ==
  Over(RangeSymbols, 5) \cup Over(HyphenSymbols, 6) \cup Over(NestingSymbols, 5)
    \cup Over(EscapeSymbols, 4) \cup Over(ContinuedSymbols, 5)

ContinuedPatterns == Over({"-", "]", "a", "&", "CONTINUE"}, 3)
=============================================================================
