------------------------------ MODULE MCParser ------------------------------
(* Instances of Parser for TLC.                                              *)
EXTENDS ParserTree

MCAddresses == 1 .. 14
PlainOptions == {"none"}
TwoOptions == {"none", "i"}

(* Captures and groups, options, conditionals, and atoms that own memory or  *)
(* fail after the lexer.                                                     *)
PatternTokens ==
  {{"LITERAL", "ALT", "GROUP_OPEN", "GROUP_CLOSE", "QUANTIFIER"},
   {"LITERAL", "NAMED_GROUP_OPEN", "GROUP_OPEN", "GROUP_CLOSE"},
   {"LITERAL", "ALT", "OPTION", "OPTION_GROUP_OPEN", "GROUP_CLOSE"},
   {"LITERAL", "ALT", "GROUP_CLOSE", "CONDITIONAL_OPEN", "OPTION"},
   {"CODE", "BACK_REF", "ATOMIC_OPEN", "GROUP_CLOSE"},
   {"LITERAL", "CHAR_CLASS_OPEN", "GROUP_OPEN"}}

NamedTokens == {{"LITERAL", "NAMED_GROUP_OPEN", "GROUP_CLOSE"}}
=============================================================================
