------------------------------- MODULE MCLexer -------------------------------
(***************************************************************************)
(* Patterns for the lexer: a beginning, every short continuation over the  *)
(* symbols that matter after it, and a character after that.               *)
(***************************************************************************)
EXTENDS LexerTokens

Plain ==
  [is_extended_mode |-> FALSE, is_ignore_case |-> FALSE, dot_allows_newline |-> FALSE,
   char_class_is_strict |-> FALSE, char_type_is_ascii_only |-> FALSE,
   posix_char_class_is_ascii_only |-> FALSE, fold_flags |-> {"FULL"}]

Extended == [Plain EXCEPT !.is_extended_mode = TRUE, !.posix_char_class_is_ascii_only = TRUE]
Strict == [Plain EXCEPT !.is_ignore_case = TRUE, !.char_class_is_strict = TRUE,
                        !.fold_flags = {"ASCII_ONLY", "TURKISH_AZERI"}]

Words(symbols, length) == UNION {[1 .. n -> symbols] : n \in 0 .. length}

In(encodings, options_of, prefixes, symbols, length) ==
  [encoding : encodings, options : options_of,
   pattern : {prefix \o word : prefix \in prefixes, word \in Words(symbols, length)}]

Utf8 == {"UTF-8"}
Both == {"UTF-8", "Shift_JIS"}

Opens9 == [i \in 1 .. 9 |-> "("]

Openings ==
  {<<>>, <<"\\">>, <<"(", "?">>, <<"a", "]", "(">>, <<"\\", "p">>, <<"(", "?", "<">>,
   <<"\\", "x">>, <<"\\", "c">>, <<"\\", "C", "-">>, <<"\\", "M", "-">>, <<"\\", "u">>,
   <<"\\", "k">>, <<"\\", "k", "<", "a", "\\">>, <<"\\", "p", "{">>, <<"(", "?", "(">>,
   <<"\\", "\r">>, <<"\\", "M">>, <<"\\", "C">>,
   <<"(", "?", "i">>}

AnySymbol ==
  In({"UTF-8"}, {Plain}, Openings, Symbols, 1) \cup In({"Shift_JIS"}, {Extended}, Openings, Symbols, 1)

Bounds == In(Utf8, {Plain}, {<<"a", "{">>, <<"{", "2">>}, {"1", "2", ",", "}", "?", "+"}, 4)
LargeBounds == In(Utf8, {Plain}, {<<"{", "1">>, <<"{", "1", ",", "1">>}, {"0", "9", "}", "BYTES"}, 2)

Comments ==
  In(Utf8, {Plain, Extended}, {<<>>, <<"(", "?", "#">>}, {" ", "#", "\n", "\\", ")", "\r"}, 3)

References ==
  In(Utf8, {Plain},
     {<<"(", "(", "\\", "k", "<">>, <<"(", "\\", "g", "'">>, <<"(", "(", "?", "(">>,
      <<"(", "?", "(", "<">>, <<"(", "?", "'">>, <<"(", "(", "(", "(", "\\", "k", "'", "-">>,
      <<"(", "\\", "k", "<", "-", "1">>, <<"(", "?", "(", "<", "a">>, <<"(", "(", "?", "(", "1">>},
     {"1", "0", "-", "+", ">", "'", ")", "a"}, 3)

Bare ==
  In(Both, {Plain}, {<<"\\">>, Opens9 \o <<"(", "\\">>, Opens9 \o <<"(", "(", "\\">>},
     {"1", "0", "8", "7", "BYTES"}, 3)

Names ==
  In(Utf8, {Plain}, {<<"(", "?", "<">>, <<"\\", "k", "<", "a">>, <<"\\", "p", "{">>},
     {"a", "L", "WIDE", "\\", "n", ">", "}", "^", "-", "BYTES"}, 3)

Braces ==
  In(Utf8, {Extended},
     {<<"\\", "u", "{">>, <<"(", "?", "<", "a", "\\", "u", "{">>, <<"\\", "g", "<", "\\", "u", "{", "6">>},
     {"6", "1", " ", "}", ">"}, 4)

LongCodes ==
  In(Utf8, {Plain},
     {<<"\\", "u", "{", "1", "1", "0", "0", "0">>, <<"\\", "k", "<", "\\", "u", "{", "D", "8", "0">>,
      <<"\\", "k", "<", "\\", "u", "{", "1", "1", "0", "0", "0">>, <<"\\", "u", "0", "0">>,
      <<"\\", "k", "<", "\\", "u", "D", "8", "0">>}, {"0", "}", ">", "f"}, 4)

Bytes ==
  In(Both, {Plain},
     {<<"\\", "x", "E", "3", "\\", "x", "8", "2", "\\">>, <<"\\", "x", "8", "2">>,
      <<"\\", "k", "<", "\\", "x", "8", "2", "\\">>, <<"\\", "3", "4", "3", "\\", "2", "0", "1">>},
     {"\\", "x", "8", "1", ">"}, 3)

Prefixed ==
  In(Both, {Plain},
     {<<"\\", "M", "-">>, <<"\\", "C", "-">>, <<"\\", "c">>, <<"\\", "M", "-", "\\">>,
      <<"\\", "c", "\\">>, <<"\\", "M", "-", "B", "\\", "C">>},
     {"\\", "M", "C", "-", "?", "B"}, 3)

Flags ==
  In(Utf8, {Plain}, {<<"(", "?">>}, {"i", "-", "I", "F", "A", ")"}, 4)
    \cup In(Utf8, {Strict}, {<<"(", "?">>}, {"i", "-", "I", "F", "A", ":"}, 3)

MoreOptions ==
  In(Utf8, {Plain, Strict}, {<<"(", "?">>, <<"(", "?", "a">>}, {"m", "-", "x", "v", "a", "u", "d", "S", "T", ")"}, 2)

Scopes ==
  In(Utf8, {Plain}, {<<"(", "(", "?", "x", ")", " ">>, <<"(", "?", "x", ":", " ">>},
     {" ", ")", "|", "("}, 3)

AllInputs ==
  AnySymbol \cup Bounds \cup LargeBounds \cup Comments \cup References \cup Bare \cup Names
    \cup Braces \cup LongCodes \cup Bytes \cup Prefixed \cup Flags \cup MoreOptions \cup Scopes

Properties == {<<97>>, <<97, 108>>, <<108>>}
==============================================================================
