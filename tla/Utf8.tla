-------------------------------- MODULE Utf8 --------------------------------
(***************************************************************************)
(* UTF-8 of src/encoding/utf_8.c: the width of the character a sequence of *)
(* bytes begins with, and the bytes of a code point.                       *)
(***************************************************************************)
EXTENDS Integers, Sequences

Byte == 0 .. 255

ExpectedWidth(byte) ==
  CASE byte \in 0 .. 127 -> 1
    [] byte \in 194 .. 223 -> 2
    [] byte \in 224 .. 239 -> 3
    [] byte \in 240 .. 244 -> 4
    [] OTHER -> 0

IsContinuation(byte) == byte \in 128 .. 191

(* The second byte keeps out overlong forms, surrogates and what is above    *)
(* the last code point.                                                      *)
MayFollow(lead, i, byte) ==
  /\ IsContinuation(byte)
  /\ i = 2 => /\ lead = 224 => byte >= 160
              /\ lead = 237 => byte < 160
              /\ lead = 240 => byte >= 144
              /\ lead = 244 => byte < 144

(* Positive the width, 0 no character, negative the bytes that are missing.   *)
ScanWidth(bytes) ==
  LET width == ExpectedWidth(bytes[1])
  IN  IF width = 0 \/ \E i \in 2 .. width : i <= Len(bytes) /\ ~MayFollow(bytes[1], i, bytes[i])
        THEN 0
        ELSE IF width <= Len(bytes) THEN width ELSE Len(bytes) - width

IsEncodable(code) == code \in 0 .. 55295 \/ code \in 57344 .. 1114111

(* The six bits of a code from the given power of two on.                    *)
SixBits(code, power) == 128 + ((code \div power) % 64)

EncodeMbc(code) ==
  IF code < 128 THEN <<code>>
  ELSE IF code < 2048 THEN <<192 + code \div 64, SixBits(code, 1)>>
  ELSE IF code < 65536 THEN <<224 + code \div 4096, SixBits(code, 64), SixBits(code, 1)>>
  ELSE <<240 + code \div 262144, SixBits(code, 4096), SixBits(code, 64), SixBits(code, 1)>>

DecodeMbc(bytes) ==
  CASE ExpectedWidth(bytes[1]) = 2 -> (bytes[1] % 32) * 64 + (bytes[2] % 64)
    [] ExpectedWidth(bytes[1]) = 3 ->
         (bytes[1] % 16) * 4096 + (bytes[2] % 64) * 64 + (bytes[3] % 64)
    [] ExpectedWidth(bytes[1]) = 4 ->
         (bytes[1] % 8) * 262144 + (bytes[2] % 64) * 4096 + (bytes[3] % 64) * 64 + (bytes[4] % 64)
    [] OTHER -> bytes[1]
=============================================================================
