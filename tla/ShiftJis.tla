------------------------------ MODULE ShiftJis ------------------------------
(***************************************************************************)
(* Shift_JIS of src/encoding/shift_jis.c.  A byte that may be the second   *)
(* of a character may also be a character of its own, or the first byte    *)
(* of one: where a character begins shows only from the bytes before it.   *)
(***************************************************************************)
EXTENDS Integers, Sequences

FirstByteWidth(byte) ==
  CASE byte \in 0 .. 127 \cup 161 .. 223 -> 1
    [] byte \in 129 .. 159 \cup 224 .. 252 -> 2
    [] OTHER -> 0

IsSecondByte(byte) == byte \in (64 .. 252) \ {127}

ScanWidth(bytes) ==
  IF FirstByteWidth(bytes[1]) <= 1 THEN FirstByteWidth(bytes[1])
  ELSE IF Len(bytes) = 1 THEN -1
  ELSE IF IsSecondByte(bytes[2]) THEN 2 ELSE 0

IsEncodable(code) ==
  \/ code \in 0 .. 255 /\ FirstByteWidth(code) = 1
  \/ /\ code \in 256 .. 65535
     /\ FirstByteWidth(code \div 256) = 2 /\ IsSecondByte(code % 256)

EncodeMbc(code) == IF code < 256 THEN <<code>> ELSE <<code \div 256, code % 256>>

DecodeMbc(bytes) ==
  IF FirstByteWidth(bytes[1]) <= 1 THEN bytes[1] ELSE bytes[1] * 256 + bytes[2]
=============================================================================
