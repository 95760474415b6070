----------------------------- MODULE CapsValues -----------------------------
(***************************************************************************)
(* What the matcher of dfa/program.rb needs of the captures of a path: a   *)
(* value of its own, which a fork copies and no other path changes.        *)
(***************************************************************************)
EXTENDS Integers

CONSTANTS Ids, CaptureNums, Positions

VARIABLE captures   \* for each path: where each capture begins and ends

Nowhere == [begin |-> -1, end |-> -1]

Init == captures = [o \in {} |-> Nowhere]

Set(o, value) ==
  captures' = [p \in DOMAIN captures \cup {o} |-> IF p = o THEN value ELSE captures[p]]

New(o) == o \notin DOMAIN captures /\ Set(o, [n \in CaptureNums |-> Nowhere])

Fork(o, p) ==
  o \in DOMAIN captures /\ p \notin DOMAIN captures /\ Set(p, captures[o])

SetCapBegin(o, n, pos) ==
  /\ o \in DOMAIN captures
  /\ Set(o, [captures[o] EXCEPT ![n] = [begin |-> pos, end |-> -1]])

SetCapEnd(o, n, pos) ==
  /\ o \in DOMAIN captures
  /\ Set(o, [captures[o] EXCEPT ![n].end = pos])

(* The whole match begins where \K was passed last.                          *)
Materialize(o, pos) ==
  /\ o \in DOMAIN captures
  /\ Set(o, [captures[o] EXCEPT ![0].begin = pos])

Drop(S) == captures' = [p \in DOMAIN captures \ S |-> captures[p]]
DropAll == Drop(DOMAIN captures)

Next ==
  \/ \E o \in Ids : New(o)
  \/ \E o, p \in Ids : Fork(o, p)
  \/ \E o \in Ids, n \in CaptureNums, pos \in Positions :
       SetCapBegin(o, n, pos) \/ SetCapEnd(o, n, pos)
  \/ \E o \in Ids, pos \in Positions : Materialize(o, pos)
  \/ \E o \in Ids : Drop({o})
  \/ DropAll

Spec == Init /\ [][Next]_captures
=============================================================================
