------------------------------ MODULE CapsCow ------------------------------
(***************************************************************************)
(* Caps of src/ruby-prototype's dfa/program.rb: captures that are copied   *)
(* when they are written.  A fork shares the array and marks both objects, *)
(* and a marked object takes a copy before it writes.                      *)
(***************************************************************************)
EXTENDS Integers

CONSTANTS
  Ids,           \* Caps objects, and as many arrays
  CaptureNums,   \* the numbers of captures, 0 for the whole match
  Positions      \* positions in a text

ASSUME CapsAssumption == 0 \in CaptureNums /\ Positions \subseteq Int

VARIABLES
  objects,   \* the live Caps objects: @data and @shared
  arrays     \* the arrays they refer to

caps == <<objects, arrays>>

Nowhere == [begin |-> -1, end |-> -1]
empty_caps == [n \in CaptureNums |-> Nowhere]

CapsInit == objects = [o \in {} |-> Nowhere] /\ arrays = [d \in {} |-> empty_caps]

Used(objs) == {objs[o].data : o \in DOMAIN objs}
Unused == Ids \ DOMAIN objects
FreshId == CHOOSE o \in Ids : o \notin DOMAIN objects
FreshData == CHOOSE d \in Ids : d \notin Used(objects)

With(f, x, v) == [y \in DOMAIN f \cup {x} |-> IF y = x THEN v ELSE f[y]]

(* An array that no object refers to is garbage.                             *)
Become(objs, arrs) ==
  objects' = objs /\ arrays' = [d \in Used(objs) |-> arrs[d]]

Object(data, shared) == [data |-> data, shared |-> shared]

New(o) ==
  /\ o \in Unused /\ Used(objects) # Ids
  /\ LET d == FreshData IN
       Become(With(objects, o, Object(d, FALSE)), With(arrays, d, empty_caps))

(* Variant: only the copy is marked.                                         *)
ForkMarkingCopy(o, p) ==
  /\ o \in DOMAIN objects /\ p \in Unused
  /\ Become(With(objects, p, Object(objects[o].data, TRUE)), arrays)

Fork(o, p) ==
  /\ o \in DOMAIN objects /\ p \in Unused
  /\ LET both == Object(objects[o].data, TRUE) IN
       Become(With(With(objects, o, both), p, both), arrays)

(* ensure_writable!, and then the write.                                     *)
Write(o, value) ==
  /\ o \in DOMAIN objects
  /\ \/ /\ ~objects[o].shared
        /\ Become(objects, With(arrays, objects[o].data, value))
     \/ /\ objects[o].shared /\ Used(objects) # Ids
        /\ LET d == FreshData IN
             Become(With(objects, o, Object(d, FALSE)), With(arrays, d, value))

Captures(o) == arrays[objects[o].data]

SetCapBegin(o, n, pos) ==
  Write(o, [Captures(o) EXCEPT ![n] = [begin |-> pos, end |-> -1]])
SetCapEnd(o, n, pos) == Write(o, [Captures(o) EXCEPT ![n].end = pos])
Materialize(o, pos) == Write(o, [Captures(o) EXCEPT ![0].begin = pos])

(* The paths in S have ended.                                                *)
Drop(S) == Become([o \in DOMAIN objects \ S |-> objects[o]], arrays)
DropAll == Drop(DOMAIN objects)

CapsNext ==
  \/ \E o \in Ids : New(o)
  \/ \E o, p \in Ids : Fork(o, p)
  \/ \E o \in Ids, n \in CaptureNums, pos \in Positions :
       SetCapBegin(o, n, pos) \/ SetCapEnd(o, n, pos)
  \/ \E o \in Ids, pos \in Positions : Materialize(o, pos)
  \/ \E o \in Ids : Drop({o})
  \/ DropAll

CapsSpec == CapsInit /\ [][CapsNext]_caps

-----------------------------------------------------------------------------
(* Properties.                                                               *)

CapsType ==
  /\ DOMAIN objects \subseteq Ids
  /\ objects \in [DOMAIN objects -> [data : Ids, shared : BOOLEAN]]
  /\ arrays \in [Used(objects) ->
                   [CaptureNums -> [begin : Positions \cup {-1}, end : Positions \cup {-1}]]]

(* An array that two paths share is marked as shared for both, so that each  *)
(* copies it before it writes.                                               *)
SharingIsMarked ==
  \A o, p \in DOMAIN objects :
    o # p /\ objects[o].data = objects[p].data => objects[o].shared /\ objects[p].shared

(* Every path has captures of its own: no write is seen by a path that waits *)
(* in another thread or in the other branch of a split.                      *)
Values ==
  INSTANCE CapsValues WITH captures <- [o \in DOMAIN objects |-> Captures(o)]
CapturesAreValues == Values!Spec
=============================================================================
