------------------------- MODULE Program_proofs -------------------------
(***************************************************************************)
(* For every program, text and number of captures: a list of threads has   *)
(* one thread for a state, and the captures of every path are its own.     *)
(* The captures come first: they are copied when they are written and      *)
(* behave as values, for any number of objects, captures and positions.    *)
(***************************************************************************)
EXTENDS Program, WellFoundedInduction, TLAPS

Places == [begin : Positions \cup {-1}, end : Positions \cup {-1}]
CaptureValues == [CaptureNums -> Places]

(* The inductive invariant: an array is written in place only by an object   *)
(* that is not marked, and no other object refers to it.                     *)
CapsInv == CapsType /\ SharingIsMarked

(* The captures of every path, as the refinement maps them.                  *)
captures == [o \in DOMAIN objects |-> Captures(o)]

-----------------------------------------------------------------------------
(* Fresh names.                                                              *)

LEMMA FreshArray ==
  ASSUME CapsType, Used(objects) # Ids
  PROVE  FreshData \in Ids /\ FreshData \notin Used(objects)
<1>1. Used(objects) \subseteq Ids
  BY DEF CapsType, Used
<1>2. \E d \in Ids : d \notin Used(objects)
  BY <1>1
<1> QED BY <1>2 DEF FreshData

LEMMA FreshObject ==
  ASSUME Unused # {}
  PROVE  FreshId \in Unused
BY DEF Unused, FreshId

(* What the objects and the arrays become determines the captures.           *)
LEMMA BecomeCaptures ==
  ASSUME NEW objs, NEW arrs, Become(objs, arrs)
  PROVE  captures' = [o \in DOMAIN objs |-> arrs[objs[o].data]]
<1>1. \A o \in DOMAIN objs : objs[o].data \in Used(objs)
  BY DEF Used
<1> QED BY <1>1 DEF Become, captures, Captures

(* Objects of the right type, and an array of the right type for each.       *)
LEMMA BecomeTyped ==
  ASSUME NEW objs, NEW arrs, Become(objs, arrs),
         DOMAIN objs \subseteq Ids, objs \in [DOMAIN objs -> [data : Ids, shared : BOOLEAN]],
         \A d \in Used(objs) : arrs[d] \in CaptureValues
  PROVE  CapsType'
<1>1. objects' = objs /\ Used(objects)' = Used(objs)
  BY DEF Become, Used
<1>2. arrays' \in [Used(objs) -> CaptureValues]
  BY DEF Become
<1> QED BY <1>1, <1>2 DEF CapsType, CaptureValues, Places

LEMMA WithTyped ==
  ASSUME NEW R, NEW f, f \in [DOMAIN f -> R], NEW x, NEW v \in R
  PROVE  With(f, x, v) \in [DOMAIN f \cup {x} -> R]
BY DEF With

LEMMA UsedIn ==
  ASSUME NEW objs, NEW D, \A o \in DOMAIN objs : objs[o].data \in D
  PROVE  Used(objs) \subseteq D
BY DEF Used

LEMMA EmptyIsCaptures == empty_caps \in CaptureValues
BY DEF empty_caps, Nowhere, CaptureValues, Places

LEMMA CapturesTyped ==
  ASSUME CapsType, NEW o \in DOMAIN objects
  PROVE  Captures(o) \in CaptureValues /\ objects[o].data \in Used(objects)
<1>1. objects[o].data \in Used(objects)
  BY DEF Used
<1> QED BY <1>1 DEF CapsType, Captures, CaptureValues, Places

-----------------------------------------------------------------------------
(* The operations, each of which keeps the invariant and does to the         *)
(* captures what its abstract counterpart does.                              *)

LEMMA NewStep ==
  ASSUME CapsInv, NEW o \in Ids, New(o)
  PROVE  CapsInv' /\ Values!New(o)
<1> DEFINE d == FreshData
           objs == With(objects, o, Object(d, FALSE))
           arrs == With(arrays, d, empty_caps)
<1>1. o \notin DOMAIN objects /\ Become(objs, arrs)
  BY DEF New, Unused
<1>2. d \in Ids /\ d \notin Used(objects)
  BY FreshArray DEF New, CapsInv
<1> HIDE DEF d
<1>3. DOMAIN objs = DOMAIN objects \cup {o} /\ objs[o] = [data |-> d, shared |-> FALSE]
  BY DEF With, Object
<1>4. \A p \in DOMAIN objects : objs[p] = objects[p] /\ objects[p].data \in Used(objects)
  BY <1>1 DEF With, Used
<1>5. DOMAIN arrays = Used(objects) /\ arrs[d] = empty_caps
  BY DEF With, CapsInv, CapsType
<1>6. \A e \in Used(objects) : arrs[e] = arrays[e] /\ arrays[e] \in CaptureValues
  BY <1>2, <1>5 DEF With, CapsInv, CapsType, CaptureValues, Places
<1>7. Used(objs) \subseteq Used(objects) \cup {d}
  <2> HIDE DEF objs
  <2>1. \A p \in DOMAIN objs : objs[p].data \in Used(objects) \cup {d}
    BY <1>3, <1>4
  <2> QED BY <2>1, UsedIn
<1>8. CapsType'
  <2>1. objs \in [DOMAIN objs -> [data : Ids, shared : BOOLEAN]]
    <3>1. Object(d, FALSE) \in [data : Ids, shared : BOOLEAN]
      BY <1>2 DEF Object
    <3> QED BY <1>3, <3>1, WithTyped DEF CapsInv, CapsType
  <2>2. \A e \in Used(objs) : arrs[e] \in CaptureValues
    BY <1>5, <1>6, <1>7, EmptyIsCaptures
  <2> HIDE DEF objs, arrs
  <2> QED BY <1>1, <1>3, <2>1, <2>2, BecomeTyped DEF CapsInv, CapsType
<1>9. SharingIsMarked'
  <2>1. objects' = objs
    BY <1>1 DEF Become
  <2> HIDE DEF objs
  <2> QED BY <1>2, <1>3, <1>4, <2>1 DEF CapsInv, SharingIsMarked
<1>10. Values!New(o)
  <2>1. captures' = [p \in DOMAIN objs |-> arrs[objs[p].data]]
    BY <1>1, BecomeCaptures
  <2> HIDE DEF objs, arrs
  <2>2. captures' = [p \in DOMAIN captures \cup {o} |->
                       IF p = o THEN empty_caps ELSE captures[p]]
    BY <1>1, <1>3, <1>4, <1>5, <1>6, <2>1 DEF captures, Captures
  <2> QED BY <1>1, <2>2 DEF Values!New, Values!Set, Values!Nowhere, captures, empty_caps, Nowhere
<1> QED BY <1>8, <1>9, <1>10 DEF CapsInv

LEMMA ForkStep ==
  ASSUME CapsInv, NEW o, NEW p \in Ids, Fork(o, p)
  PROVE  CapsInv' /\ Values!Fork(o, p)
<1> DEFINE both == Object(objects[o].data, TRUE)
           objs == With(With(objects, o, both), p, both)
<1>1. o \in DOMAIN objects /\ p \notin DOMAIN objects /\ Become(objs, arrays)
  BY DEF Fork, Unused
<1>2. DOMAIN objs = DOMAIN objects \cup {p}
  BY <1>1 DEF With
<1>3. /\ objs[o] = [data |-> objects[o].data, shared |-> TRUE]
      /\ objs[p] = [data |-> objects[o].data, shared |-> TRUE]
      /\ \A q \in DOMAIN objects \ {o} : objs[q] = objects[q]
  BY <1>1 DEF With, Object
<1>4. Used(objs) \subseteq Used(objects)
  <2> HIDE DEF objs
  <2>1. \A q \in DOMAIN objects : objects[q].data \in Used(objects)
    BY DEF Used
  <2>2. \A q \in DOMAIN objs : objs[q].data \in Used(objects)
    BY <1>1, <1>2, <1>3, <2>1
  <2> QED BY <2>2, UsedIn
<1>5. CapsType'
  <2>1. objs \in [DOMAIN objs -> [data : Ids, shared : BOOLEAN]]
    <3>1. both \in [data : Ids, shared : BOOLEAN]
      BY <1>1 DEF Object, CapsInv, CapsType
    <3>2. With(objects, o, both) \in [DOMAIN objects -> [data : Ids, shared : BOOLEAN]]
      <4>1. DOMAIN objects \cup {o} = DOMAIN objects
        BY <1>1
      <4> HIDE DEF both
      <4> QED BY <3>1, <4>1, WithTyped DEF CapsInv, CapsType
    <3> DEFINE f == With(objects, o, both)
    <3>3. DOMAIN f = DOMAIN objects
      BY <3>2
    <3>4. f \in [DOMAIN f -> [data : Ids, shared : BOOLEAN]]
      BY <3>2, <3>3
    <3> HIDE DEF both, f
    <3>5. With(f, p, both) \in [DOMAIN f \cup {p} -> [data : Ids, shared : BOOLEAN]]
      BY <3>1, <3>4, WithTyped
    <3> QED BY <1>2, <3>3, <3>5 DEF f
  <2>2. \A e \in Used(objs) : arrays[e] \in CaptureValues
    BY <1>4 DEF CapsInv, CapsType, CaptureValues, Places
  <2> HIDE DEF objs
  <2> QED BY <1>1, <1>2, <2>1, <2>2, BecomeTyped DEF CapsInv, CapsType
<1> HIDE DEF both
<1>6. objects' = objs
  BY <1>1 DEF Become
<1>7. captures' = [q \in DOMAIN objs |-> arrays[objs[q].data]]
  BY <1>1, BecomeCaptures
<1> HIDE DEF objs
<1>8. SharingIsMarked'
  BY <1>1, <1>2, <1>3, <1>6 DEF CapsInv, SharingIsMarked
<1>9. captures' = [q \in DOMAIN captures \cup {p} |->
                     IF q = p THEN captures[o] ELSE captures[q]]
  BY <1>1, <1>2, <1>3, <1>7 DEF captures, Captures
<1>10. Values!Fork(o, p)
  BY <1>1, <1>9 DEF Values!Fork, Values!Set, captures
<1> QED BY <1>5, <1>8, <1>10 DEF CapsInv

LEMMA WriteStep ==
  ASSUME CapsInv, NEW o \in Ids, NEW value \in CaptureValues, Write(o, value)
  PROVE  /\ CapsInv'
         /\ o \in DOMAIN captures
         /\ Values!Set(o, value)
<1>1. o \in DOMAIN objects
  BY DEF Write
<1>2. CASE ~objects[o].shared /\ Become(objects, With(arrays, objects[o].data, value))
  <2> DEFINE arrs == With(arrays, objects[o].data, value)
  <2>1. DOMAIN arrays = Used(objects) /\ \A p \in DOMAIN objects : objects[p].data \in Used(objects)
    BY DEF Used, CapsInv, CapsType
  <2>2. arrs[objects[o].data] = value
    BY DEF With
  <2>3. \A e \in Used(objects) : e # objects[o].data => arrs[e] = arrays[e]
    BY <2>1 DEF With
  <2>4. \A p \in DOMAIN objects : p # o => objects[p].data # objects[o].data
    BY <1>1, <1>2 DEF CapsInv, SharingIsMarked
  <2>5. CapsType'
    <3>1. \A e \in Used(objects) : arrays[e] \in CaptureValues
      BY DEF CapsInv, CapsType, CaptureValues, Places
    <3>2. \A e \in Used(objects) : arrs[e] \in CaptureValues
      BY <2>2, <2>3, <3>1
    <3>3. Become(objects, arrs)
      BY <1>2
    <3> HIDE DEF arrs
    <3> QED BY <3>2, <3>3, BecomeTyped DEF CapsInv, CapsType
  <2>6. SharingIsMarked'
    BY <1>2 DEF Become, CapsInv, SharingIsMarked
  <2>7. captures' = [p \in DOMAIN objects |-> arrs[objects[p].data]]
    BY <1>2, BecomeCaptures
  <2> HIDE DEF arrs
  <2>8. captures' = [p \in DOMAIN captures \cup {o} |-> IF p = o THEN value ELSE captures[p]]
    BY <1>1, <2>1, <2>2, <2>3, <2>4, <2>7 DEF captures, Captures
  <2> QED BY <1>1, <2>5, <2>6, <2>8 DEF CapsInv, Values!Set, captures
<1>3. CASE /\ objects[o].shared /\ Used(objects) # Ids
           /\ Become(With(objects, o, Object(FreshData, FALSE)), With(arrays, FreshData, value))
  <2> DEFINE d == FreshData
             objs == With(objects, o, Object(d, FALSE))
             arrs == With(arrays, d, value)
  <2>1. Become(objs, arrs)
    BY <1>3
  <2>2. d \in Ids /\ d \notin Used(objects)
    BY <1>3, FreshArray DEF CapsInv
  <2> HIDE DEF d
  <2>3. DOMAIN objs = DOMAIN objects /\ objs[o] = [data |-> d, shared |-> FALSE]
    BY <1>1 DEF With, Object
  <2>4. \A p \in DOMAIN objects : objects[p].data \in Used(objects) /\ (p # o => objs[p] = objects[p])
    BY DEF With, Used
  <2>5. DOMAIN arrays = Used(objects) /\ arrs[d] = value
    BY DEF With, CapsInv, CapsType
  <2>6. \A e \in Used(objects) : arrs[e] = arrays[e] /\ arrays[e] \in CaptureValues
    BY <2>2, <2>5 DEF With, CapsInv, CapsType, CaptureValues, Places
  <2>7. Used(objs) \subseteq Used(objects) \cup {d}
    <3> HIDE DEF objs
    <3>1. \A p \in DOMAIN objs : objs[p].data \in Used(objects) \cup {d}
      BY <2>3, <2>4
    <3> QED BY <3>1, UsedIn
  <2>8. CapsType'
    <3>1. objs \in [DOMAIN objs -> [data : Ids, shared : BOOLEAN]]
      <4>1. Object(d, FALSE) \in [data : Ids, shared : BOOLEAN]
        BY <2>2 DEF Object
      <4>2. DOMAIN objects \cup {o} = DOMAIN objs
        BY <1>1, <2>3
      <4> QED BY <4>1, <4>2, WithTyped DEF CapsInv, CapsType
    <3>2. \A e \in Used(objs) : arrs[e] \in CaptureValues
      BY <2>5, <2>6, <2>7
    <3> HIDE DEF objs, arrs
    <3> QED BY <2>1, <2>3, <3>1, <3>2, BecomeTyped DEF CapsInv, CapsType
  <2>9. objects' = objs
    BY <2>1 DEF Become
  <2>10. captures' = [p \in DOMAIN objs |-> arrs[objs[p].data]]
    BY <2>1, BecomeCaptures
  <2> HIDE DEF objs, arrs
  <2>11. SharingIsMarked'
    BY <2>2, <2>3, <2>4, <2>9 DEF CapsInv, SharingIsMarked
  <2>12. captures' = [p \in DOMAIN captures \cup {o} |-> IF p = o THEN value ELSE captures[p]]
    <3>1. DOMAIN captures \cup {o} = DOMAIN objs
      BY <1>1, <2>3 DEF captures
    <3>2. \A p \in DOMAIN objs :
            arrs[objs[p].data] = IF p = o THEN value ELSE captures[p]
      BY <2>3, <2>4, <2>5, <2>6 DEF captures, Captures
    <3> QED BY <2>10, <3>1, <3>2
  <2> QED BY <1>1, <2>8, <2>11, <2>12 DEF CapsInv, Values!Set, captures
<1> QED BY <1>2, <1>3 DEF Write

LEMMA DropStep ==
  ASSUME CapsInv, NEW S, Drop(S)
  PROVE  CapsInv' /\ Values!Drop(S)
<1> DEFINE objs == [o \in DOMAIN objects \ S |-> objects[o]]
<1>1. Become(objs, arrays)
  BY DEF Drop
<1>2. Used(objs) \subseteq Used(objects)
  BY DEF Used
<1>3. CapsType'
  <2>1. objs \in [DOMAIN objs -> [data : Ids, shared : BOOLEAN]] /\ DOMAIN objs \subseteq Ids
    BY DEF CapsInv, CapsType
  <2>2. \A e \in Used(objs) : arrays[e] \in CaptureValues
    BY <1>2 DEF CapsInv, CapsType, CaptureValues, Places
  <2> HIDE DEF objs
  <2> QED BY <1>1, <2>1, <2>2, BecomeTyped
<1>4. SharingIsMarked'
  BY <1>1 DEF Become, CapsInv, SharingIsMarked
<1>5. captures' = [o \in DOMAIN objs |-> arrays[objs[o].data]]
  BY <1>1, BecomeCaptures
<1>6. Values!Drop(S)
  BY <1>5 DEF Values!Drop, captures, Captures
<1> QED BY <1>3, <1>4, <1>6 DEF CapsInv

-----------------------------------------------------------------------------
(* A step of the captures.                                                   *)

LEMMA SetCapBeginStep ==
  ASSUME CapsInv, NEW o \in Ids, NEW n \in CaptureNums, NEW at \in Positions,
         SetCapBegin(o, n, at)
  PROVE  CapsInv' /\ Values!SetCapBegin(o, n, at)
<1> DEFINE value == [Captures(o) EXCEPT ![n] = [begin |-> at, end |-> -1]]
<1>1. Write(o, value) /\ o \in DOMAIN objects
  BY DEF SetCapBegin, Write
<1>2. value \in CaptureValues
  BY <1>1, CapturesTyped DEF CapsInv, CaptureValues, Places
<1>3. value = [captures[o] EXCEPT ![n] = [begin |-> at, end |-> -1]]
  BY <1>1 DEF captures
<1> HIDE DEF value
<1> QED BY <1>1, <1>2, <1>3, WriteStep DEF Values!SetCapBegin, captures

LEMMA SetCapEndStep ==
  ASSUME CapsInv, NEW o \in Ids, NEW n \in CaptureNums, NEW at \in Positions,
         SetCapEnd(o, n, at)
  PROVE  CapsInv' /\ Values!SetCapEnd(o, n, at)
<1> DEFINE value == [Captures(o) EXCEPT ![n].end = at]
<1>1. Write(o, value) /\ o \in DOMAIN objects
  BY DEF SetCapEnd, Write
<1>2. value \in CaptureValues
  BY <1>1, CapturesTyped DEF CapsInv, CaptureValues, Places
<1>3. value = [captures[o] EXCEPT ![n].end = at]
  BY <1>1 DEF captures
<1> HIDE DEF value
<1> QED BY <1>1, <1>2, <1>3, WriteStep DEF Values!SetCapEnd, captures

LEMMA MaterializeStep ==
  ASSUME CapsInv, NEW o \in Ids, NEW at \in Positions, Materialize(o, at)
  PROVE  CapsInv' /\ Values!Materialize(o, at)
<1> DEFINE value == [Captures(o) EXCEPT ![0].begin = at]
<1>1. Write(o, value) /\ o \in DOMAIN objects
  BY DEF Materialize, Write
<1>2. value \in CaptureValues
  BY <1>1, CapturesTyped, CapsAssumption DEF CapsInv, CaptureValues, Places
<1>3. value = [captures[o] EXCEPT ![0].begin = at]
  BY <1>1 DEF captures
<1> HIDE DEF value
<1> QED BY <1>1, <1>2, <1>3, WriteStep DEF Values!Materialize, captures

LEMMA CapsInit_Inv ==
  ASSUME CapsInit
  PROVE  CapsInv /\ Values!Init
<1>1. DOMAIN objects = {} /\ DOMAIN arrays = {} /\ Used(objects) = {}
  BY DEF CapsInit, Used
<1>2. CapsType
  BY <1>1 DEF CapsInit, CapsType
<1>3. SharingIsMarked
  BY <1>1 DEF SharingIsMarked
<1>4. Values!Init
  BY <1>1 DEF Values!Init, Values!Nowhere, Nowhere
<1> QED BY <1>2, <1>3, <1>4 DEF CapsInv

LEMMA CapsStep ==
  ASSUME CapsInv, CapsNext
  PROVE  CapsInv' /\ Values!Next
<1>1. CASE \E o \in Ids : New(o)
  BY <1>1, NewStep DEF Values!Next
<1>2. CASE \E o, p \in Ids : Fork(o, p)
  BY <1>2, ForkStep DEF Values!Next
<1>3. CASE \E o \in Ids, n \in CaptureNums, at \in Positions :
             SetCapBegin(o, n, at) \/ SetCapEnd(o, n, at)
  BY <1>3, SetCapBeginStep, SetCapEndStep DEF Values!Next
<1>4. CASE \E o \in Ids, at \in Positions : Materialize(o, at)
  BY <1>4, MaterializeStep DEF Values!Next
<1>5. CASE \E o \in Ids : Drop({o})
  BY <1>5, DropStep DEF Values!Next
<1>6. CASE DropAll
  <2>1. CapsInv' /\ Values!Drop(DOMAIN objects)
    BY <1>6, DropStep DEF DropAll
  <2> QED BY <2>1 DEF Values!Next, Values!DropAll
<1> QED BY <1>1, <1>2, <1>3, <1>4, <1>5, <1>6 DEF CapsNext

LEMMA CapsStutter ==
  ASSUME CapsInv, UNCHANGED caps
  PROVE  CapsInv' /\ UNCHANGED [o \in DOMAIN objects |-> Captures(o)]
BY DEF caps, CapsInv, CapsType, SharingIsMarked, Used, Captures

(* The invariant of the captures, whoever calls their operations.            *)
THEOREM CapsInvariant == CapsSpec => []CapsInv
<1>1. CapsInit => CapsInv
  BY CapsInit_Inv
<1>2. CapsInv /\ [CapsNext]_caps => CapsInv'
  BY CapsStep, CapsStutter
<1> QED BY <1>1, <1>2, PTL DEF CapsSpec

(* An array that two paths share is marked as shared for both: fork marks    *)
(* the object it copies as well as the copy.                                 *)
THEOREM SharedArraysAreMarked == CapsSpec => []SharingIsMarked
<1>1. CapsInv => SharingIsMarked
  BY DEF CapsInv
<1> QED BY <1>1, CapsInvariant, PTL

(* Caps implements captures that every path owns: copying at the first write *)
(* after a fork is never seen by another path.                               *)
THEOREM CapsImplementsValues == CapsSpec => CapturesAreValues
<1>1. CapsInit => Values!Init
  BY CapsInit_Inv
<1>2. CapsInv /\ [CapsNext]_caps => [Values!Next]_([o \in DOMAIN objects |-> Captures(o)])
  BY CapsStep, CapsStutter
<1> QED BY <1>1, <1>2, CapsInvariant, PTL DEF CapsSpec, CapturesAreValues, Values!Spec

-----------------------------------------------------------------------------
(* The program, which calls the operations on captures.                      *)

Size == Len(states)
CallSet == [state : 0 .. Size, keep_pos : Positions, caps : Ids \cup {0},
            bits : SUBSET Nat, mark : Nat]
ThreadSet == [state : 1 .. Size, keep_pos : Positions, caps : Ids \cup {0}]

(* What the operations on captures are given is of the right type.           *)
DfaTyped ==
  /\ {"sets", "row", "entries"} \subseteq DOMAIN dfa
  /\ dfa.sets \in Seq(Seq(1 .. Size)) /\ dfa.row \in Nat
  /\ dfa.entries \in Seq(0 .. Size)
Typed ==
  /\ IsProgram(states)
  /\ pos \in Nat /\ pos \in Positions
  /\ text \in Seq(Codes) /\ 0 .. Len(text) \subseteq Positions
  /\ threads \in Seq(ThreadSet) /\ next_threads \in Seq(ThreadSet)
  /\ calls \in Seq(CallSet)
  /\ DfaTyped

(* A state is marked as visited when a thread for it is appended, and the    *)
(* marks are cleared only when the list is empty again.                      *)
Distinct(list) == \A i, j \in DOMAIN list : i # j => list[i].state # list[j].state
Marked == \A i \in DOMAIN next_threads : IsVisited(next_threads[i].state)
Lists ==
  /\ Distinct(threads) /\ Distinct(next_threads) /\ Marked
  /\ pc = "while" => next_threads = <<>>
  /\ calls # <<>> => pc \in {"swap", "threads", "build"}

(* The inductive invariant.                                                  *)
ProgramInv == CapsInv /\ Typed /\ Lists

(* What every action is shown to do.                                         *)
Moves == Typed' /\ Lists' /\ [CapsNext]_caps

-----------------------------------------------------------------------------
(* Lemmas on states, calls and lists.                                        *)

StateSet == [op : Ops, codes : SUBSET Codes, assertion_type : Assertions \cup {Nil},
             cap_num : CaptureNums, check_id : Nat, next : 0 .. Size, split_next : 0 .. Size]

LEMMA StateTyped ==
  ASSUME Typed, NEW s \in 1 .. Size
  PROVE  /\ State(s).next \in 0 .. Size /\ State(s).split_next \in 0 .. Size
         /\ State(s).check_id \in Nat /\ State(s).cap_num \in CaptureNums
<1>1. states \in Seq(StateSet)
  BY DEF Typed, IsProgram, StateSet, Size
<1> HIDE DEF StateSet
<1>2. states[s] \in StateSet
  BY <1>1 DEF Size
<1> QED BY <1>2 DEF State, StateSet

LEMMA SizePositive ==
  ASSUME Typed
  PROVE  Size \in Nat /\ 1 \in 1 .. Size
BY DEF Typed, IsProgram, Size

LEMMA TopTyped ==
  ASSUME Typed, calls # <<>>
  PROVE  /\ Top \in CallSet /\ Tail(calls) \in Seq(CallSet)
         /\ ~IsMark(Top) => Top.state \in 1 .. Size
<1>1. Top \in CallSet /\ Tail(calls) \in Seq(CallSet)
  BY DEF Typed, Top
<1>2. Size \in Nat
  BY SizePositive
<1> QED BY <1>1, <1>2 DEF CallSet, IsMark

LEMMA Pushed ==
  ASSUME NEW R, NEW c \in R, NEW list \in Seq(R)
  PROVE  <<c>> \o list \in Seq(R)
OBVIOUS

(* The actions of a closure leave the rest alone.                            *)
LEMMA ClosureTyped ==
  ASSUME Typed, UNCHANGED <<states, pos, text, threads, dfa>>,
         calls' \in Seq(CallSet), next_threads' \in Seq(ThreadSet)
  PROVE  Typed'
BY DEF Typed, DfaTyped, CallSet, ThreadSet, Size

LEMMA ClosureLists ==
  ASSUME Lists, UNCHANGED <<states, pc, threads, next_threads>>,
         visited \subseteq visited', calls # <<>>
  PROVE  Lists'
BY DEF Lists, Distinct, Marked, IsVisited, State

LEMMA Appended ==
  ASSUME Typed, Lists, NEW t \in ThreadSet, ~IsVisited(t.state),
         next_threads' = Append(next_threads, t), states' = states,
         visited \cup {State(t.state).check_id} \subseteq visited'
  PROVE  next_threads' \in Seq(ThreadSet) /\ Distinct(next_threads') /\ Marked'
<1> DEFINE n == Len(next_threads)
<1>1. next_threads \in Seq(ThreadSet) /\ n \in Nat
  BY DEF Typed
<1>2. next_threads' \in Seq(ThreadSet) /\ Len(next_threads') = n + 1
  BY <1>1
<1>3. /\ \A i \in 1 .. n : next_threads'[i] = next_threads[i]
      /\ next_threads'[n + 1] = t
  BY <1>1
<1>4. DOMAIN next_threads = 1 .. n /\ DOMAIN next_threads' = 1 .. n + 1
  BY <1>1, <1>2
<1>5. \A i \in 1 .. n : IsVisited(next_threads[i].state)
  BY <1>4 DEF Lists, Marked
<1>6. \A i \in 1 .. n : next_threads[i].state # t.state
  BY <1>5
<1>7. Distinct(next_threads')
  BY <1>1, <1>3, <1>4, <1>6 DEF Lists, Distinct
<1>8. \A i \in 1 .. n + 1 : State(next_threads'[i].state).check_id \in visited'
  BY <1>1, <1>3, <1>5 DEF IsVisited
<1>9. Marked'
  BY <1>4, <1>8 DEF Marked, IsVisited, State
<1> QED BY <1>2, <1>7, <1>9

(* A path that has no captures drops none.                                   *)
LEMMA DropMoves ==
  ASSUME CapsInv, NEW o, Drop({o})
  PROVE  [CapsNext]_caps
<1>1. CASE o \in Ids
  BY <1>1 DEF CapsNext
<1>2. CASE o \notin Ids
  <2>1. DOMAIN objects \ {o} = DOMAIN objects
    BY <1>2 DEF CapsInv, CapsType
  <2>2. [p \in DOMAIN objects \ {o} |-> objects[p]] = objects
    BY <2>1 DEF CapsInv, CapsType
  <2>3. objects' = objects /\ arrays' = [d \in Used(objects) |-> arrays[d]]
    BY <2>2 DEF Drop, Become
  <2>4. arrays' = arrays
    BY <2>3 DEF CapsInv, CapsType
  <2> QED BY <2>3, <2>4 DEF caps
<1> QED BY <1>1, <1>2

LEMMA CapsStays == UNCHANGED caps => [CapsNext]_caps
OBVIOUS

LEMMA FreshInIds == Unused # {} => FreshId \in Ids
BY FreshObject DEF Unused

-----------------------------------------------------------------------------
(* The epsilon closure.                                                      *)

LEMMA LeafMoves ==
  ASSUME ProgramInv, Leaf
  PROVE  Moves
<1>1. /\ calls # <<>> /\ ~IsMark(Top)
      /\ UNCHANGED <<states, pos, text, threads, dfa>>
  BY DEF Leaf, Begins, args, program, full
<1>2. Top \in CallSet /\ Tail(calls) \in Seq(CallSet) /\ Top.state \in 1 .. Size
  BY <1>1, TopTyped DEF ProgramInv
<1>3. CASE IsVisited(Top.state) /\ EndPath /\ UNCHANGED <<pc, next_threads, visited>>
  <2>1. calls' \in Seq(CallSet) /\ next_threads' \in Seq(ThreadSet)
    BY <1>2, <1>3 DEF EndPath, ProgramInv, Typed
  <2>2. Typed'
    BY <1>1, <2>1, ClosureTyped DEF ProgramInv
  <2>3. Lists'
    BY <1>1, <1>3, ClosureLists DEF ProgramInv
  <2>4. [CapsNext]_caps
    BY <1>3, DropMoves DEF EndPath, ProgramInv
  <2> QED BY <2>2, <2>3, <2>4 DEF Moves
<1>4. CASE /\ ~IsVisited(Top.state) /\ UNCHANGED caps
           /\ visited \cup {State(Top.state).check_id} \subseteq visited'
           /\ calls' \in {<<>>, Tail(calls)} /\ (calls' = <<>> \/ pc' = pc)
           /\ next_threads' = Append(next_threads, Thread(Top.state, Top.keep_pos, Top.caps))
           /\ pc' \in {pc, "returned"}
  <2> DEFINE t == Thread(Top.state, Top.keep_pos, Top.caps)
  <2>1. t \in ThreadSet /\ t.state = Top.state
    BY <1>2 DEF Thread, ThreadSet, CallSet
  <2> HIDE DEF t
  <2>2. next_threads' \in Seq(ThreadSet) /\ Distinct(next_threads') /\ Marked'
    BY <1>1, <1>4, <2>1, Appended DEF ProgramInv, t
  <2>3. calls' \in Seq(CallSet)
    <3>1. <<>> \in Seq(CallSet)
      OBVIOUS
    <3> QED BY <1>2, <1>4, <3>1
  <2>4. Typed'
    BY <1>1, <2>2, <2>3, ClosureTyped DEF ProgramInv
  <2>5. Lists'
    BY <1>1, <1>4, <2>2 DEF ProgramInv, Lists, Distinct
  <2> QED BY <1>4, <2>4, <2>5, CapsStays DEF Moves
<1>5. \/ IsVisited(Top.state) /\ EndPath /\ UNCHANGED <<pc, next_threads, visited>>
      \/ /\ ~IsVisited(Top.state) /\ UNCHANGED caps
         /\ visited \cup {State(Top.state).check_id} \subseteq visited'
         /\ calls' \in {<<>>, Tail(calls)} /\ (calls' = <<>> \/ pc' = pc)
         /\ next_threads' = Append(next_threads, Thread(Top.state, Top.keep_pos, Top.caps))
         /\ pc' \in {pc, "returned"}
  BY DEF Leaf
<1> QED BY <1>3, <1>4, <1>5

(* The actions that pass the call on to other states.                        *)
LEMMA CallsMove ==
  ASSUME ProgramInv, calls # <<>>, calls' \in Seq(CallSet), [CapsNext]_caps,
         UNCHANGED <<states, pos, text, threads, dfa, next_threads, pc>>,
         visited \subseteq visited'
  PROVE  Moves
<1>1. Typed'
  BY ClosureTyped DEF ProgramInv, Typed
<1>2. Lists'
  BY ClosureLists DEF ProgramInv
<1> QED BY <1>1, <1>2 DEF Moves

LEMMA GotoTyped ==
  ASSUME Typed, calls # <<>>, NEW s \in 0 .. Size, Goto(s)
  PROVE  calls' \in Seq(CallSet)
<1>1. [Top EXCEPT !.state = s] \in CallSet
  BY TopTyped DEF CallSet
<1> QED BY <1>1, TopTyped, Pushed DEF Goto

LEMMA JumpMoves ==
  ASSUME ProgramInv, Jump
  PROVE  Moves
<1>1. calls # <<>> /\ Top.state \in 1 .. Size
  BY TopTyped DEF Jump, Begins, ProgramInv
<1>2. calls' \in Seq(CallSet)
  BY <1>1, StateTyped, GotoTyped DEF Jump, ProgramInv
<1> QED BY <1>1, <1>2, CallsMove DEF Jump, args, program, loop, full, caps

LEMMA SplitMoves ==
  ASSUME ProgramInv, Split
  PROVE  Moves
<1> DEFINE fork == IF WithCaps THEN FreshId ELSE Top.caps
           first == [Top EXCEPT !.state = State(Top.state).next, !.caps = fork]
           second == [Top EXCEPT !.state = State(Top.state).split_next]
<1>1. /\ calls # <<>> /\ Top.state \in 1 .. Size
      /\ Top \in CallSet /\ Tail(calls) \in Seq(CallSet)
  BY TopTyped DEF Split, Begins, ProgramInv
<1>2. /\ IF WithCaps THEN Unused # {} /\ Fork(Top.caps, fork) ELSE UNCHANGED caps
      /\ calls' = <<first, second>> \o Tail(calls)
  BY DEF Split
<1>3. fork \in Ids \cup {0}
  BY <1>1, <1>2, FreshInIds DEF CallSet
<1>4. first \in CallSet /\ second \in CallSet
  BY <1>1, <1>3, StateTyped DEF ProgramInv, CallSet
<1>5. [CapsNext]_caps
  <2>1. CASE WithCaps
    <3>1. Fork(Top.caps, fork) /\ fork \in Ids
      BY <1>2, <2>1, FreshInIds
    <3>2. Top.caps \in Ids
      BY <3>1 DEF Fork, ProgramInv, CapsInv, CapsType
    <3> QED BY <3>1, <3>2 DEF CapsNext
  <2>2. CASE ~WithCaps
    BY <1>2, <2>2
  <2> QED BY <2>1, <2>2
<1> HIDE DEF first, second
<1>6. calls' \in Seq(CallSet)
  BY <1>1, <1>2, <1>4
<1> QED BY <1>1, <1>5, <1>6, CallsMove DEF Split, args, program, loop, full

LEMMA CapBeginMoves ==
  ASSUME ProgramInv, CapBegin
  PROVE  Moves
<1>1. calls # <<>> /\ Top.state \in 1 .. Size
  BY TopTyped DEF CapBegin, Begins, ProgramInv
<1>2. calls' \in Seq(CallSet)
  BY <1>1, StateTyped, GotoTyped DEF CapBegin, ProgramInv
<1>3. State(Top.state).cap_num \in CaptureNums /\ pos \in Positions
  BY <1>1, StateTyped DEF ProgramInv, Typed
<1>4. [CapsNext]_caps
  <2>1. CASE WithCaps
    <3>1. SetCapBegin(Top.caps, State(Top.state).cap_num, pos)
      BY <2>1 DEF CapBegin
    <3>2. Top.caps \in Ids
      BY <3>1 DEF SetCapBegin, Write, ProgramInv, CapsInv, CapsType
    <3> QED BY <1>3, <3>1, <3>2 DEF CapsNext
  <2>2. CASE ~WithCaps
    BY <2>2 DEF CapBegin
  <2> QED BY <2>1, <2>2
<1> QED BY <1>1, <1>2, <1>4, CallsMove DEF CapBegin, args, program, loop, full

LEMMA CapEndMoves ==
  ASSUME ProgramInv, CapEnd
  PROVE  Moves
<1>1. calls # <<>> /\ Top.state \in 1 .. Size
  BY TopTyped DEF CapEnd, Begins, ProgramInv
<1>2. calls' \in Seq(CallSet)
  BY <1>1, StateTyped, GotoTyped DEF CapEnd, ProgramInv
<1>3. State(Top.state).cap_num \in CaptureNums /\ pos \in Positions
  BY <1>1, StateTyped DEF ProgramInv, Typed
<1>4. [CapsNext]_caps
  <2>1. CASE WithCaps
    <3>1. SetCapEnd(Top.caps, State(Top.state).cap_num, pos)
      BY <2>1 DEF CapEnd
    <3>2. Top.caps \in Ids
      BY <3>1 DEF SetCapEnd, Write, ProgramInv, CapsInv, CapsType
    <3> QED BY <1>3, <3>1, <3>2 DEF CapsNext
  <2>2. CASE ~WithCaps
    BY <2>2 DEF CapEnd
  <2> QED BY <2>1, <2>2
<1> QED BY <1>1, <1>2, <1>4, CallsMove DEF CapEnd, args, program, loop, full

LEMMA KeepMoves ==
  ASSUME ProgramInv, Keep
  PROVE  Moves
<1> DEFINE next == [Top EXCEPT !.state = State(Top.state).next, !.keep_pos = pos]
<1>1. /\ calls # <<>> /\ Top.state \in 1 .. Size
      /\ Top \in CallSet /\ Tail(calls) \in Seq(CallSet)
  BY TopTyped DEF Keep, Begins, ProgramInv
<1>2. next \in CallSet
  BY <1>1, StateTyped DEF ProgramInv, Typed, CallSet
<1>3. calls' = <<next>> \o Tail(calls)
  BY DEF Keep
<1> HIDE DEF next
<1>4. calls' \in Seq(CallSet)
  BY <1>1, <1>2, <1>3, Pushed
<1> QED BY <1>1, <1>4, CallsMove DEF Keep, args, program, loop, full

LEMMA AssertionMoves ==
  ASSUME ProgramInv, Assertion
  PROVE  Moves
<1>1. /\ calls # <<>> /\ Top.state \in 1 .. Size
      /\ Tail(calls) \in Seq(CallSet)
  BY TopTyped DEF Assertion, Begins, ProgramInv
<1>2. CASE Goto(State(Top.state).next) /\ UNCHANGED caps
  <2>1. calls' \in Seq(CallSet)
    BY <1>1, <1>2, StateTyped, GotoTyped DEF ProgramInv
  <2> QED BY <1>1, <1>2, <2>1, CallsMove DEF Assertion, args, program, loop, full
<1>3. CASE EndPath
  <2>1. calls' \in Seq(CallSet) /\ [CapsNext]_caps
    BY <1>1, <1>3, DropMoves DEF EndPath, ProgramInv
  <2> QED BY <1>1, <2>1, CallsMove DEF Assertion, args, program, loop, full
<1> QED BY <1>2, <1>3 DEF Assertion

LEMMA CheckVisitedMoves ==
  ASSUME ProgramInv, CheckVisited
  PROVE  Moves
<1> DEFINE next == [Top EXCEPT !.state = State(Top.state).next]
           mark == Mark(State(Top.state).check_id)
<1>1. /\ calls # <<>> /\ Top.state \in 1 .. Size
      /\ Top \in CallSet /\ Tail(calls) \in Seq(CallSet)
  BY TopTyped DEF CheckVisited, Begins, ProgramInv
<1>2. CASE EndPath
  <2>1. calls' \in Seq(CallSet) /\ [CapsNext]_caps
    BY <1>1, <1>2, DropMoves DEF EndPath, ProgramInv
  <2> QED BY <1>1, <2>1, CallsMove DEF CheckVisited, args, program, loop, full
<1>3. CASE calls' = <<next, mark>> \o Tail(calls) /\ UNCHANGED caps
  <2>1. next \in CallSet
    BY <1>1, StateTyped DEF ProgramInv, CallSet
  <2>2. mark \in CallSet
    BY <1>1, StateTyped, SizePositive, ArgumentsAssumption DEF ProgramInv, CallSet, Mark
  <2> HIDE DEF next, mark
  <2>3. calls' \in Seq(CallSet)
    BY <1>1, <1>3, <2>1, <2>2
  <2> QED BY <1>1, <1>3, <2>3, CallsMove DEF CheckVisited, args, program, loop, full
<1> QED BY <1>2, <1>3 DEF CheckVisited

LEMMA SetVisitedMoves ==
  ASSUME ProgramInv, SetVisited
  PROVE  Moves
<1>1. calls # <<>> /\ Tail(calls) \in Seq(CallSet)
  BY TopTyped DEF SetVisited, ProgramInv
<1> QED BY <1>1, CallsMove DEF SetVisited, args, program, loop, full

LEMMA MarkEpsilonMoves ==
  ASSUME ProgramInv, MarkEpsilon
  PROVE  Moves
<1> DEFINE next == [Top EXCEPT !.state = State(Top.state).next,
                               !.bits = @ \cup {State(Top.state).check_id}]
<1>1. /\ calls # <<>> /\ Top.state \in 1 .. Size
      /\ Top \in CallSet /\ Tail(calls) \in Seq(CallSet)
  BY TopTyped DEF MarkEpsilon, Begins, ProgramInv
<1>2. next \in CallSet
  BY <1>1, StateTyped DEF ProgramInv, Typed, CallSet
<1>3. calls' = <<next>> \o Tail(calls)
  BY DEF MarkEpsilon
<1> HIDE DEF next
<1>4. calls' \in Seq(CallSet)
  BY <1>1, <1>2, <1>3, Pushed
<1> QED BY <1>1, <1>4, CallsMove DEF MarkEpsilon, args, program, loop, full

LEMMA CheckEpsilonMoves ==
  ASSUME ProgramInv, CheckEpsilon
  PROVE  Moves
<1>1. calls # <<>> /\ Top.state \in 1 .. Size
  BY TopTyped DEF CheckEpsilon, Begins, ProgramInv
<1>2. calls' \in Seq(CallSet)
  BY <1>1, StateTyped, GotoTyped DEF CheckEpsilon, ProgramInv
<1> QED BY <1>1, <1>2, CallsMove DEF CheckEpsilon, args, program, loop, full

LEMMA ClosureMoves ==
  ASSUME ProgramInv, EpsilonClosure
  PROVE  Moves
BY LeafMoves, JumpMoves, SplitMoves, CapBeginMoves, CapEndMoves, KeepMoves, AssertionMoves,
   CheckVisitedMoves, SetVisitedMoves, MarkEpsilonMoves, CheckEpsilonMoves DEF EpsilonClosure

-----------------------------------------------------------------------------
(* The loops of match and match?.                                            *)

LEMMA FirstIsIn ==
  ASSUME NEW S \in SUBSET Nat, S # {}
  PROVE  First(S) \in S
<1> DEFINE R == OpToRel(<, Nat)
<1>1. IsWellFoundedOn(R, Nat)
  BY NatLessThanWellFounded
<1>2. \A i, j \in Nat : i < j => <<i, j>> \in R
  BY DEF OpToRel
<1> HIDE DEF R
<1>3. \E i \in S : \A j \in S : <<j, i>> \notin R
  BY <1>1, WFMin
<1>4. PICK i \in S : \A j \in S : <<j, i>> \notin R
  BY <1>3
<1>5. \A j \in S : ~(j < i)
  BY <1>2, <1>4
<1>6. \A j \in S : i <= j
  BY <1>5
<1> QED BY <1>6 DEF First

LEMMA HeadAndTail ==
  ASSUME NEW R, NEW list \in Seq(R), list # <<>>
  PROVE  /\ Head(list) \in R /\ Tail(list) \in Seq(R)
         /\ Len(Tail(list)) = Len(list) - 1 /\ Len(list) \in Nat
         /\ \A i \in 1 .. Len(list) - 1 : Tail(list)[i] = list[i + 1]
OBVIOUS

LEMMA Elements ==
  ASSUME NEW R, NEW list \in Seq(R)
  PROVE  /\ Len(list) \in Nat /\ DOMAIN list = 1 .. Len(list)
         /\ \A i \in 1 .. Len(list) : list[i] \in R
OBVIOUS

LEMMA IsSequence ==
  ASSUME NEW R, NEW n \in Nat, NEW f \in [1 .. n -> R]
  PROVE  f \in Seq(R)
OBVIOUS

LEMMA TailDistinct ==
  ASSUME NEW list \in Seq(ThreadSet), list # <<>>, Distinct(list)
  PROVE  Distinct(Tail(list))
<1> DEFINE tail == Tail(list)
<1>1. /\ tail \in Seq(ThreadSet) /\ Len(tail) = Len(list) - 1 /\ Len(list) \in Nat
      /\ \A i \in 1 .. Len(list) - 1 : tail[i] = list[i + 1]
  BY HeadAndTail
<1> HIDE DEF tail
<1>2. DOMAIN tail = 1 .. Len(list) - 1 /\ DOMAIN list = 1 .. Len(list)
  BY <1>1
<1>3. \A i, j \in 1 .. Len(list) : i # j => list[i].state # list[j].state
  BY <1>2 DEF Distinct
<1>4. \A i \in 1 .. Len(list) - 1 : i + 1 \in 1 .. Len(list)
  BY <1>1
<1>5. \A i, j \in 1 .. Len(list) - 1 : i # j => tail[i].state # tail[j].state
  BY <1>1, <1>3, <1>4
<1>6. Distinct(tail)
  BY <1>2, <1>5 DEF Distinct
<1> QED BY <1>6 DEF tail

LEMMA VisitTyped ==
  ASSUME Typed, NEW s \in 0 .. Size, NEW keep \in Positions, NEW o \in Ids \cup {0}
  PROVE  <<Visit(s, keep, o, {})>> \in Seq(CallSet)
<1>1. Visit(s, keep, o, {}) \in CallSet
  BY DEF Visit, CallSet
<1> QED BY <1>1

LEMMA StartMoves ==
  ASSUME Typed, NEW name, NEW keep \in Positions, StartClosure(name, keep)
  PROVE  calls' \in Seq(CallSet) /\ [CapsNext]_caps
<1>1. 1 \in 0 .. Size
  BY SizePositive
<1>2. CASE name = "match"
  <2>1. FreshId \in Ids /\ [CapsNext]_caps
    BY <1>2 DEF StartClosure, New, Unused, CapsNext
  <2> QED BY <1>1, <1>2, <2>1, VisitTyped DEF StartClosure
<1>3. CASE name # "match"
  BY <1>1, <1>3, VisitTyped DEF StartClosure
<1> QED BY <1>2, <1>3

(* The actions that leave the lists alone.                                   *)
LEMMA Typed_Kept ==
  ASSUME Typed, UNCHANGED <<states, dfa, threads, next_threads>>,
         text' \in Seq(Codes), 0 .. Len(text') \subseteq Positions,
         pos' \in Nat, pos' \in Positions, calls' \in Seq(CallSet)
  PROVE  Typed'
BY DEF Typed, DfaTyped, CallSet, ThreadSet, Size

LEMMA Idle ==
  ASSUME ProgramInv, pc \notin {"swap", "threads", "build"}
  PROVE  calls = <<>>
BY DEF ProgramInv, Lists

LEMMA RunMoves ==
  ASSUME ProgramInv, NEW name, Run(name)
  PROVE  Moves
<1>1. calls = <<>> /\ UNCHANGED <<states, threads, next_threads, visited, dfa>>
  BY Idle DEF Run, program
<1>2. PICK a \in Arguments :
        /\ text' = a.text /\ pos' = a.start_pos
        /\ \/ pc' = "returned" /\ UNCHANGED <<calls, caps>>
           \/ pc' = "full_dfa" /\ UNCHANGED <<calls, caps>>
           \/ pc' = "swap" /\ StartClosure(name, a.start_pos)
  BY DEF Run
<1>3. /\ text' \in Seq(Codes) /\ 0 .. Len(text') \subseteq Positions
      /\ pos' \in Nat /\ pos' \in Positions
  BY <1>2, ArgumentsAssumption
<1>4. calls' \in Seq(CallSet) /\ [CapsNext]_caps
  <2>1. CASE UNCHANGED <<calls, caps>>
    BY <2>1 DEF ProgramInv, Typed
  <2>2. CASE StartClosure(name, a.start_pos)
    BY <2>2, StartMoves, ArgumentsAssumption DEF ProgramInv
  <2> QED BY <1>2, <2>1, <2>2
<1>5. Typed'
  BY <1>1, <1>3, <1>4, Typed_Kept DEF ProgramInv
<1>6. Lists'
  BY <1>1, <1>2 DEF ProgramInv, Lists, Distinct, Marked, IsVisited, State
<1> QED BY <1>4, <1>5, <1>6 DEF Moves

LEMMA SwapMoves ==
  ASSUME ProgramInv, Swap
  PROVE  Moves
<1>1. /\ calls' = <<>> /\ pc' = "while" /\ threads' = next_threads /\ next_threads' = <<>>
      /\ UNCHANGED <<states, text, pos, dfa, caps, calls>>
  BY DEF Swap, args, program, full
<1>2. Typed'
  BY <1>1 DEF ProgramInv, Typed, DfaTyped, CallSet, ThreadSet, Size
<1>3. Lists'
  BY <1>1 DEF ProgramInv, Lists, Distinct, Marked
<1> QED BY <1>1, <1>2, <1>3, CapsStays DEF Moves

LEMMA NextPosition ==
  ASSUME Typed, pos < Len(text)
  PROVE  pos + 1 \in Nat /\ pos + 1 \in Positions
<1>1. Len(text) \in Nat /\ pos \in Nat /\ 0 .. Len(text) \subseteq Positions
  BY DEF Typed
<1> QED BY <1>1

LEMMA NextCodeMoves ==
  ASSUME ProgramInv, NextCode
  PROVE  Moves
<1>1. /\ calls = <<>> /\ next_threads = <<>> /\ pos' = pos + 1 /\ pc' = "threads"
      /\ UNCHANGED <<states, text, threads, dfa, caps, next_threads, calls>>
  BY Idle DEF NextCode, args, program, full, ProgramInv, Lists
<1>2. pos' \in Nat /\ pos' \in Positions
  BY <1>1, NextPosition DEF NextCode, ProgramInv
<1>3. Typed'
  BY <1>1, <1>2, Typed_Kept DEF ProgramInv, Typed
<1>4. Lists'
  BY <1>1 DEF ProgramInv, Lists, Distinct, Marked
<1> QED BY <1>1, <1>3, <1>4, CapsStays DEF Moves

LEMMA FinishMoves ==
  ASSUME ProgramInv, Finish
  PROVE  Moves
<1>1. /\ calls = <<>> /\ pc' = "returned"
      /\ UNCHANGED <<states, text, pos, threads, dfa, next_threads, visited, calls>>
  BY Idle DEF Finish, args, program, full
<1>2. [CapsNext]_caps
  <2>1. CASE Matching # {} /\ WithCaps
    <3> DEFINE best == threads[First(Matching)]
    <3>1. Materialize(best.caps, best.keep_pos)
      BY <2>1 DEF Finish
    <3>2. Matching \in SUBSET Nat /\ Matching \subseteq DOMAIN threads
      BY DEF Matching, ProgramInv, Typed
    <3>3. First(Matching) \in DOMAIN threads
      BY <2>1, <3>2, FirstIsIn
    <3>4. best \in ThreadSet
      BY <3>3 DEF ProgramInv, Typed
    <3>5. best.keep_pos \in Positions
      BY <3>4 DEF ThreadSet
    <3> HIDE DEF best
    <3>6. best.caps \in Ids
      BY <3>1 DEF Materialize, Write, ProgramInv, CapsInv, CapsType
    <3> QED BY <3>1, <3>5, <3>6 DEF CapsNext
  <2>2. CASE ~(Matching # {} /\ WithCaps)
    BY <2>2 DEF Finish
  <2> QED BY <2>1, <2>2
<1>3. Typed'
  BY <1>1, Typed_Kept DEF ProgramInv, Typed
<1>4. Lists'
  BY <1>1 DEF ProgramInv, Lists, Distinct, Marked, IsVisited, State
<1> QED BY <1>2, <1>3, <1>4 DEF Moves

(* The thread that runs.                                                     *)
LEMMA HeadThread ==
  ASSUME ProgramInv, threads # <<>>
  PROVE  /\ Head(threads) \in ThreadSet /\ Tail(threads) \in Seq(ThreadSet)
         /\ Distinct(Tail(threads)) /\ Head(threads).state \in 1 .. Size
<1>1. Head(threads) \in ThreadSet /\ Tail(threads) \in Seq(ThreadSet)
  BY HeadAndTail DEF ProgramInv, Typed
<1>2. Distinct(Tail(threads))
  BY TailDistinct DEF ProgramInv, Typed, Lists
<1> QED BY <1>1, <1>2 DEF ThreadSet

LEMMA KillThreadMoves ==
  ASSUME ProgramInv, KillThread
  PROVE  Moves
<1>1. /\ threads # <<>> /\ calls = <<>> /\ threads' = Tail(threads) /\ pc = "threads"
      /\ UNCHANGED <<states, pc, pos, text, dfa, next_threads, visited, calls>>
  BY DEF KillThread, InThreads, args, program, full
<1>2. [CapsNext]_caps
  BY DropMoves DEF KillThread, ProgramInv
<1>3. Typed'
  BY <1>1, HeadThread DEF ProgramInv, Typed, DfaTyped, CallSet, ThreadSet, Size
<1>4. Lists'
  <2>1. Distinct(threads')
    BY <1>1, HeadThread
  <2> QED BY <1>1, <2>1 DEF ProgramInv, Lists, Distinct, Marked, IsVisited, State
<1> QED BY <1>2, <1>3, <1>4 DEF Moves

LEMMA CarryMatchMoves ==
  ASSUME ProgramInv, CarryMatch
  PROVE  Moves
<1> DEFINE t == Head(threads)
<1>1. /\ threads # <<>> /\ calls = <<>> /\ threads' = Tail(threads) /\ pc = "threads"
      /\ ~IsVisited(t.state) /\ next_threads' = Append(next_threads, t)
      /\ visited' = visited \cup {State(t.state).check_id}
      /\ UNCHANGED <<states, pc, pos, text, dfa, caps, calls>>
  BY DEF CarryMatch, InThreads, args, program, full
<1>2. t \in ThreadSet
  BY <1>1, HeadThread
<1> HIDE DEF t
<1>3. next_threads' \in Seq(ThreadSet) /\ Distinct(next_threads') /\ Marked'
  BY <1>1, <1>2, Appended DEF ProgramInv
<1>4. Typed'
  BY <1>1, <1>3, HeadThread DEF ProgramInv, Typed, DfaTyped, CallSet, ThreadSet, Size
<1>5. Lists'
  <2>1. Distinct(threads')
    BY <1>1, HeadThread
  <2> QED BY <1>1, <1>3, <2>1 DEF ProgramInv, Lists, Distinct
<1> QED BY <1>1, <1>4, <1>5, CapsStays DEF Moves

LEMMA ConsumeMoves ==
  ASSUME ProgramInv, Consume
  PROVE  Moves
<1> DEFINE t == Head(threads)
<1>1. /\ threads # <<>> /\ threads' = Tail(threads) /\ pc = "threads"
      /\ calls' = <<Visit(State(t.state).next, t.keep_pos, t.caps, {})>>
      /\ UNCHANGED <<states, pc, pos, text, dfa, caps, next_threads, visited>>
  BY DEF Consume, InThreads, args, program, full
<1>2. t \in ThreadSet /\ t.state \in 1 .. Size
  BY <1>1, HeadThread
<1> HIDE DEF t
<1>3. calls' \in Seq(CallSet)
  BY <1>1, <1>2, StateTyped, VisitTyped DEF ProgramInv, ThreadSet
<1>4. Typed'
  BY <1>1, <1>3, HeadThread DEF ProgramInv, Typed, DfaTyped, CallSet, ThreadSet, Size
<1>5. Lists'
  <2>1. Distinct(threads')
    BY <1>1, HeadThread
  <2> QED BY <1>1, <2>1 DEF ProgramInv, Lists, Distinct, Marked, IsVisited, State
<1> QED BY <1>1, <1>4, <1>5, CapsStays DEF Moves

LEMMA RestartMoves ==
  ASSUME ProgramInv, Restart
  PROVE  Moves
<1>1. /\ pc' = "swap" /\ UNCHANGED <<states, pos, text, threads, dfa, next_threads, visited>>
      /\ UNCHANGED <<calls, caps>> \/ StartClosure(call, pos)
  BY DEF Restart, args, program, full
<1>2. calls' \in Seq(CallSet) /\ [CapsNext]_caps
  <2>1. CASE UNCHANGED <<calls, caps>>
    BY <2>1 DEF ProgramInv, Typed
  <2>2. CASE StartClosure(call, pos)
    BY <2>2, StartMoves DEF ProgramInv, Typed
  <2> QED BY <1>1, <2>1, <2>2
<1>3. Typed'
  BY <1>1, <1>2, Typed_Kept DEF ProgramInv, Typed
<1>4. Lists'
  BY <1>1 DEF ProgramInv, Lists, Distinct, Marked, IsVisited, State
<1> QED BY <1>2, <1>3, <1>4 DEF Moves

LEMMA ReturnMoves ==
  ASSUME ProgramInv, Return
  PROVE  Moves
<1>1. /\ text' = <<>> /\ pos' = 0 /\ threads' = <<>> /\ next_threads' = <<>> /\ calls' = <<>>
      /\ UNCHANGED <<states, dfa>> /\ DropAll
  BY DEF Return, program
<1>2. 0 .. Len(text') \subseteq Positions
  BY <1>1, ArgumentsAssumption
<1>3. Typed'
  BY <1>1, <1>2, ArgumentsAssumption DEF ProgramInv, Typed, DfaTyped, CallSet, ThreadSet, Size
<1>4. Lists'
  BY <1>1 DEF Lists, Distinct, Marked
<1> QED BY <1>1, <1>3, <1>4 DEF Moves, CapsNext

LEMMA LoopMoves ==
  ASSUME ProgramInv, Loop
  PROVE  Moves
BY SwapMoves, NextCodeMoves, FinishMoves, KillThreadMoves, CarryMatchMoves, ConsumeMoves,
   RestartMoves DEF Loop

-----------------------------------------------------------------------------
(* The DFA.                                                                  *)

LEMMA EmptyTyped ==
  ASSUME NEW R
  PROVE  <<>> \in Seq(R)
OBVIOUS

LEMMA AppendTyped ==
  ASSUME NEW R, NEW list \in Seq(R), NEW e \in R
  PROVE  Append(list, e) \in Seq(R)
OBVIOUS

LEMMA BuildFullDfaMoves ==
  ASSUME ProgramInv, BuildFullDfa
  PROVE  Moves
<1>1. /\ calls = <<>> /\ pc' = "build" /\ dfa' = [EmptyDfa EXCEPT !.entries = <<1>>]
      /\ UNCHANGED <<states, pos, text, threads, next_threads, visited, calls, caps>>
  BY Idle DEF BuildFullDfa, program
<1>2. /\ dfa'.sets = <<>> /\ dfa'.row = 0 /\ dfa'.entries = <<1>>
      /\ {"sets", "row", "entries"} \subseteq DOMAIN dfa'
  BY <1>1 DEF EmptyDfa
<1>3. DfaTyped'
  <2>1. <<1>> \in Seq(0 .. Size)
    <3>1. 1 \in 0 .. Size
      BY SizePositive DEF ProgramInv
    <3> QED BY <3>1
  <2>2. dfa'.sets \in Seq(Seq(1 .. Size))
    BY <1>2, EmptyTyped
  <2> QED BY <1>1, <1>2, <2>1, <2>2 DEF DfaTyped, Size
<1>4. Typed'
  BY <1>1, <1>3 DEF ProgramInv, Typed, CallSet, ThreadSet, Size
<1>5. Lists'
  BY <1>1 DEF ProgramInv, Lists, Distinct, Marked, IsVisited, State
<1> QED BY <1>1, <1>4, <1>5, CapsStays DEF Moves

LEMMA CloseEntryMoves ==
  ASSUME ProgramInv, CloseEntry
  PROVE  Moves
<1> DEFINE s == Head(dfa.entries)
<1>1. /\ pc = "build" /\ dfa.entries # <<>> /\ dfa' = [dfa EXCEPT !.entries = Tail(@)]
      /\ calls' = IF s = 0 THEN <<>> ELSE <<Visit(s, 0, 0, {})>>
      /\ UNCHANGED <<states, pc, pos, text, threads, next_threads, visited, caps>>
  BY DEF CloseEntry, args, program, loop
<1>2. s \in 0 .. Size /\ Tail(dfa.entries) \in Seq(0 .. Size)
  BY <1>1, HeadAndTail DEF ProgramInv, Typed, DfaTyped
<1> HIDE DEF s
<1>3. calls' \in Seq(CallSet)
  <2>1. <<>> \in Seq(CallSet)
    OBVIOUS
  <2> QED BY <1>1, <1>2, <2>1, VisitTyped, ArgumentsAssumption DEF ProgramInv
<1>4. DfaTyped'
  <2>1. /\ dfa'.sets = dfa.sets /\ dfa'.row = dfa.row /\ dfa'.entries = Tail(dfa.entries)
        /\ DOMAIN dfa' = DOMAIN dfa
    BY <1>1 DEF ProgramInv, Typed, DfaTyped
  <2> QED BY <1>1, <1>2, <2>1 DEF ProgramInv, Typed, DfaTyped, Size
<1>5. Typed'
  BY <1>1, <1>3, <1>4 DEF ProgramInv, Typed, CallSet, ThreadSet, Size
<1>6. Lists'
  BY <1>1 DEF ProgramInv, Lists, Distinct, Marked, IsVisited, State
<1> QED BY <1>1, <1>5, <1>6, CapsStays DEF Moves

LEMMA StatesOfTyped ==
  ASSUME NEW list \in Seq(ThreadSet)
  PROVE  StatesOf(list) \in Seq(1 .. Size)
<1>1. /\ Len(list) \in Nat /\ DOMAIN list = 1 .. Len(list)
      /\ \A i \in 1 .. Len(list) : list[i] \in ThreadSet
  BY Elements
<1>2. \A i \in 1 .. Len(list) : list[i].state \in 1 .. Size
  BY <1>1 DEF ThreadSet
<1>3. StatesOf(list) \in [1 .. Len(list) -> 1 .. Size]
  BY <1>1, <1>2 DEF StatesOf
<1> QED BY <1>1, <1>3, IsSequence

LEMMA AfterTyped ==
  ASSUME Typed, NEW set \in Seq(1 .. Size), NEW code
  PROVE  After(set, code) \in Seq(0 .. Size)
<1> DEFINE matching == {s \in Keys(set) : IsMatch(s)}
           match_state == CHOOSE s \in matching : TRUE
           nexts == [i \in DOMAIN set |-> NextOn(set[i], code)]
<1>1. /\ Len(set) \in Nat /\ DOMAIN set = 1 .. Len(set)
      /\ \A i \in 1 .. Len(set) : set[i] \in 1 .. Size
  BY Elements
<1>2. Size \in Nat /\ 1 \in 0 .. Size
  BY SizePositive
<1>3. CASE matching # {}
  <2>1. match_state \in 0 .. Size
    <3>1. matching \subseteq 0 .. Size
      BY <1>1, <1>2 DEF Keys
    <3> HIDE DEF matching
    <3>2. match_state \in matching
      BY <1>3
    <3> QED BY <3>1, <3>2
  <2>2. After(set, code) = <<match_state>>
    BY <1>3 DEF After
  <2> HIDE DEF match_state
  <2> QED BY <2>1, <2>2
<1>4. CASE matching = {}
  <2>1. \A i \in 1 .. Len(set) : NextOn(set[i], code) \in 0 .. Size
    BY <1>1, <1>2, StateTyped DEF NextOn
  <2>2. nexts \in [1 .. Len(set) -> 0 .. Size]
    BY <1>1, <2>1
  <2>3. After(set, code) = Append(nexts, 1)
    BY <1>4 DEF After
  <2> HIDE DEF nexts
  <2>4. nexts \in Seq(0 .. Size)
    BY <1>1, <2>2, IsSequence
  <2> QED BY <1>2, <2>3, <2>4
<1> QED BY <1>3, <1>4

LEMMA AddStateMoves ==
  ASSUME ProgramInv, AddState
  PROVE  Moves
<1> DEFINE same == Same(next_threads)
           index == IF same = {} THEN Len(dfa.sets) + 1 ELSE First(same)
           sets == IF same = {} THEN Append(dfa.sets, StatesOf(next_threads)) ELSE dfa.sets
           moves == IF dfa.row = 0 THEN <<>>
                    ELSE [dfa.moves EXCEPT ![dfa.row] = Append(@, index)]
           isLast == dfa.row = 0 \/ IsLastColumn(dfa.column)
           row == IF isLast THEN dfa.row + 1 ELSE dfa.row
           column == IF isLast THEN 1 ELSE dfa.column + 1
           code == IF column > Len(columns) THEN Nil ELSE columns[column]
           added == IF isLast THEN Append(moves, <<>>) ELSE moves
<1>1. /\ calls = <<>> /\ next_threads' = <<>>
      /\ UNCHANGED <<states, pos, text, threads, calls, caps>>
  BY DEF AddState, program
<1>2. IF row > Len(sets)
        THEN dfa' = [EmptyDfa EXCEPT !.sets = sets, !.moves = moves]
        ELSE dfa' = [sets |-> sets, row |-> row, column |-> column, moves |-> added,
                     entries |-> After(sets[row], code)]
  BY DEF AddState
<1>3. /\ dfa.sets \in Seq(Seq(1 .. Size)) /\ dfa.row \in Nat
      /\ StatesOf(next_threads) \in Seq(1 .. Size)
  BY StatesOfTyped DEF ProgramInv, Typed, DfaTyped
<1>4. sets \in Seq(Seq(1 .. Size))
  <2>1. Append(dfa.sets, StatesOf(next_threads)) \in Seq(Seq(1 .. Size))
    BY <1>3, AppendTyped
  <2> QED BY <1>3, <2>1
<1>5. row \in Nat /\ row > 0
  BY <1>3
<1> HIDE DEF sets, row, column, code, moves, added
<1>6. DfaTyped'
  <2>1. CASE row > Len(sets)
    <3>1. dfa' = [EmptyDfa EXCEPT !.sets = sets, !.moves = moves]
      BY <1>2, <2>1
    <3>2. /\ dfa'.sets = sets /\ dfa'.row = 0 /\ dfa'.entries = <<>>
          /\ {"sets", "row", "entries"} \subseteq DOMAIN dfa'
      BY <3>1 DEF EmptyDfa
    <3> QED BY <1>1, <1>4, <3>2 DEF DfaTyped, Size
  <2>2. CASE ~(row > Len(sets))
    <3>1. /\ dfa'.sets = sets /\ dfa'.row = row /\ dfa'.entries = After(sets[row], code)
          /\ {"sets", "row", "entries"} \subseteq DOMAIN dfa'
      BY <1>2, <2>2
    <3>2. sets[row] \in Seq(1 .. Size)
      BY <1>4, <1>5, <2>2, Elements
    <3>3. dfa'.entries \in Seq(0 .. Size)
      BY <3>1, <3>2, AfterTyped DEF ProgramInv
    <3> QED BY <1>1, <1>4, <1>5, <3>1, <3>3 DEF DfaTyped, Size
  <2> QED BY <2>1, <2>2
<1>7. Typed'
  BY <1>1, <1>6 DEF ProgramInv, Typed, CallSet, ThreadSet, Size
<1>8. Lists'
  BY <1>1 DEF ProgramInv, Lists, Distinct, Marked
<1> QED BY <1>1, <1>7, <1>8, CapsStays DEF Moves

LEMMA StepFullDfaMoves ==
  ASSUME ProgramInv, StepFullDfa
  PROVE  Moves
<1>1. /\ calls = <<>> /\ pos' = pos + 1
      /\ UNCHANGED <<states, pc, text, threads, dfa, caps, next_threads, visited, calls>>
  BY Idle DEF StepFullDfa, args, program
<1>2. pos' \in Nat /\ pos' \in Positions
  BY <1>1, NextPosition DEF StepFullDfa, ProgramInv
<1>3. Typed'
  BY <1>1, <1>2, Typed_Kept DEF ProgramInv, Typed
<1>4. Lists'
  BY <1>1 DEF ProgramInv, Lists, Distinct, Marked, IsVisited, State
<1> QED BY <1>1, <1>3, <1>4, CapsStays DEF Moves

LEMMA EndFullDfaMoves ==
  ASSUME ProgramInv, EndFullDfa
  PROVE  Moves
<1>1. /\ calls = <<>> /\ pc' = "returned"
      /\ UNCHANGED <<states, pos, text, threads, dfa, caps, next_threads, visited, calls>>
  BY Idle DEF EndFullDfa, args, program, full
<1>2. Typed'
  BY <1>1, Typed_Kept DEF ProgramInv, Typed
<1>3. Lists'
  BY <1>1 DEF ProgramInv, Lists, Distinct, Marked, IsVisited, State
<1> QED BY <1>1, <1>2, <1>3, CapsStays DEF Moves

LEMMA FullDfaMoves ==
  ASSUME ProgramInv, FullDfa
  PROVE  Moves
BY BuildFullDfaMoves, CloseEntryMoves, AddStateMoves, StepFullDfaMoves, EndFullDfaMoves
   DEF FullDfa

-----------------------------------------------------------------------------
(* The program.                                                              *)

LEMMA InitInv ==
  ASSUME Init
  PROVE  ProgramInv /\ CapsInit
<1>1. CapsInv /\ CapsInit
  BY CapsInit_Inv DEF Init
<1>2. IsProgram(states)
  BY ProgramAssumption DEF Init
<1>3. /\ pos = 0 /\ text = <<>> /\ threads = <<>> /\ next_threads = <<>> /\ calls = <<>>
      /\ dfa = EmptyDfa
  BY DEF Init
<1>4. DfaTyped
  BY <1>3 DEF EmptyDfa, DfaTyped
<1>5. 0 .. Len(text) \subseteq Positions
  BY <1>3, ArgumentsAssumption
<1>6. Typed
  BY <1>2, <1>3, <1>4, <1>5, ArgumentsAssumption DEF Typed
<1>7. Lists
  BY <1>3 DEF Init, Lists, Distinct, Marked
<1> QED BY <1>1, <1>6, <1>7 DEF ProgramInv

LEMMA NextMoves ==
  ASSUME ProgramInv, [Next]_vars
  PROVE  Moves
<1>1. CASE UNCHANGED vars
  <2>1. /\ UNCHANGED <<states, pos, text, threads, next_threads, calls, dfa>>
        /\ UNCHANGED <<pc, visited, caps>>
    BY <1>1 DEF vars, args, program, loop, full
  <2>2. Typed'
    BY <2>1, Typed_Kept DEF ProgramInv, Typed
  <2>3. Lists'
    BY <2>1 DEF ProgramInv, Lists, Distinct, Marked, IsVisited, State
  <2> QED BY <2>1, <2>2, <2>3, CapsStays DEF Moves
<1> QED BY <1>1, RunMoves, ClosureMoves, LoopMoves, ReturnMoves, FullDfaMoves
        DEF Next, Step, match, match_p

(* The inductive invariant holds, and every step of the program does to the  *)
(* captures what one of the operations on them does.                         *)
THEOREM ProgramInvariant == Spec => []ProgramInv
<1>1. Init => ProgramInv
  BY InitInv
<1>2. ProgramInv /\ [Next]_vars => ProgramInv'
  <2> SUFFICES ASSUME ProgramInv, [Next]_vars
               PROVE  ProgramInv'
    OBVIOUS
  <2>1. Typed' /\ Lists' /\ [CapsNext]_caps
    BY NextMoves DEF Moves
  <2>2. CapsInv'
    BY <2>1, CapsStep, CapsStutter DEF ProgramInv
  <2> QED BY <2>1, <2>2 DEF ProgramInv
<1> QED BY <1>1, <1>2, PTL DEF Spec

(* A list has one thread for a state at most, whatever the program and the   *)
(* text: a thread is added only for a state that is not marked, and it marks *)
(* it.                                                                       *)
THEOREM ListsHaveOneThreadPerState == Spec => []OneThreadPerState
<1>1. ProgramInv => OneThreadPerState
  BY DEF ProgramInv, Lists, Distinct, OneThreadPerState
<1> QED BY <1>1, ProgramInvariant, PTL

(* The program uses captures as CapsCow lets it: nothing but its operations  *)
(* changes them.                                                             *)
THEOREM ProgramUsesCaps == Spec => CapsSpec
<1>1. Init => CapsInit
  BY InitInv
<1>2. ProgramInv /\ [Next]_vars => [CapsNext]_caps
  BY NextMoves DEF Moves
<1> QED BY <1>1, <1>2, ProgramInvariant, PTL DEF Spec, CapsSpec

(* So no path of a match sees what another writes into its captures.         *)
THEOREM PathsOwnTheirCaptures == Spec => CapturesAreValues
BY ProgramUsesCaps, CapsImplementsValues, PTL
=============================================================================
