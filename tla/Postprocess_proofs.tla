------------------------- MODULE Postprocess_proofs -------------------------
(***************************************************************************)
(* Theorems about Postprocess, for every tree, any number of names and     *)
(* captures, and any number of calls that fail or are abandoned.           *)
(***************************************************************************)
EXTENDS Postprocess, FiniteSetTheorems, SequenceTheorems, TLAPS

-----------------------------------------------------------------------------
(* Counting.  Numbers of captures, places in an entry and counts of names    *)
(* seen are all ranks: how many members of a set are not after this one.     *)

LEMMA Subsets ==
  ASSUME NEW M \in Nat, NEW S, S \subseteq 1 .. M
  PROVE  /\ IsFiniteSet(S) /\ Cardinality(S) \in Nat
         /\ \A T : T \subseteq S => Cardinality(T) <= Cardinality(S)
<1>1. PICK I : I = 1 .. M
  OBVIOUS
<1>2. IsFiniteSet(I) /\ S \in SUBSET I
  BY <1>1, FS_Interval
<1>3. IsFiniteSet(S)
  BY <1>2, FS_Subset
<1> QED BY <1>3, FS_Subset, FS_CardinalityType

LEMMA Ranks ==
  ASSUME NEW M \in Nat, NEW S, S \subseteq 1 .. M
  PROVE  /\ \A c \in S : Cardinality(Upto(S, c)) \in 1 .. Cardinality(S)
         /\ \A c, d \in S : c < d => Cardinality(Upto(S, c)) < Cardinality(Upto(S, d))
         /\ \A c, d \in S : Cardinality(Upto(S, c)) = Cardinality(Upto(S, d)) => c = d
         /\ \A i \in 1 .. Cardinality(S) : \E c \in S : Cardinality(Upto(S, c)) = i
<1> DEFINE Rank(c) == Cardinality(Upto(S, c))
<1>1. IsFiniteSet(S) /\ Cardinality(S) \in Nat
  BY Subsets
<1>2. \A T : T \subseteq S =>
        IsFiniteSet(T) /\ Cardinality(T) \in Nat /\ Cardinality(T) <= Cardinality(S)
  BY <1>1, FS_Subset, FS_CardinalityType
<1>3. \A c : Upto(S, c) \subseteq S
  BY DEF Upto
<1>4. ASSUME NEW c \in S
      PROVE  Rank(c) \in 1 .. Cardinality(S)
  <2>1. IsFiniteSet(Upto(S, c)) /\ Rank(c) \in Nat /\ Rank(c) <= Cardinality(S)
    BY <1>2, <1>3
  <2>2. c \in Upto(S, c)
    BY DEF Upto
  <2>3. Rank(c) # 0
    BY <2>1, <2>2, FS_EmptySet
  <2> QED BY <1>1, <2>1, <2>3
<1>5. ASSUME NEW c \in S, NEW d \in S, c < d
      PROVE  Rank(c) < Rank(d)
  <2>1. PICK U, V : U = Upto(S, c) /\ V = U \cup {d}
    OBVIOUS
  <2>a. c \in Nat /\ d \in Nat /\ \A m \in S : m \in Nat /\ (m <= c => m <= d)
    BY <1>5
  <2>b. ~(d <= c) /\ d <= d
    BY <1>5, <2>a
  <2>2. V \subseteq Upto(S, d) /\ d \notin U /\ U \subseteq S
    BY <2>1, <2>a, <2>b DEF Upto
  <2>3. IsFiniteSet(U) /\ Cardinality(U) \in Nat /\ IsFiniteSet(Upto(S, d))
    BY <1>2, <1>3, <2>2
  <2>4. Cardinality(V) = Cardinality(U) + 1
    BY <2>1, <2>2, <2>3, FS_AddElement
  <2>5. Cardinality(V) <= Cardinality(Upto(S, d)) /\ Cardinality(Upto(S, d)) \in Nat
    BY <1>2, <1>3, <2>2, <2>3, FS_Subset
  <2> QED BY <2>1, <2>3, <2>4, <2>5
<1>6. ASSUME NEW c \in S, NEW d \in S, Rank(c) = Rank(d)
      PROVE  c = d
  <2>1. Rank(c) \in Nat /\ Rank(d) \in Nat /\ c \in Nat /\ d \in Nat
    BY <1>1, <1>4
  <2> HIDE DEF Rank
  <2>2. ~(c < d) /\ ~(d < c)
    BY <1>5, <1>6, <2>1
  <2> QED BY <2>1, <2>2
<1> HIDE DEF Rank
<1>7. PICK f : f = [c \in S |-> Rank(c)]
  OBVIOUS
<1>8. PICK T : T = 1 .. Cardinality(S)
  OBVIOUS
<1>9. f \in Injection(S, T)
  BY <1>4, <1>6, <1>7, <1>8 DEF Injection, IsInjective
<1>10. IsFiniteSet(T) /\ Cardinality(S) = Cardinality(T)
  BY <1>1, <1>8, FS_Interval
<1>11. f \in Surjection(S, T)
  BY <1>9, <1>10, FS_Injection
<1>12. \A i \in 1 .. Cardinality(S) : \E c \in S : Rank(c) = i
  BY <1>7, <1>8, <1>11 DEF Surjection
<1> QED BY <1>4, <1>5, <1>6, <1>12 DEF Rank

Before(S, k) == {c \in S : c < k}

(* A member more, or none.                                                  *)
LEMMA Counts ==
  ASSUME NEW S, IsFiniteSet(S), S \subseteq Nat, NEW k \in Nat, NEW l, l = k + 1
  PROVE  /\ IsFiniteSet(Before(S, k)) /\ Cardinality(Before(S, k)) \in Nat
         /\ k \in S => /\ Cardinality(Before(S, l)) = Cardinality(Before(S, k)) + 1
                       /\ Cardinality(Upto(S, k)) = Cardinality(Before(S, k)) + 1
         /\ k \notin S => Before(S, l) = Before(S, k)
<1> DEFINE T == Before(S, k)
           U == Before(S, l)
<1>1. IsFiniteSet(T) /\ Cardinality(T) \in Nat
  <2>1. T \in SUBSET S
    BY DEF Before
  <2> QED BY <2>1, FS_Subset, FS_CardinalityType
<1>2. \A c \in S : c \in Nat /\ (c < l <=> (c < k \/ c = k)) /\ (c <= k <=> c < l)
  OBVIOUS
<1>3. ASSUME k \in S
      PROVE  U = T \cup {k} /\ k \notin T /\ Upto(S, k) = U
  <2>1. ~(k < k)
    OBVIOUS
  <2> QED BY <1>2, <1>3, <2>1 DEF Upto, Before
<1>4. k \notin S => U = T
  BY <1>2 DEF Before
<1> HIDE DEF T, U
<1>5. k \in S => Cardinality(U) = Cardinality(T) + 1
  BY <1>1, <1>3, FS_AddElement
<1> QED BY <1>1, <1>3, <1>4, <1>5 DEF T, U

-----------------------------------------------------------------------------
(* Lists of nodes in the order in which they begin.                         *)

Lists(s, S) ==
  /\ s \in Seq(Nat)
  /\ \A i \in 1 .. Len(s) : s[i] \in S
  /\ \A i, j \in 1 .. Len(s) : i < j => s[i] < s[j]
  /\ \A m \in S : \E i \in 1 .. Len(s) : s[i] = m

LEMMA OrderedLists ==
  ASSUME NEW M \in Nat, NEW S, S \subseteq 1 .. M
  PROVE  Lists(InOrder(S), S)
<1> DEFINE n == Cardinality(S)
           s == InOrder(S)
           Rank(c) == Cardinality(Upto(S, c))
<1>0. \A c \in S : c \in Nat
  OBVIOUS
<1>1. n \in Nat
  BY Subsets
<1>2. \A i \in 1 .. n : \E c \in S : Rank(c) = i
  BY Ranks
<1>3. \A i \in 1 .. n : s[i] = CHOOSE c \in S : Rank(c) = i
  BY DEF InOrder
<1>4. \A i \in 1 .. n : s[i] \in S /\ Rank(s[i]) = i
  BY <1>2, <1>3
<1>5. s \in Seq(Nat) /\ Len(s) = n
  <2>1. s = [i \in 1 .. n |-> s[i]]
    BY DEF InOrder
  <2>2. \A i \in 1 .. n : s[i] \in Nat
    BY <1>0, <1>4
  <2> QED BY <1>1, <2>1, <2>2
<1>6. \A c \in S : Rank(c) \in 1 .. n
  BY Ranks
<1>7. \A c, d \in S : c < d => Rank(c) < Rank(d)
  BY Ranks
<1>8. \A c, d \in S : Rank(c) = Rank(d) => c = d
  BY Ranks
<1> HIDE DEF n, s, Rank
<1>9. ASSUME NEW i \in 1 .. n, NEW j \in 1 .. n, i < j
      PROVE  s[i] < s[j]
  <2>1. s[i] \in S /\ s[j] \in S /\ s[i] \in Nat /\ s[j] \in Nat
    BY <1>0, <1>4
  <2>2. ~(s[j] < s[i]) /\ s[i] # s[j]
    BY <1>1, <1>4, <1>7, <1>9, <2>1
  <2> QED BY <2>1, <2>2
<1>10. \A m \in S : \E i \in 1 .. n : s[i] = m
  BY <1>4, <1>6, <1>8
<1> QED BY <1>4, <1>5, <1>9, <1>10 DEF Lists, s

LEMMA EmptyList ==
  ASSUME NEW S, Lists(<<>>, S)
  PROVE  S = {}
BY DEF Lists

LEMMA FirstOfList ==
  ASSUME NEW s, NEW S, Lists(s, S), s # <<>>
  PROVE  /\ Head(s) \in S /\ Head(s) \in Nat /\ \A m \in S : Head(s) <= m
         /\ Lists(Tail(s), S \ {Head(s)})
<1>1. s \in Seq(Nat) /\ Len(s) \in Nat /\ Len(s) >= 1
  BY EmptySeq DEF Lists
<1>2. Head(s) = s[1] /\ 1 \in 1 .. Len(s)
  BY <1>1, HeadTailProperties
<1>3. /\ Tail(s) \in Seq(Nat) /\ Len(Tail(s)) = Len(s) - 1
      /\ \A i \in 1 .. Len(s) - 1 : Tail(s)[i] = s[i + 1]
  BY <1>1, HeadTailProperties
<1>4. PICK n, t, h : n = Len(s) /\ t = Tail(s) /\ h = Head(s)
  OBVIOUS
<1>5. /\ \A i \in 1 .. n : s[i] \in S /\ s[i] \in Nat
      /\ \A i, j \in 1 .. n : i < j => s[i] < s[j]
      /\ \A m \in S : \E i \in 1 .. n : s[i] = m
  BY <1>1, <1>4 DEF Lists
<1>6. h \in S /\ h \in Nat /\ h = s[1] /\ n \in Nat /\ n >= 1
  BY <1>1, <1>2, <1>4, <1>5
<1>7. \A i \in 1 .. n : i # 1 => s[1] < s[i]
  BY <1>5, <1>6
<1>8. \A m \in S : h <= m
  BY <1>5, <1>6, <1>7
<1>9. t \in Seq(Nat) /\ Len(t) = n - 1 /\ \A i \in 1 .. n - 1 : t[i] = s[i + 1]
  BY <1>3, <1>4
<1>10. \A i \in 1 .. n - 1 : i + 1 \in 1 .. n /\ i + 1 # 1
  BY <1>6
<1>11. \A i \in 1 .. n - 1 : t[i] \in S \ {h}
  <2>1. TAKE i \in 1 .. n - 1
  <2>2. PICK j : j = i + 1 /\ j \in 1 .. n /\ j # 1 /\ t[i] = s[j]
    BY <1>9, <1>10
  <2>3. s[j] \in S /\ s[j] \in Nat /\ h < s[j]
    BY <1>5, <1>6, <1>7, <2>2
  <2>4. s[j] # h
    BY <1>6, <2>3
  <2> QED BY <2>2, <2>3, <2>4
<1>12. ASSUME NEW i \in 1 .. n - 1, NEW j \in 1 .. n - 1, i < j
       PROVE  t[i] < t[j]
  BY <1>5, <1>9, <1>10, <1>12
<1>13. ASSUME NEW m \in S \ {h}
       PROVE  \E i \in 1 .. n - 1 : t[i] = m
  <2>1. PICK i \in 1 .. n : s[i] = m
    BY <1>5
  <2>2. i # 1 /\ i - 1 \in 1 .. n - 1 /\ (i - 1) + 1 = i
    BY <1>6, <2>1
  <2> QED BY <1>9, <2>1, <2>2
<1> QED BY <1>4, <1>6, <1>8, <1>9, <1>11, <1>12, <1>13 DEF Lists

LEMMA JoinedLists ==
  ASSUME NEW s, NEW S, Lists(s, S), NEW t, NEW T, Lists(t, T), \A c \in S, d \in T : c < d
  PROVE  Lists(s \o t, S \cup T)
<1>1. s \in Seq(Nat) /\ t \in Seq(Nat)
  BY DEF Lists
<1>2. PICK n, m, u : n = Len(s) /\ m = Len(t) /\ u = s \o t
  OBVIOUS
<1>3. n \in Nat /\ m \in Nat
  BY <1>1, <1>2
<1>4. /\ u \in Seq(Nat) /\ Len(u) = n + m
      /\ \A i \in 1 .. n + m : u[i] = IF i <= n THEN s[i] ELSE t[i - n]
  BY <1>1, <1>2, ConcatProperties
<1>5. /\ \A i \in 1 .. n : s[i] \in S
      /\ \A i, j \in 1 .. n : i < j => s[i] < s[j]
      /\ \A c \in S : \E i \in 1 .. n : s[i] = c
  BY <1>2 DEF Lists
<1>6. /\ \A i \in 1 .. m : t[i] \in T
      /\ \A i, j \in 1 .. m : i < j => t[i] < t[j]
      /\ \A c \in T : \E i \in 1 .. m : t[i] = c
  BY <1>2 DEF Lists
<1>7. \A i \in 1 .. n : i \in 1 .. n + m /\ u[i] = s[i]
  BY <1>3, <1>4
<1>8. \A i \in 1 .. m : n + i \in 1 .. n + m /\ u[n + i] = t[i]
  BY <1>3, <1>4
<1>9. \A i \in 1 .. n + m : i \in 1 .. n \/ (i - n \in 1 .. m /\ n + (i - n) = i)
  BY <1>3
<1>10. \A i \in 1 .. n + m : u[i] \in S \cup T
  BY <1>5, <1>6, <1>7, <1>8, <1>9
<1>11. ASSUME NEW i \in 1 .. n + m, NEW j \in 1 .. n + m, i < j
       PROVE  u[i] < u[j]
  <2>1. CASE j \in 1 .. n
    <3>1. i \in 1 .. n
      BY <1>3, <1>11, <2>1
    <3> QED BY <1>5, <1>7, <1>11, <2>1, <3>1
  <2>2. CASE j \notin 1 .. n /\ i \in 1 .. n
    <3>1. j - n \in 1 .. m /\ u[j] = t[j - n]
      BY <1>8, <1>9, <2>2
    <3> QED BY <1>5, <1>6, <1>7, <2>2, <3>1
  <2>3. CASE i \notin 1 .. n /\ j \notin 1 .. n
    <3>1. i - n \in 1 .. m /\ u[i] = t[i - n] /\ j - n \in 1 .. m /\ u[j] = t[j - n]
      BY <1>8, <1>9, <2>3
    <3>2. i - n < j - n
      BY <1>3, <1>11
    <3> QED BY <1>6, <3>1, <3>2
  <2> QED BY <2>1, <2>2, <2>3
<1>12. \A c \in S \cup T : \E i \in 1 .. n + m : u[i] = c
  <2>1. \A c \in S : \E i \in 1 .. n + m : u[i] = c
    BY <1>5, <1>7
  <2>2. \A c \in T : \E i \in 1 .. n + m : u[i] = c
    BY <1>6, <1>8
  <2> QED BY <2>1, <2>2
<1> QED BY <1>2, <1>4, <1>10, <1>11, <1>12 DEF Lists

-----------------------------------------------------------------------------
(* The walks.  When a walk is at node k, todo lists the nodes that begin at  *)
(* or after k and are siblings of k or of a node around it.  So a walk is    *)
(* at the nodes one after the other, and what a pass has done is what it did *)
(* at the nodes before this place.                                           *)

N == Len(label)
Place == IF todo = <<>> THEN N + 1 ELSE Head(todo)

Ahead(k) == {m \in Nodes : m >= k /\ \A j \in k .. m - 1 : level[j] >= level[m]}

Walking == Place \in 1 .. N + 1 /\ Lists(todo, Ahead(Place))

PatternOK ==
  /\ label \in Seq(Label) /\ label # <<>>
  /\ level \in [1 .. Len(label) -> 0 .. Len(label) - 1]
  /\ IsTree(label, level)

TreeOK ==
  /\ type \in [Nodes -> Kinds \cup {"group"}] /\ num \in [Nodes -> Nat]
  /\ ref \in [Nodes -> [entry : Nat, count : Nat, num : Nat]]
  /\ num_capture_groups \in Nat /\ next \in Nat

PassOK ==
  /\ pass \in {"idle", "clear", "number", "collect", "entries", "count", "resolve", "done", "failed"}
  /\ pass \in {"idle", "count", "done", "failed"} => todo = <<>>
  /\ pass \in {"number", "collect"} => has_named_captures
  /\ pass = "entries" => ~has_named_captures

(* How far set_capture_num came: the captures before this place have their   *)
(* numbers and those without a name have become groups.                      *)
Numbers == {"collect", "entries", "count", "resolve", "done"}
Numbered(n) == pass \in Numbers \/ (pass = "number" /\ n < Place)
TypeOf(n) ==
  IF has_named_captures /\ label[n].kind = "capture" /\ label[n].name = NoName
  THEN "group"
  ELSE label[n].kind

TypesKept ==
  \A n \in Nodes :
    type[n] = TypeOf(n) \/ (type[n] = label[n].kind /\ ~Numbered(n))
NumbersGiven ==
  /\ \A c \in Counted : Numbered(c) \/ ~has_named_captures => num[c] = NumberOf(c)
  /\ pass = "number" => next = Cardinality(Before(Counted, Place)) + 1
  /\ pass \in Numbers \/ ~has_named_captures => num_capture_groups = Cardinality(Counted)

(* What capture_entries hold: the numbers of the captures of each name that  *)
(* collect_named_capture_entries has come past, in their order.              *)
Named(a) == {c \in NamedCaptures : label[c].name = a}
Collected(a) == IF pass = "collect" THEN Before(Named(a), Place) ELSE Named(a)
EntryOf(a) == entries[dict[a]]

RoomForAll ==
  /\ entries \in Seq(Entry) /\ cap \in Nat /\ dict \in [Names -> Nat]
  /\ Len(entries) <= cap /\ \A e \in DOMAIN entries : Len(entries[e].nums) <= entries[e].cap
NamesCollected ==
  pass \in {"collect", "count", "resolve", "done"} /\ has_named_captures =>
    /\ \A a \in Names : dict[a] # 0 <=> Collected(a) # {}
    /\ \A a \in Names : dict[a] # 0 =>
         /\ dict[a] \in 1 .. Len(entries)
         /\ Len(EntryOf(a).nums) = Cardinality(Collected(a))
         /\ \A c \in Collected(a) : EntryOf(a).nums[Cardinality(Upto(Named(a), c))] = NumberOf(c)
    /\ \A a, b \in Names : dict[a] # 0 /\ dict[a] = dict[b] => a = b
EntriesBuilt ==
  /\ pass \in {"clear", "number"} => entries = <<>> /\ dict = NoEntries
  /\ pass \in {"entries", "count", "resolve", "done"} /\ ~has_named_captures =>
       \A i \in 1 .. Len(entries) : entries[i].nums = <<i>>
  /\ pass = "entries" => next = Len(entries) + 1 /\ next <= num_capture_groups + 1
  /\ pass \in {"count", "resolve", "done"} /\ ~has_named_captures =>
       Len(entries) = num_capture_groups

(* How far resolve_refs came: the references before this place mean what     *)
(* they should, those after it mean nothing, and nothing was wrong so far.   *)
Resolved(n) == pass = "done" \/ (pass = "resolve" /\ n < Place)
Cleared(n) ==
  \/ pass \in {"number", "collect", "entries", "count"}
  \/ pass = "clear" /\ n < Place
  \/ pass = "resolve" /\ n >= Place

RefRight(n) ==
  IF has_named_captures
  THEN ref[n].entry = dict[label[n].name] /\ ref[n].count = Cardinality(Earlier(n))
  ELSE ref[n].entry = label[n].number /\ ref[n].count = 1
CallRight(n) ==
  IF label[n].target = "root" THEN ref[n].num = 0
  ELSE IF label[n].target = "number" THEN ref[n].num = label[n].number
  ELSE \A c \in SameName(n) : ref[n].num = NumberOf(c)

NamesSeen ==
  pass = "resolve" /\ has_named_captures =>
    /\ seen \in [1 .. Len(entries) -> Nat]
    /\ \A a \in Names : dict[a] # 0 => seen[dict[a]] = Cardinality(Before(Named(a), Place))
RefsResolved ==
  \A n \in Nodes :
    /\ Cleared(n) /\ n \in Refs => ref[n] = Unresolved
    /\ Resolved(n) => /\ Wrong(n) = "none"
                      /\ n \in Refs => RefRight(n)
                      /\ n \in Calls => CallRight(n)
    /\ pass \in {"idle", "failed"} /\ n \in Refs => CanRead(n)
ErrorFound ==
  /\ pass # "failed" => error = NoError
  /\ pass = "failed" /\ error.what \notin {"no_memory", "raised"} =>
       /\ error.at \in Nodes
       /\ error = [what |-> Wrong(error.at), at |-> error.at] /\ Wrong(error.at) # "none"
       /\ \A m \in Nodes : m < error.at => Wrong(m) = "none"
Warnings ==
  /\ pass \in {"clear", "number", "collect", "entries", "count"} => warned = {}
  /\ pass \in {"resolve", "done"} => warned = {n \in Refs : Resolved(n) /\ Earlier(n) # SameName(n)}

Inv ==
  /\ PatternOK /\ Walking /\ TreeOK /\ PassOK
  /\ TypesKept /\ NumbersGiven
  /\ RoomForAll /\ NamesCollected /\ EntriesBuilt
  /\ NamesSeen /\ RefsResolved /\ ErrorFound /\ Warnings

-----------------------------------------------------------------------------
(* What a pattern is.                                                       *)

LEMMA PatternFacts ==
  ASSUME PatternOK
  PROVE  /\ N \in Nat \ {0} /\ Nodes = 1 .. N
         /\ \A n \in Nodes : label[n] \in Label /\ level[n] \in Nat
         /\ NamedCaptures \subseteq Captures /\ Captures \subseteq 1 .. N
         /\ NamedCaptures \subseteq 1 .. N /\ Counted \subseteq 1 .. N
         /\ Refs \subseteq Nodes /\ Calls \subseteq Nodes
<1>1. label \in Seq(Label) /\ N \in Nat /\ Nodes = 1 .. N
  BY DEF PatternOK, N, Nodes
<1>2. N # 0
  BY <1>1, EmptySeq DEF PatternOK, N
<1>3. \A n \in Nodes : label[n] \in Label /\ level[n] \in Nat
  BY <1>1, <1>2 DEF PatternOK, N
<1>4. NamedCaptures \subseteq Captures /\ Captures \subseteq Nodes
  BY DEF NamedCaptures, Captures
<1> QED BY <1>1, <1>2, <1>3, <1>4 DEF Counted, Refs, Calls

LEMMA LabelFacts ==
  ASSUME NEW l \in Label
  PROVE  /\ l.kind \in Kinds /\ l.name \in Names \cup {NoName} /\ l.number \in Nat
         /\ l.kind \in {"back_ref", "conditional"} => l.target \in {"name", "number"}
         /\ l.kind = "call" => l.target \in {"name", "number", "root"}
         /\ l.kind = "capture" => l.target = "none"
         /\ l.target = "name" => l.name \in Names
BY DEF Label, Kinds, Targets, TargetsOf

LEMMA TreeShape ==
  ASSUME PatternOK
  PROVE  /\ level[1] = 0
         /\ \A n \in Nodes : n + 1 \in Nodes => level[n + 1] <= level[n] + 1
<1>1. N \in Nat \ {0} /\ Nodes = 1 .. N
  BY PatternFacts
<1> QED BY <1>1 DEF PatternOK, IsTree, N

-----------------------------------------------------------------------------
(* The walks visit the nodes in order.                                      *)

LEMMA AheadFirst ==
  ASSUME PatternOK
  PROVE  Ahead(1) = {m \in Nodes : level[m] = 0}
<1>1. Nodes = 1 .. N /\ N \in Nat /\ 1 \in Nodes /\ level[1] = 0 /\ \A m \in Nodes : level[m] \in Nat
  BY PatternFacts, TreeShape
<1>2. ASSUME NEW m \in Nodes
      PROVE  (m >= 1 /\ \A j \in 1 .. m - 1 : level[j] >= level[m]) <=> level[m] = 0
  <2>1. m \in Nat /\ m >= 1 /\ level[m] \in Nat
    BY <1>1
  <2>2. CASE m = 1
    BY <1>1, <2>1, <2>2
  <2>3. CASE m # 1
    <3>1. 1 \in 1 .. m - 1
      BY <2>1, <2>3
    <3>2. \A j \in 1 .. m - 1 : j \in Nodes /\ level[j] \in Nat
      BY <1>1, <2>1
    <3> QED BY <1>1, <2>1, <3>1, <3>2
  <2> QED BY <2>2, <2>3
<1> QED BY <1>2 DEF Ahead

LEMMA AheadLast ==
  ASSUME PatternOK
  PROVE  Ahead(N + 1) = {}
BY PatternFacts DEF Ahead

LEMMA AheadNext ==
  ASSUME PatternOK, NEW k \in Nodes
  PROVE  /\ k \in Ahead(k) /\ \A m \in Ahead(k) : m >= k
         /\ \A c \in KidsOf(k), d \in Ahead(k) \ {k} : c < d
         /\ Ahead(k + 1) = KidsOf(k) \cup (Ahead(k) \ {k})
<1>1. Nodes = 1 .. N /\ N \in Nat /\ \A m \in Nodes : m \in Nat /\ level[m] \in Nat
  BY PatternFacts
<1>2. k \in Ahead(k) /\ \A m \in Ahead(k) : m >= k
  BY <1>1 DEF Ahead
<1>3. ASSUME NEW c \in KidsOf(k), NEW d \in Ahead(k) \ {k}
      PROVE  c < d
  <2>1. c \in Nodes /\ \A j \in k + 1 .. c : level[j] > level[k]
    BY DEF KidsOf
  <2>2. d \in Nodes /\ d > k /\ \A j \in k .. d - 1 : level[j] >= level[d]
    BY <1>1 DEF Ahead
  <2>3. k \in k .. d - 1
    BY <1>1, <2>2
  <2>4. level[k] >= level[d]
    BY <2>2, <2>3
  <2>5. SUFFICES ASSUME d <= c PROVE FALSE
    BY <1>1, <2>1, <2>2
  <2>6. d \in k + 1 .. c
    BY <1>1, <2>1, <2>2, <2>5
  <2>7. level[d] > level[k]
    BY <2>1, <2>6
  <2> QED BY <1>1, <2>2, <2>4, <2>7
<1>4. KidsOf(k) \subseteq Ahead(k + 1)
  <2>1. SUFFICES ASSUME NEW m \in KidsOf(k) PROVE m \in Ahead(k + 1)
    OBVIOUS
  <2>2. m \in Nodes /\ m > k /\ level[m] = level[k] + 1 /\ \A j \in k + 1 .. m : level[j] > level[k]
    BY DEF KidsOf
  <2>3. ASSUME NEW j \in k + 1 .. m - 1 PROVE level[j] >= level[m]
    <3>1. j \in Nodes /\ j \in k + 1 .. m
      BY <1>1, <2>2
    <3>2. level[j] > level[k]
      BY <2>2, <3>1
    <3> QED BY <1>1, <2>2, <3>1, <3>2
  <2> QED BY <1>1, <2>2, <2>3 DEF Ahead
<1>5. Ahead(k) \ {k} \subseteq Ahead(k + 1)
  <2>1. SUFFICES ASSUME NEW m \in Ahead(k), m # k PROVE m \in Ahead(k + 1)
    OBVIOUS
  <2>2. m \in Nodes /\ m >= k /\ \A j \in k .. m - 1 : level[j] >= level[m]
    BY DEF Ahead
  <2>3. m >= k + 1 /\ \A j \in k + 1 .. m - 1 : j \in k .. m - 1
    BY <1>1, <2>1, <2>2
  <2> QED BY <2>2, <2>3 DEF Ahead
<1>6. ASSUME NEW m \in Ahead(k + 1), m \notin Ahead(k)
      PROVE  m \in KidsOf(k)
  <2>1. m \in Nodes /\ m >= k + 1 /\ \A j \in k + 1 .. m - 1 : level[j] >= level[m]
    BY DEF Ahead
  <2>2. m > k /\ m \in Nat /\ \A j \in k .. m - 1 : j = k \/ j \in k + 1 .. m - 1
    BY <1>1, <2>1
  <2>3. ~(level[k] >= level[m])
    BY <1>6, <2>1, <2>2 DEF Ahead
  <2>4. k + 1 \in Nodes /\ level[k + 1] <= level[k] + 1 /\ level[k + 1] \in Nat
    BY <1>1, <2>1, TreeShape
  <2>5. level[k + 1] >= level[m]
    <3>1. CASE m = k + 1
      BY <1>1, <2>1, <3>1
    <3>2. CASE m # k + 1
      <4>1. k + 1 \in k + 1 .. m - 1
        BY <1>1, <2>1, <3>2
      <4> QED BY <2>1, <4>1
    <3> QED BY <3>1, <3>2
  <2>6. level[m] = level[k] + 1
    BY <1>1, <2>1, <2>3, <2>4, <2>5
  <2>7. ASSUME NEW j \in k + 1 .. m PROVE level[j] > level[k]
    <3>1. j \in Nodes /\ (j = m \/ j \in k + 1 .. m - 1)
      BY <1>1, <2>1
    <3>2. level[j] >= level[m]
      BY <1>1, <2>1, <3>1
    <3> QED BY <1>1, <2>1, <2>6, <3>1, <3>2
  <2> QED BY <2>1, <2>2, <2>6, <2>7 DEF KidsOf
<1>7. k \notin Ahead(k + 1)
  BY <1>1 DEF Ahead
<1> QED BY <1>2, <1>3, <1>4, <1>5, <1>6, <1>7

LEMMA WalkFacts ==
  ASSUME PatternOK, Walking
  PROVE  /\ Place \in Nat
         /\ todo # <<>> => Place \in Nodes /\ Node = Place
         /\ todo = <<>> => Place = N + 1 /\ \A n \in Nodes : n < Place
<1>1. N \in Nat /\ Nodes = 1 .. N
  BY PatternFacts
<1>2. ASSUME todo # <<>>
      PROVE  Place \in Nodes /\ Node = Place
  <2>1. Head(todo) \in Ahead(Place)
    BY <1>2, FirstOfList DEF Walking
  <2> QED BY <1>2, <2>1 DEF Place, Ahead, Node
<1>3. todo = <<>> => Place = N + 1
  BY DEF Place
<1> QED BY <1>1, <1>2, <1>3 DEF Walking

LEMMA WalkStarts ==
  ASSUME PatternOK, UNCHANGED pattern, todo' = Roots
  PROVE  Walking' /\ Place' = 1
<1>1. N \in Nat \ {0} /\ Nodes = 1 .. N /\ 1 \in Ahead(1) /\ Ahead(1) \subseteq Nodes
      /\ N' = N /\ Ahead(1)' = Ahead(1)
  BY PatternFacts, AheadNext DEF pattern, N, Ahead, Nodes
<1>2. Lists(Roots, Ahead(1))
  BY <1>1, AheadFirst, OrderedLists DEF Roots
<1>3. Roots # <<>>
  BY <1>1, <1>2, EmptyList
<1>4. Head(Roots) = 1
  <2>1. PICK r, h : r = Roots /\ h = Head(Roots)
    OBVIOUS
  <2>2. h \in Ahead(1) /\ h <= 1
    BY <1>1, <1>2, <1>3, <2>1, FirstOfList
  <2> QED BY <1>1, <2>1, <2>2
<1>5. Place' = 1
  BY <1>3, <1>4 DEF Place
<1> QED BY <1>1, <1>2, <1>5 DEF Walking

LEMMA WalkEnds ==
  ASSUME PatternOK, UNCHANGED pattern, todo' = <<>>
  PROVE  Walking' /\ Place' = N + 1
<1>1. N \in Nat /\ N' = N /\ Ahead(N + 1)' = {}
  BY PatternFacts, AheadLast DEF pattern, N, Ahead, Nodes
<1>2. Place' = N + 1
  BY <1>1 DEF Place
<1>3. Lists(<<>>, {})
  BY DEF Lists
<1>4. Ahead(Place)' = {}
  BY <1>1, <1>2 DEF Ahead
<1> QED BY <1>1, <1>2, <1>3, <1>4 DEF Walking

LEMMA WalkGoesOn ==
  ASSUME PatternOK, Walking, UNCHANGED pattern, todo # <<>>, WalkOn
  PROVE  Walking' /\ Place' = Place + 1
<1>1. PICK k : k = Place
  OBVIOUS
<1>2. k \in Nodes /\ Head(todo) = k /\ Lists(todo, Ahead(k)) /\ Nodes = 1 .. N /\ N \in Nat /\ k \in Nat
  BY <1>1, WalkFacts, PatternFacts DEF Walking, Node
<1>3. Lists(Tail(todo), Ahead(k) \ {k})
  BY <1>2, FirstOfList
<1>4. KidsOf(k) \subseteq 1 .. N /\ Kids(k) = InOrder(KidsOf(k))
  BY <1>2 DEF KidsOf, Kids
<1>5. Lists(Kids(k), KidsOf(k))
  BY <1>2, <1>4, OrderedLists
<1>6. Lists(Kids(k) \o Tail(todo), KidsOf(k) \cup (Ahead(k) \ {k}))
  BY <1>2, <1>3, <1>5, AheadNext, JoinedLists
<1>7. PICK t : t = todo' /\ t = Kids(k) \o Tail(todo)
  BY <1>2 DEF WalkOn, Node
<1>8. Lists(t, Ahead(k + 1)) /\ N' = N /\ \A j : Ahead(j)' = Ahead(j)
  BY <1>2, <1>6, <1>7, AheadNext DEF pattern, N, Ahead, Nodes
<1>9. Place' = k + 1
  <2>1. CASE k = N
    <3>1. Ahead(k + 1) = {}
      BY <2>1, AheadLast
    <3>2. t = <<>>
      <4>1. SUFFICES ASSUME t # <<>> PROVE FALSE
        OBVIOUS
      <4>2. Head(t) \in Ahead(k + 1)
        BY <1>8, <4>1, FirstOfList
      <4> QED BY <3>1, <4>2
    <3> QED BY <1>7, <1>8, <2>1, <3>2 DEF Place
  <2>2. CASE k # N
    <3>1. k + 1 \in Nodes
      BY <1>2, <2>2
    <3>2. k + 1 \in Ahead(k + 1) /\ \A m \in Ahead(k + 1) : m >= k + 1
      BY <3>1, AheadNext
    <3>3. t # <<>>
      BY <1>8, <3>2, EmptyList
    <3>4. Head(t) \in Ahead(k + 1) /\ Head(t) \in Nat /\ Head(t) <= k + 1
      BY <1>8, <3>2, <3>3, FirstOfList
    <3>5. Head(t) = k + 1
      BY <1>2, <3>2, <3>4
    <3> QED BY <1>7, <3>3, <3>5 DEF Place
  <2> QED BY <2>1, <2>2
<1>10. k + 1 \in 1 .. N + 1
  BY <1>2
<1>11. Ahead(Place)' = Ahead(k + 1)
  BY <1>8, <1>9 DEF pattern, Ahead, Nodes
<1> QED BY <1>1, <1>7, <1>8, <1>9, <1>10, <1>11 DEF Walking

-----------------------------------------------------------------------------
(* The pattern does not change, so what it says does not either.            *)

LEMMA Fixed ==
  ASSUME UNCHANGED pattern
  PROVE  /\ N' = N /\ Nodes' = Nodes /\ label' = label /\ (PatternOK => PatternOK')
         /\ Captures' = Captures /\ NamedCaptures' = NamedCaptures /\ Counted' = Counted
         /\ has_named_captures' = has_named_captures /\ Refs' = Refs /\ Calls' = Calls
         /\ \A n : NumberOf(n)' = NumberOf(n) /\ TypeOf(n)' = TypeOf(n) /\ Wrong(n)' = Wrong(n)
         /\ \A n : SameName(n)' = SameName(n) /\ Earlier(n)' = Earlier(n)
         /\ \A a : Named(a)' = Named(a)
<1>1. label' = label /\ level' = level
  BY DEF pattern
<1>2. N' = N /\ Nodes' = Nodes /\ (PatternOK => PatternOK')
  BY <1>1 DEF N, Nodes, PatternOK
<1>3. /\ Captures' = Captures /\ NamedCaptures' = NamedCaptures /\ Counted' = Counted
      /\ has_named_captures' = has_named_captures /\ Refs' = Refs /\ Calls' = Calls
  BY <1>1 DEF Captures, NamedCaptures, Counted, has_named_captures, Refs, Calls, Nodes
<1>4. \A n : SameName(n)' = SameName(n) /\ Earlier(n)' = Earlier(n)
  BY <1>1, <1>3 DEF SameName, Earlier
<1>5. \A n : NumberOf(n)' = NumberOf(n) /\ TypeOf(n)' = TypeOf(n)
  BY <1>1, <1>3 DEF NumberOf, TypeOf
<1>6. \A n : Wrong(n)' = Wrong(n)
  BY <1>1, <1>3, <1>4 DEF Wrong
<1>7. \A a : Named(a)' = Named(a)
  BY <1>1, <1>3 DEF Named
<1> QED BY <1>1, <1>2, <1>3, <1>4, <1>5, <1>6, <1>7

LEMMA NumberFacts ==
  ASSUME PatternOK
  PROVE  /\ Cardinality(Counted) \in Nat
         /\ \A c \in Counted : NumberOf(c) \in 1 .. Cardinality(Counted)
         /\ \A c, d \in Counted : NumberOf(c) = NumberOf(d) => c = d
<1>1. N \in Nat /\ Counted \subseteq 1 .. N
  BY PatternFacts
<1> QED BY <1>1, Subsets, Ranks DEF NumberOf

LEMMA BeforeNext ==
  ASSUME PatternOK, NEW S, S \subseteq 1 .. N, NEW k \in 1 .. N + 1, NEW l, l = k + 1
  PROVE  /\ IsFiniteSet(Before(S, k)) /\ Cardinality(Before(S, k)) \in Nat
         /\ k \in S => /\ Cardinality(Before(S, l)) = Cardinality(Before(S, k)) + 1
                       /\ Cardinality(Upto(S, k)) = Cardinality(Before(S, k)) + 1
         /\ k \notin S => Before(S, l) = Before(S, k)
<1>1. N \in Nat /\ k \in Nat
  BY PatternFacts
<1>2. IsFiniteSet(S)
  BY <1>1, Subsets
<1>3. S \subseteq Nat
  BY <1>1
<1> QED BY <1>1, <1>2, <1>3, Counts

LEMMA BeforeEnds ==
  ASSUME PatternOK, NEW S, S \subseteq 1 .. N
  PROVE  /\ IsFiniteSet(S) /\ Cardinality(S) \in Nat
         /\ Before(S, 1) = {} /\ Cardinality(Before(S, 1)) = 0 /\ Before(S, N + 1) = S
<1>1. N \in Nat /\ \A c \in S : c \in Nat /\ ~(c < 1) /\ c < N + 1
  BY PatternFacts
<1>2. Before(S, 1) = {} /\ Before(S, N + 1) = S
  BY <1>1 DEF Before
<1> QED BY <1>1, <1>2, Subsets, FS_EmptySet

-----------------------------------------------------------------------------
(* Every action keeps the invariant.                                        *)

LEMMA InitInv ==
  ASSUME Init
  PROVE  Inv
<1>1. PatternOK
  BY PostprocessAssumption DEF Init, PatternOK
<1>2. N \in Nat /\ Nodes = 1 .. N /\ \A n \in Nodes : label[n] \in Label
  BY <1>1, PatternFacts
<1>3. Walking
  <2>1. Place = N + 1
    BY DEF Init, Place
  <2>2. Lists(<<>>, {})
    BY DEF Lists
  <2>3. todo = <<>> /\ Ahead(Place) = {} /\ Place \in 1 .. N + 1
    BY <1>1, <1>2, <2>1, AheadLast DEF Init
  <2> QED BY <2>2, <2>3 DEF Walking
<1>4. \A n \in Nodes : label[n].kind \in Kinds
  BY <1>2, LabelFacts
<1>5. Captures \subseteq 1 .. N
  BY <1>1, PatternFacts
<1>6. Cardinality(Captures) \in Nat /\ \A n \in Captures : Cardinality(Upto(Captures, n)) \in 1 .. Cardinality(Captures)
  BY <1>2, <1>5, Subsets, Ranks
<1>7. TreeOK
  BY <1>4, <1>6 DEF Init, TreeOK, Unresolved
<1>8. PassOK /\ TypesKept
  BY DEF Init, PassOK, TypesKept, Numbered, Numbers
<1>9. NumbersGiven
  BY DEF Init, NumbersGiven, Numbered, Numbers, NumberOf, Counted, Captures, Nodes
<1>10. RoomForAll /\ NamesCollected /\ EntriesBuilt /\ NamesSeen
  BY DEF Init, RoomForAll, NamesCollected, EntriesBuilt, NamesSeen, NoEntries
<1>11. RefsResolved
  BY DEF Init, RefsResolved, Cleared, Resolved, CanRead, Unresolved
<1>12. ErrorFound /\ Warnings
  BY DEF Init, ErrorFound, Warnings
<1> QED BY <1>1, <1>3, <1>7, <1>8, <1>9, <1>10, <1>11, <1>12 DEF Inv

LEMMA PostprocessKeeps ==
  ASSUME Inv, Postprocess
  PROVE  Inv'
<1>1. PatternOK' /\ Walking' /\ Place' = 1 /\ UNCHANGED pattern /\ PatternOK
  BY WalkStarts, Fixed DEF Inv, Postprocess
<1>2. N \in Nat /\ Nodes = 1 .. N /\ \A n \in Nodes : ~(n < 1)
  BY <1>1, PatternFacts
<1>3. TreeOK'
  BY <1>1, Fixed DEF Inv, Postprocess, TreeOK, tree
<1>4. PassOK'
  BY DEF Postprocess, PassOK
<1>5. TypesKept'
  BY <1>1, Fixed DEF Inv, Postprocess, TypesKept, Numbered, Numbers, tree
<1>6. NumbersGiven'
  BY <1>1, Fixed DEF Inv, Postprocess, NumbersGiven, Numbered, Numbers, tree
<1>7. RoomForAll' /\ NamesCollected' /\ EntriesBuilt' /\ NamesSeen'
  BY DEF Postprocess, RoomForAll, NamesCollected, EntriesBuilt, NamesSeen, NoEntries
<1>8. RefsResolved'
  BY <1>1, <1>2, Fixed DEF Postprocess, RefsResolved, Cleared, Resolved
<1>9. ErrorFound' /\ Warnings'
  BY DEF Postprocess, ErrorFound, Warnings
<1> QED BY <1>1, <1>3, <1>4, <1>5, <1>6, <1>7, <1>8, <1>9 DEF Inv

LEMMA ClearNodeKeeps ==
  ASSUME Inv, ClearNode
  PROVE  Inv'
<1>1. PatternOK /\ Walking /\ UNCHANGED pattern /\ todo # <<>> /\ WalkOn /\ pass = "clear" /\ pass' = "clear"
  BY DEF Inv, ClearNode, Visit, WalkOn
<1>2. PatternOK' /\ Walking' /\ Place' = Place + 1 /\ Place \in Nodes /\ Node = Place
  BY <1>1, WalkGoesOn, WalkFacts, Fixed
<1>3. /\ N \in Nat /\ Nodes = 1 .. N
      /\ \A n \in Nodes : n < Place + 1 <=> n < Place \/ n = Place
  BY <1>1, <1>2, PatternFacts
<1>4. UNCHANGED <<type, num, num_capture_groups, entries, cap, dict, next, seen, error, warned>>
  BY DEF ClearNode, captures
<1>5. TreeOK'
  BY <1>1, <1>2, <1>4, Fixed DEF Inv, ClearNode, TreeOK, Unresolved
<1>6. PassOK'
  BY <1>1 DEF PassOK
<1>7. TypesKept'
  BY <1>1, <1>4, Fixed DEF Inv, TypesKept, Numbered, Numbers
<1>8. NumbersGiven'
  BY <1>1, <1>4, Fixed DEF Inv, NumbersGiven, Numbered, Numbers
<1>9. RoomForAll' /\ NamesCollected' /\ EntriesBuilt' /\ NamesSeen'
  BY <1>1, <1>4, Fixed DEF Inv, RoomForAll, NamesCollected, EntriesBuilt, NamesSeen
<1>10. RefsResolved'
  <2>1. SUFFICES ASSUME NEW n \in Refs, n < Place + 1
                 PROVE  ref'[n] = Unresolved
    BY <1>1, <1>2, Fixed DEF RefsResolved, Cleared, Resolved
  <2>2. n \in Nodes /\ type[n] \in {"back_ref", "conditional"}
    BY <1>1 DEF Inv, TypesKept, TypeOf, Refs
  <2>3. n # Place => ref[n] = Unresolved
    BY <1>1, <1>3, <2>1, <2>2 DEF Inv, RefsResolved, Cleared
  <2> QED BY <1>2, <2>1, <2>2, <2>3 DEF Inv, TreeOK, ClearNode
<1>11. ErrorFound' /\ Warnings'
  BY <1>1, <1>4 DEF Inv, ErrorFound, Warnings
<1> QED BY <1>2, <1>5, <1>6, <1>7, <1>8, <1>9, <1>10, <1>11 DEF Inv

LEMMA ClearDoneKeeps ==
  ASSUME Inv, ClearDone
  PROVE  Inv'
<1>1. /\ PatternOK /\ Walking /\ UNCHANGED pattern /\ todo = <<>> /\ todo' = Roots /\ pass = "clear"
      /\ pass' = IF has_named_captures THEN "number" ELSE "entries"
      /\ next' = 1
      /\ UNCHANGED <<type, num, ref, num_capture_groups, entries, cap, dict, seen, error, warned>>
  BY DEF Inv, ClearDone, WalkDone, StartWalk, tree, captures
<1>2. PatternOK' /\ Walking' /\ Place' = 1 /\ \A n \in Nodes : n < Place
  BY <1>1, WalkStarts, WalkFacts, Fixed
<1>3. N \in Nat /\ Nodes = 1 .. N /\ \A n \in Nodes : ~(n < 1)
  BY <1>1, PatternFacts
<1>4. TreeOK'
  BY <1>1, Fixed DEF Inv, TreeOK
<1>5. PassOK'
  BY <1>1, Fixed DEF PassOK
<1>6. TypesKept'
  BY <1>1, <1>2, <1>3, Fixed DEF Inv, TypesKept, Numbered, Numbers, TypeOf
<1>7. NumbersGiven'
  <2>1. Counted \subseteq Nodes
    BY <1>1, <1>3, PatternFacts
  <2>2. Cardinality(Before(Counted, 1)) = 0
    BY <1>1, <1>3, <2>1, BeforeEnds
  <2>3. (Cardinality(Before(Counted, Place)))' = Cardinality(Before(Counted, 1))
    BY <1>1, <1>2, Fixed DEF Before
  <2>4. (\A c \in Counted : Numbered(c) \/ ~has_named_captures => num[c] = NumberOf(c))'
    <3>1. SUFFICES ASSUME NEW c \in Counted, Numbered(c)' \/ ~has_named_captures
                   PROVE  num'[c] = NumberOf(c)
      BY <1>1, Fixed
    <3>2. ~has_named_captures
      BY <1>1, <1>2, <1>3, <2>1, <3>1 DEF Numbered, Numbers
    <3> QED BY <1>1, <3>2 DEF Inv, NumbersGiven
  <2>5. pass' = "number" => next' = (Cardinality(Before(Counted, Place)))' + 1
    BY <1>1, <2>2, <2>3
  <2>6. pass' \in Numbers \/ ~has_named_captures => num_capture_groups' = Cardinality(Counted)
    BY <1>1 DEF Inv, NumbersGiven, Numbers
  <2> QED BY <1>1, <2>4, <2>5, <2>6, Fixed DEF NumbersGiven
<1>8. RoomForAll'
  BY <1>1 DEF Inv, RoomForAll
<1>9. NamesCollected' /\ NamesSeen'
  BY <1>1, Fixed DEF NamesCollected, NamesSeen
<1>10. EntriesBuilt'
  <2>1. entries = <<>> /\ Len(entries) = 0 /\ dict = NoEntries /\ num_capture_groups \in Nat
    BY <1>1 DEF Inv, EntriesBuilt, TreeOK
  <2> QED BY <1>1, <2>1 DEF EntriesBuilt, NoEntries
<1>11. RefsResolved'
  BY <1>1, <1>2, Fixed DEF Inv, RefsResolved, Cleared, Resolved
<1>12. ErrorFound' /\ Warnings'
  BY <1>1 DEF Inv, ErrorFound, Warnings
<1> QED BY <1>2, <1>4, <1>5, <1>6, <1>7, <1>8, <1>9, <1>10, <1>11, <1>12 DEF Inv

LEMMA NumberNodeKeeps ==
  ASSUME Inv, NumberNode
  PROVE  Inv'
<1>1. /\ PatternOK /\ Walking /\ UNCHANGED pattern /\ todo # <<>> /\ WalkOn
      /\ pass = "number" /\ pass' = "number"
  BY DEF Inv, NumberNode, Visit, WalkOn
<1>2. PICK k : k = Place
  OBVIOUS
<1>3. PatternOK' /\ Walking' /\ Place' = k + 1 /\ k \in Nodes /\ Node = k /\ Place = k
  BY <1>1, <1>2, WalkGoesOn, WalkFacts, Fixed
<1>4. /\ N \in Nat /\ Nodes = 1 .. N /\ k \in Nat /\ k \in 1 .. N + 1
      /\ \A n \in Nodes : n < k + 1 <=> n < k \/ n = k
  BY <1>1, <1>3, PatternFacts
<1>5. UNCHANGED <<ref, num_capture_groups, entries, cap, dict, seen, error, warned>>
  BY DEF NumberNode, captures
<1>6. has_named_captures /\ Counted = NamedCaptures /\ Counted \subseteq Nodes
  BY <1>1, <1>4, PatternFacts DEF Inv, PassOK, Counted
<1>7. /\ next \in Nat /\ next = Cardinality(Before(Counted, k)) + 1
      /\ type \in [Nodes -> Kinds \cup {"group"}] /\ num \in [Nodes -> Nat]
      /\ \A n \in Nodes : type[n] = TypeOf(n) \/ (type[n] = label[n].kind /\ ~(n < k))
      /\ \A c \in Counted : c < k => num[c] = NumberOf(c)
  BY <1>1, <1>3, <1>6 DEF Inv, TreeOK, NumbersGiven, TypesKept, Numbered, Numbers
<1>8. \/ /\ k \in Counted /\ num' = [num EXCEPT ![k] = next] /\ next' = next + 1
         /\ type' = type /\ type[k] = TypeOf(k)
      \/ /\ k \notin Counted /\ num' = num /\ next' = next
         /\ type' \in [Nodes -> Kinds \cup {"group"}]
         /\ type'[k] = TypeOf(k) /\ \A n \in Nodes : n # k => type'[n] = type[n]
  <2>1. CASE type[k] = "capture" /\ label[k].name # NoName
    <3>1. label[k].kind = "capture"
      BY <1>3, <1>7, <2>1 DEF TypeOf
    <3> QED BY <1>3, <1>6, <1>7, <2>1, <3>1 DEF NumberNode, NamedCaptures, Captures, TypeOf
  <2>2. CASE type[k] = "capture" /\ label[k].name = NoName
    <3>1. label[k].kind = "capture"
      BY <1>3, <1>7, <2>2 DEF TypeOf
    <3> QED BY <1>3, <1>6, <1>7, <2>2, <3>1 DEF NumberNode, NamedCaptures, Captures, TypeOf
  <2>3. CASE type[k] # "capture"
    <3>1. type[k] = TypeOf(k) /\ k \notin NamedCaptures
      BY <1>3, <1>6, <1>7, <2>3 DEF TypeOf, NamedCaptures, Captures
    <3> QED BY <1>3, <1>6, <1>7, <2>3, <3>1 DEF NumberNode
  <2> QED BY <2>1, <2>2, <2>3
<1>9. TreeOK'
  <2>1. type' \in [Nodes -> Kinds \cup {"group"}] /\ num' \in [Nodes -> Nat] /\ next' \in Nat
    BY <1>7, <1>8
  <2> QED BY <1>1, <1>5, <2>1, Fixed DEF Inv, TreeOK
<1>10. PassOK'
  BY <1>1, <1>6, Fixed DEF PassOK
<1>11. TypesKept'
  <2>1. \A n \in Nodes : type'[n] = TypeOf(n) \/ (type'[n] = label[n].kind /\ ~(n < k + 1))
    BY <1>3, <1>4, <1>7, <1>8
  <2> QED BY <1>1, <1>3, <2>1, Fixed DEF TypesKept, Numbered, Numbers
<1>12. NumbersGiven'
  <2>1. (Cardinality(Before(Counted, Place)))' = Cardinality(Before(Counted, k + 1))
    BY <1>1, <1>3, Fixed DEF Before
  <2>a. PICK l : l = k + 1
    OBVIOUS
  <2>b. /\ Cardinality(Before(Counted, k)) \in Nat
        /\ k \in Counted => /\ Cardinality(Before(Counted, l)) = Cardinality(Before(Counted, k)) + 1
                            /\ NumberOf(k) = Cardinality(Before(Counted, k)) + 1
        /\ k \notin Counted => Before(Counted, l) = Before(Counted, k)
    BY <1>1, <1>4, <1>6, <2>a, BeforeNext DEF NumberOf
  <2>2. /\ Cardinality(Before(Counted, k)) \in Nat
        /\ k \in Counted => /\ Cardinality(Before(Counted, k + 1)) = Cardinality(Before(Counted, k)) + 1
                            /\ NumberOf(k) = Cardinality(Before(Counted, k)) + 1
        /\ k \notin Counted => Before(Counted, k + 1) = Before(Counted, k)
    BY <2>a, <2>b
  <2>3. next' = Cardinality(Before(Counted, k + 1)) + 1
    BY <1>7, <1>8, <2>2
  <2>4. \A c \in Counted : c < k + 1 => num'[c] = NumberOf(c)
    BY <1>3, <1>4, <1>6, <1>7, <1>8, <2>2
  <2> QED BY <1>1, <1>3, <1>6, <2>1, <2>3, <2>4, Fixed DEF NumbersGiven, Numbered, Numbers
<1>13. RoomForAll' /\ NamesCollected' /\ EntriesBuilt' /\ NamesSeen'
  BY <1>1, <1>5, Fixed DEF Inv, RoomForAll, NamesCollected, EntriesBuilt, NamesSeen
<1>14. RefsResolved'
  BY <1>1, <1>5, Fixed DEF Inv, RefsResolved, Cleared, Resolved
<1>15. ErrorFound' /\ Warnings'
  BY <1>1, <1>5 DEF Inv, ErrorFound, Warnings
<1> QED BY <1>3, <1>9, <1>10, <1>11, <1>12, <1>13, <1>14, <1>15 DEF Inv

LEMMA NumberDoneKeeps ==
  ASSUME Inv, NumberDone
  PROVE  Inv'
<1>1. /\ PatternOK /\ Walking /\ UNCHANGED pattern /\ todo = <<>> /\ todo' = Roots
      /\ pass = "number" /\ pass' = "collect" /\ num_capture_groups' = next - 1 /\ next' = 0
      /\ UNCHANGED <<type, num, ref, entries, cap, dict, seen, error, warned>>
  BY DEF Inv, NumberDone, WalkDone, StartWalk, tree, captures
<1>2. PatternOK' /\ Walking' /\ Place' = 1 /\ Place = N + 1 /\ \A n \in Nodes : n < Place
  BY <1>1, WalkStarts, WalkFacts, Fixed
<1>3. N \in Nat /\ Nodes = 1 .. N /\ Counted \subseteq Nodes /\ NamedCaptures \subseteq Nodes
  BY <1>1, PatternFacts
<1>4. has_named_captures
  BY <1>1 DEF Inv, PassOK
<1>5. Before(Counted, N + 1) = Counted /\ Cardinality(Counted) \in Nat
  BY <1>1, <1>3, BeforeEnds
<1>6. num_capture_groups' = Cardinality(Counted) /\ \A c \in Counted : num[c] = NumberOf(c)
  BY <1>1, <1>2, <1>3, <1>4, <1>5 DEF Inv, NumbersGiven, Numbered
<1>7. TreeOK'
  BY <1>1, <1>5, <1>6, Fixed DEF Inv, TreeOK
<1>8. PassOK'
  BY <1>1, <1>4, Fixed DEF PassOK
<1>9. TypesKept'
  BY <1>1, <1>2, Fixed DEF Inv, TypesKept, Numbered, Numbers
<1>10. NumbersGiven'
  BY <1>1, <1>6, Fixed DEF NumbersGiven, Numbered, Numbers
<1>11. RoomForAll' /\ NamesSeen'
  BY <1>1, Fixed DEF Inv, RoomForAll, NamesSeen
<1>12. NamesCollected'
  <2>1. \A a : Named(a) \subseteq 1 .. N
    BY <1>3 DEF Named
  <2>3. \A a : Before(Named(a), 1) = {}
    BY <1>1, <2>1, BeforeEnds
  <2>4. \A a : Collected(a)' = {}
    BY <1>1, <1>2, <2>3, Fixed DEF Collected, Before
  <2>5. \A a \in Names : dict'[a] = 0
    BY <1>1 DEF Inv, EntriesBuilt, NoEntries
  <2> QED BY <2>4, <2>5 DEF NamesCollected
<1>13. EntriesBuilt'
  BY <1>1, <1>4, Fixed DEF Inv, EntriesBuilt
<1>14. RefsResolved'
  BY <1>1, <1>2, Fixed DEF Inv, RefsResolved, Cleared, Resolved
<1>15. ErrorFound' /\ Warnings'
  BY <1>1 DEF Inv, ErrorFound, Warnings
<1> QED BY <1>2, <1>7, <1>8, <1>9, <1>10, <1>11, <1>12, <1>13, <1>14, <1>15 DEF Inv

(* An error return: what it must leave is that the references can be read.   *)
LEMMA FailKeeps ==
  ASSUME Inv, NEW what, NEW at, Fail(what, at),
         UNCHANGED <<pattern, type, num, ref, num_capture_groups>>,
         pass \in {"collect", "entries", "count", "resolve"},
         RoomForAll', ErrorFound', \A n \in Refs : CanRead(n)'
  PROVE  Inv'
<1>1. /\ PatternOK /\ UNCHANGED pattern /\ todo' = <<>> /\ pass' = "failed" /\ next' = 0
  BY DEF Inv, Fail
<1>2. PatternOK' /\ Walking'
  BY <1>1, WalkEnds, Fixed
<1>3. TreeOK'
  BY <1>1, Fixed DEF Inv, TreeOK
<1>4. PassOK'
  BY <1>1 DEF PassOK
<1>5. TypesKept'
  BY <1>1, Fixed DEF Inv, TypesKept, Numbered, Numbers
<1>6. NumbersGiven'
  BY <1>1, Fixed DEF Inv, NumbersGiven, Numbered, Numbers
<1>7. NamesCollected' /\ EntriesBuilt' /\ NamesSeen' /\ Warnings'
  BY <1>1 DEF NamesCollected, EntriesBuilt, NamesSeen, Warnings
<1>8. RefsResolved'
  BY <1>1, Fixed DEF RefsResolved, Cleared, Resolved
<1> QED BY <1>2, <1>3, <1>4, <1>5, <1>6, <1>7, <1>8 DEF Inv

LEMMA OtherErrors ==
  ASSUME NEW what \in {"no_memory", "raised"}, Fail(what, 0)
  PROVE  ErrorFound'
BY DEF Fail, ErrorFound

(* Until the references are resolved none of them is read.                   *)
LEMMA ClearedCanBeRead ==
  ASSUME Inv, UNCHANGED ref, pass \in {"number", "collect", "entries", "count"}
  PROVE  \A n \in Refs : CanRead(n)'
<1>1. Refs \subseteq Nodes
  BY PatternFacts DEF Inv
<1>2. \A n \in Refs : ref'[n].count = 0
  BY <1>1 DEF Inv, RefsResolved, Cleared, Unresolved
<1> QED BY <1>2 DEF CanRead

-----------------------------------------------------------------------------
(* The arrays have room for what is appended.                               *)

LEMMA RoomFacts ==
  ASSUME NEW n \in Nat, NEW c \in Nat, n <= c, NEW first \in Nat \ {0}
  PROVE  Room(n, c, first) \in Nat /\ n + 1 <= Room(n, c, first)
BY DEF Room

LEMMA WithNumFacts ==
  ASSUME NEW e \in Entry, Len(e.nums) <= e.cap, NEW k \in Nat \ {0},
         NEW f, f = WithNum(e, k)
  PROVE  /\ f \in Entry /\ Len(f.nums) = Len(e.nums) + 1 /\ Len(f.nums) <= f.cap
         /\ f.nums[Len(e.nums) + 1] = k /\ \A i \in 1 .. Len(e.nums) : f.nums[i] = e.nums[i]
<1>1. PICK s, c, n : s = e.nums /\ c = e.cap /\ n = Len(s)
  OBVIOUS
<1>2. s \in Seq(Nat \ {0}) /\ c \in Nat /\ n \in Nat /\ n <= c /\ FirstNums \in Nat \ {0}
  BY <1>1, PostprocessAssumption DEF Entry
<1>3. Room(n, c, FirstNums) \in Nat /\ n + 1 <= Room(n, c, FirstNums)
  BY <1>2, RoomFacts
<1>4. PICK t : t = Append(s, k)
  OBVIOUS
<1>5. t \in Seq(Nat \ {0}) /\ Len(t) = n + 1 /\ t[n + 1] = k /\ \A i \in 1 .. n : t[i] = s[i]
  BY <1>1, <1>2, <1>4, AppendProperties
<1>6. f = [nums |-> t, cap |-> Room(n, c, FirstNums)]
  BY <1>1, <1>4 DEF WithNum
<1> QED BY <1>1, <1>3, <1>5, <1>6 DEF Entry

LEMMA AppendEntryFacts ==
  ASSUME RoomForAll, NEW k \in Nat \ {0}, AppendEntry(k)
  PROVE  /\ entries' \in Seq(Entry) /\ cap' \in Nat
         /\ Len(entries') = Len(entries) + 1 /\ Len(entries') <= cap'
         /\ \A i \in 1 .. Len(entries) : entries'[i] = entries[i]
         /\ entries'[Len(entries) + 1].nums = <<k>>
         /\ \A i \in 1 .. Len(entries') : Len(entries'[i].nums) <= entries'[i].cap
<1>1. PICK n, f : n = Len(entries) /\ f = WithNum(NewEntry, k)
  OBVIOUS
<1>2. entries \in Seq(Entry) /\ cap \in Nat /\ n \in Nat /\ n <= cap /\ FirstEntries \in Nat \ {0}
      /\ \A i \in 1 .. n : Len(entries[i].nums) <= entries[i].cap
  BY <1>1, PostprocessAssumption DEF RoomForAll
<1>3. NewEntry \in Entry /\ Len(NewEntry.nums) <= NewEntry.cap
  BY DEF NewEntry, Entry
<1>4. f \in Entry /\ Len(f.nums) <= f.cap
  BY <1>1, <1>3, WithNumFacts
<1>5. f.nums = <<k>>
  BY <1>1 DEF WithNum, NewEntry
<1>6. /\ entries' \in Seq(Entry) /\ Len(entries') = n + 1 /\ entries'[n + 1] = f
      /\ \A i \in 1 .. n : entries'[i] = entries[i]
  BY <1>1, <1>2, <1>4, AppendProperties DEF AppendEntry
<1>7. cap' \in Nat /\ n + 1 <= cap'
  BY <1>1, <1>2, RoomFacts DEF AppendEntry
<1>8. \A i \in 1 .. n + 1 : i \in 1 .. n \/ i = n + 1
  BY <1>2
<1> QED BY <1>1, <1>2, <1>4, <1>5, <1>6, <1>7, <1>8

LEMMA AppendEntryFailsFacts ==
  ASSUME RoomForAll, AppendEntryFails
  PROVE  /\ entries' \in Seq(Entry) /\ cap' \in Nat /\ Len(entries') <= cap'
         /\ \A i \in 1 .. Len(entries') : Len(entries'[i].nums) <= entries'[i].cap
<1>1. PICK n : n = Len(entries)
  OBVIOUS
<1>2. entries \in Seq(Entry) /\ cap \in Nat /\ n \in Nat /\ n <= cap /\ FirstEntries \in Nat \ {0}
      /\ \A i \in 1 .. n : Len(entries[i].nums) <= entries[i].cap
  BY <1>1, PostprocessAssumption DEF RoomForAll
<1>3. CASE UNCHANGED <<entries, cap>>
  BY <1>1, <1>2, <1>3
<1>4. CASE entries' = Append(entries, NewEntry) /\ cap' = Room(Len(entries), cap, FirstEntries)
  <2>1. PICK f : f = NewEntry
    OBVIOUS
  <2>2. f \in Entry /\ Len(f.nums) <= f.cap
    BY <2>1 DEF NewEntry, Entry
  <2>3. /\ entries' \in Seq(Entry) /\ Len(entries') = n + 1 /\ entries'[n + 1] = f
        /\ \A i \in 1 .. n : entries'[i] = entries[i]
    BY <1>1, <1>2, <1>4, <2>1, <2>2, AppendProperties
  <2>4. cap' \in Nat /\ n + 1 <= cap'
    BY <1>1, <1>2, <1>4, RoomFacts
  <2>5. \A i \in 1 .. n + 1 : i \in 1 .. n \/ i = n + 1
    BY <1>2
  <2> QED BY <1>2, <2>2, <2>3, <2>4, <2>5
<1> QED BY <1>3, <1>4 DEF AppendEntryFails

LEMMA DomainOfSeq ==
  ASSUME NEW s \in Seq(Entry)
  PROVE  DOMAIN s = 1 .. Len(s) /\ Len(s) \in Nat
OBVIOUS

-----------------------------------------------------------------------------
(* Collecting the numbers of each name.                                     *)

LEMMA CollectAt ==
  ASSUME Inv, Visit("collect"), NEW k, k = Place
  PROVE  /\ k \in Nodes /\ Node = k
         /\ type[k] # "capture" => k \notin NamedCaptures
         /\ type[k] = "capture" =>
              /\ label[k].name \in Names /\ k \in Named(label[k].name)
              /\ num[k] = NumberOf(k) /\ num[k] \in Nat \ {0}
<1>1. PatternOK /\ Walking /\ todo # <<>> /\ pass = "collect" /\ has_named_captures
  BY DEF Inv, Visit, PassOK
<1>2. k \in Nodes /\ Node = k /\ label[k] \in Label
  BY <1>1, WalkFacts, PatternFacts
<1>3. type[k] = TypeOf(k)
  BY <1>1, <1>2 DEF Inv, TypesKept, Numbered, Numbers
<1>4. type[k] # "capture" => k \notin NamedCaptures
  BY <1>1, <1>3 DEF TypeOf, NamedCaptures, Captures
<1>5. ASSUME type[k] = "capture"
      PROVE  /\ label[k].name \in Names /\ k \in Named(label[k].name)
             /\ num[k] = NumberOf(k) /\ num[k] \in Nat \ {0}
  <2>1. label[k].kind = "capture" /\ label[k].name # NoName
    BY <1>1, <1>3, <1>5 DEF TypeOf
  <2>2. k \in NamedCaptures /\ k \in Counted /\ label[k].name \in Names
    BY <1>1, <1>2, <2>1, LabelFacts DEF NamedCaptures, Captures, Counted
  <2>3. num[k] = NumberOf(k) /\ NumberOf(k) \in 1 .. Cardinality(Counted) /\ Cardinality(Counted) \in Nat
    BY <1>1, <2>2, NumberFacts DEF Inv, NumbersGiven, Numbered, Numbers
  <2> QED BY <2>2, <2>3 DEF Named
<1> QED BY <1>2, <1>4, <1>5

(* What one more node adds to the captures of each name.                    *)
LEMMA OneMoreOf ==
  ASSUME PatternOK, NEW k \in Nodes, NEW l, l = k + 1, NEW a
  PROVE  /\ IsFiniteSet(Before(Named(a), k)) /\ Cardinality(Before(Named(a), k)) \in Nat
         /\ k \notin Named(a) => Before(Named(a), l) = Before(Named(a), k)
         /\ k \in Named(a) =>
              /\ Cardinality(Before(Named(a), l)) = Cardinality(Before(Named(a), k)) + 1
              /\ Cardinality(Upto(Named(a), k)) = Cardinality(Before(Named(a), k)) + 1
              /\ Before(Named(a), l) = Before(Named(a), k) \cup {k} /\ k \notin Before(Named(a), k)
         /\ \A c \in Before(Named(a), k) :
              Cardinality(Upto(Named(a), c)) \in 1 .. Cardinality(Before(Named(a), k))
<1>1. N \in Nat /\ Nodes = 1 .. N /\ NamedCaptures \subseteq 1 .. N
  BY PatternFacts
<1>2. PICK S : S = Named(a) /\ S \subseteq 1 .. N
  BY <1>1 DEF Named
<1>3. k \in 1 .. N + 1 /\ k \in Nat /\ \A c \in S : c \in Nat
  BY <1>1, <1>2
<1>4. /\ IsFiniteSet(Before(S, k)) /\ Cardinality(Before(S, k)) \in Nat
      /\ k \in S => /\ Cardinality(Before(S, l)) = Cardinality(Before(S, k)) + 1
                    /\ Cardinality(Upto(S, k)) = Cardinality(Before(S, k)) + 1
      /\ k \notin S => Before(S, l) = Before(S, k)
  BY <1>2, <1>3, BeforeNext
<1>5. k \in S => Before(S, l) = Before(S, k) \cup {k} /\ k \notin Before(S, k)
  <2>1. \A c \in S : c < l <=> c < k \/ c = k
    BY <1>3
  <2>2. ~(k < k)
    BY <1>3
  <2> QED BY <2>1, <2>2 DEF Before
<1>6. ASSUME NEW c \in Before(S, k)
      PROVE  Cardinality(Upto(S, c)) \in 1 .. Cardinality(Before(S, k))
  <2>1. c \in S /\ c < k /\ c \in Nat
    BY <1>3 DEF Before
  <2>2. PICK T : T = Before(S, k)
    OBVIOUS
  <2>3. T \subseteq 1 .. N /\ c \in T
    BY <1>2, <2>2 DEF Before
  <2>4. Upto(S, c) = Upto(T, c)
    <3>1. \A m \in S : m <= c => m < k
      BY <1>3, <2>1
    <3> QED BY <2>2, <3>1 DEF Upto, Before
  <2> QED BY <1>1, <2>2, <2>3, <2>4, Ranks
<1> QED BY <1>2, <1>4, <1>5, <1>6

LEMMA CollectKnownNames ==
  ASSUME Inv, Visit("collect"), NEW k, k = Place, type[k] = "capture",
         NEW e, e = dict[label[k].name], e # 0, UNCHANGED <<cap, dict>>,
         entries' = [entries EXCEPT ![e] = WithNum(@, num[k])], NEW l, l = k + 1
  PROVE  /\ RoomForAll'
         /\ \A b \in Names : dict[b] # 0 <=> Before(Named(b), l) # {}
         /\ \A b \in Names : dict[b] # 0 =>
              /\ dict[b] \in 1 .. Len(entries')
              /\ Len(entries'[dict[b]].nums) = Cardinality(Before(Named(b), l))
              /\ \A c \in Before(Named(b), l) :
                   entries'[dict[b]].nums[Cardinality(Upto(Named(b), c))] = NumberOf(c)
<1>1. PatternOK /\ k \in Nodes /\ pass = "collect" /\ has_named_captures
      /\ label[k].name \in Names /\ k \in Named(label[k].name)
      /\ num[k] = NumberOf(k) /\ num[k] \in Nat \ {0}
  BY CollectAt DEF Inv, Visit, PassOK
<1>2. PICK a, n, m : a = label[k].name /\ n = Len(entries) /\ m = num[k]
  OBVIOUS
<1>3. /\ entries \in Seq(Entry) /\ n \in Nat /\ DOMAIN entries = 1 .. n
      /\ \A i \in 1 .. n : Len(entries[i].nums) <= entries[i].cap
  BY <1>2, DomainOfSeq DEF Inv, RoomForAll
<1>4. /\ \A b \in Names : dict[b] # 0 <=> Before(Named(b), k) # {}
      /\ \A b \in Names : dict[b] # 0 =>
           /\ dict[b] \in 1 .. n
           /\ Len(entries[dict[b]].nums) = Cardinality(Before(Named(b), k))
           /\ \A c \in Before(Named(b), k) :
                entries[dict[b]].nums[Cardinality(Upto(Named(b), c))] = NumberOf(c)
      /\ \A b, c \in Names : dict[b] # 0 /\ dict[b] = dict[c] => b = c
  BY <1>1, <1>2 DEF Inv, NamesCollected, Collected, EntryOf
<1>5. e \in 1 .. n /\ a \in Names /\ dict[a] = e
  BY <1>1, <1>2, <1>4
<1>6. entries[e] \in Entry /\ Len(entries[e].nums) <= entries[e].cap
  BY <1>3, <1>5
<1>g. PICK g : g = entries[e]
  OBVIOUS
<1>7. PICK f : f = WithNum(g, m)
  OBVIOUS
<1>a. /\ f \in Entry /\ Len(f.nums) = Len(g.nums) + 1 /\ Len(f.nums) <= f.cap
      /\ f.nums[Len(g.nums) + 1] = m /\ \A i \in 1 .. Len(g.nums) : f.nums[i] = g.nums[i]
  <2>1. m \in Nat \ {0} /\ g \in Entry /\ Len(g.nums) <= g.cap
    BY <1>1, <1>2, <1>6, <1>g
  <2> QED BY <1>7, <2>1, WithNumFacts
<1>8. /\ f \in Entry /\ Len(f.nums) = Len(entries[e].nums) + 1 /\ Len(f.nums) <= f.cap
      /\ f.nums[Len(entries[e].nums) + 1] = m
      /\ \A i \in 1 .. Len(entries[e].nums) : f.nums[i] = entries[e].nums[i]
  BY <1>g, <1>a
<1>9. /\ entries' \in Seq(Entry) /\ Len(entries') = n /\ entries'[e] = f
      /\ \A i \in 1 .. n : i # e => entries'[i] = entries[i]
  <2>1. entries' = [entries EXCEPT ![e] = f]
    BY <1>2, <1>g, <1>7
  <2>2. f \in Entry
    BY <1>8
  <2>3. DOMAIN entries = 1 .. n /\ Len(entries) = n /\ entries \in Seq(Entry)
    BY <1>2, <1>3
  <2> QED BY <1>5, <2>1, <2>2, <2>3
<1>10. RoomForAll'
  BY <1>2, <1>3, <1>8, <1>9, DomainOfSeq DEF Inv, RoomForAll
<1>11. ASSUME NEW b \in Names, b # a
       PROVE  Before(Named(b), l) = Before(Named(b), k)
  <2>1. k \notin Named(b)
    BY <1>2, <1>11 DEF Named
  <2> QED BY <1>1, <2>1, OneMoreOf
<1>12. PICK S, T : S = Before(Named(a), k) /\ T = Before(Named(a), l)
  OBVIOUS
<1>13. /\ Cardinality(S) \in Nat /\ Cardinality(T) = Cardinality(S) + 1
       /\ Cardinality(Upto(Named(a), k)) = Cardinality(S) + 1
       /\ T = S \cup {k} /\ \A c \in S : Cardinality(Upto(Named(a), c)) \in 1 .. Cardinality(S)
  BY <1>1, <1>2, <1>12, OneMoreOf
<1>14. \A b \in Names : dict[b] # 0 <=> Before(Named(b), l) # {}
  <2>1. T # {}
    BY <1>13
  <2> QED BY <1>4, <1>5, <1>11, <1>12, <2>1
<1>15. ASSUME NEW b \in Names, dict[b] # 0
       PROVE  /\ dict[b] \in 1 .. n
              /\ Len(entries'[dict[b]].nums) = Cardinality(Before(Named(b), l))
              /\ \A c \in Before(Named(b), l) :
                   entries'[dict[b]].nums[Cardinality(Upto(Named(b), c))] = NumberOf(c)
  <2>1. CASE b # a
    <3>1. dict[b] \in 1 .. n /\ dict[b] # e
      BY <1>4, <1>5, <1>15, <2>1
    <3>2. entries'[dict[b]] = entries[dict[b]]
      BY <1>9, <3>1
    <3> QED BY <1>4, <1>11, <1>15, <2>1, <3>1, <3>2
  <2>2. CASE b = a
    <3>1. Len(entries[e].nums) = Cardinality(S)
      BY <1>4, <1>5, <1>12, <1>15
    <3>2. Len(f.nums) = Cardinality(T)
      BY <1>8, <1>13, <3>1
    <3>3. \A c \in S : f.nums[Cardinality(Upto(Named(a), c))] = NumberOf(c)
      <4>1. TAKE c \in S
      <4>2. PICK i : i = Cardinality(Upto(Named(a), c)) /\ i \in 1 .. Len(entries[e].nums)
        BY <1>13, <3>1
      <4>3. entries[e].nums[i] = NumberOf(c)
        BY <1>4, <1>5, <1>12, <1>15, <4>2
      <4> QED BY <1>8, <4>2, <4>3
    <3>4. f.nums[Cardinality(Upto(Named(a), k))] = NumberOf(k)
      BY <1>1, <1>2, <1>8, <1>13, <3>1
    <3>5. \A c \in T : f.nums[Cardinality(Upto(Named(a), c))] = NumberOf(c)
      BY <1>13, <3>3, <3>4
    <3> QED BY <1>5, <1>9, <1>12, <2>2, <3>2, <3>5
  <2> QED BY <2>1, <2>2
<1> QED BY <1>9, <1>10, <1>14, <1>15

LEMMA CollectNewNames ==
  ASSUME Inv, Visit("collect"), NEW k, k = Place, type[k] = "capture",
         dict[label[k].name] = 0, AppendEntry(num[k]),
         dict' = [dict EXCEPT ![label[k].name] = Len(entries) + 1], NEW l, l = k + 1
  PROVE  /\ RoomForAll'
         /\ \A b \in Names : dict'[b] # 0 <=> Before(Named(b), l) # {}
         /\ \A b \in Names : dict'[b] # 0 =>
              /\ dict'[b] \in 1 .. Len(entries')
              /\ Len(entries'[dict'[b]].nums) = Cardinality(Before(Named(b), l))
              /\ \A c \in Before(Named(b), l) :
                   entries'[dict'[b]].nums[Cardinality(Upto(Named(b), c))] = NumberOf(c)
         /\ \A b, c \in Names : dict'[b] # 0 /\ dict'[b] = dict'[c] => b = c
<1>1. PatternOK /\ k \in Nodes /\ pass = "collect" /\ has_named_captures
      /\ label[k].name \in Names /\ k \in Named(label[k].name)
      /\ num[k] = NumberOf(k) /\ num[k] \in Nat \ {0}
  BY CollectAt DEF Inv, Visit, PassOK
<1>2. PICK a, n, m, e : a = label[k].name /\ n = Len(entries) /\ m = num[k] /\ e = n + 1
  OBVIOUS
<1>3. /\ RoomForAll /\ entries \in Seq(Entry) /\ n \in Nat /\ dict \in [Names -> Nat] /\ e \in Nat
  BY <1>2 DEF Inv, RoomForAll
<1>4. /\ \A b \in Names : dict[b] # 0 <=> Before(Named(b), k) # {}
      /\ \A b \in Names : dict[b] # 0 =>
           /\ dict[b] \in 1 .. n
           /\ Len(entries[dict[b]].nums) = Cardinality(Before(Named(b), k))
           /\ \A c \in Before(Named(b), k) :
                entries[dict[b]].nums[Cardinality(Upto(Named(b), c))] = NumberOf(c)
      /\ \A b, c \in Names : dict[b] # 0 /\ dict[b] = dict[c] => b = c
  BY <1>1, <1>2 DEF Inv, NamesCollected, Collected, EntryOf
<1>5. /\ entries' \in Seq(Entry) /\ cap' \in Nat /\ Len(entries') = e /\ Len(entries') <= cap'
      /\ \A i \in 1 .. n : entries'[i] = entries[i]
      /\ entries'[e].nums = <<m>>
      /\ \A i \in 1 .. Len(entries') : Len(entries'[i].nums) <= entries'[i].cap
  BY <1>1, <1>2, <1>3, AppendEntryFacts
<1>6. /\ a \in Names /\ dict[a] = 0 /\ dict'[a] = e /\ dict' \in [Names -> Nat]
      /\ \A b \in Names : b # a => dict'[b] = dict[b]
  BY <1>1, <1>2, <1>3
<1>7. RoomForAll'
  BY <1>5, <1>6, DomainOfSeq DEF RoomForAll
<1>8. ASSUME NEW b \in Names, b # a
      PROVE  Before(Named(b), l) = Before(Named(b), k)
  <2>1. k \notin Named(b)
    BY <1>2, <1>8 DEF Named
  <2> QED BY <1>1, <2>1, OneMoreOf
<1>9. PICK S, T : S = Before(Named(a), k) /\ T = Before(Named(a), l)
  OBVIOUS
<1>10. S = {} /\ T = {k} /\ Cardinality(T) = 1 /\ Cardinality(Upto(Named(a), k)) = 1
  <2>1. S = {}
    BY <1>4, <1>6, <1>9
  <2>2. /\ Cardinality(T) = Cardinality(S) + 1 /\ T = S \cup {k}
        /\ Cardinality(Upto(Named(a), k)) = Cardinality(S) + 1
    BY <1>1, <1>2, <1>9, OneMoreOf
  <2> QED BY <2>1, <2>2, FS_EmptySet
<1>11. \A b \in Names : dict'[b] # 0 <=> Before(Named(b), l) # {}
  <2>1. e # 0 /\ T # {}
    BY <1>2, <1>3, <1>10
  <2> QED BY <1>4, <1>6, <1>8, <1>9, <2>1
<1>12. ASSUME NEW b \in Names, dict'[b] # 0
       PROVE  /\ dict'[b] \in 1 .. e
              /\ Len(entries'[dict'[b]].nums) = Cardinality(Before(Named(b), l))
              /\ \A c \in Before(Named(b), l) :
                   entries'[dict'[b]].nums[Cardinality(Upto(Named(b), c))] = NumberOf(c)
  <2>1. CASE b # a
    <3>1. dict'[b] = dict[b] /\ dict[b] \in 1 .. n
      BY <1>4, <1>6, <1>12, <2>1
    <3>2. entries'[dict[b]] = entries[dict[b]] /\ dict[b] \in 1 .. e
      BY <1>2, <1>3, <1>5, <3>1
    <3> QED BY <1>4, <1>8, <1>12, <2>1, <3>1, <3>2
  <2>2. CASE b = a
    <3>1. e \in 1 .. e
      BY <1>2, <1>3
    <3>2. Len(entries'[e].nums) = 1 /\ entries'[e].nums[1] = m
      BY <1>5
    <3>3. dict'[b] = e /\ Before(Named(b), l) = {k} /\ Cardinality(Before(Named(b), l)) = 1
          /\ Cardinality(Upto(Named(b), k)) = 1 /\ NumberOf(k) = m
      BY <1>1, <1>2, <1>6, <1>9, <1>10, <2>2
    <3> QED BY <3>1, <3>2, <3>3
  <2> QED BY <2>1, <2>2
<1>13. ASSUME NEW b \in Names, NEW c \in Names, dict'[b] # 0, dict'[b] = dict'[c]
       PROVE  b = c
  <2>1. \A d \in Names : d # a => dict'[d] # e
    BY <1>2, <1>3, <1>4, <1>6
  <2> QED BY <1>4, <1>6, <1>13, <2>1
<1> QED BY <1>5, <1>7, <1>11, <1>12, <1>13

LEMMA CollectGoesOn ==
  ASSUME Inv, Visit("collect"), WalkOn, RoomForAll', NamesCollected',
         UNCHANGED <<pattern, tree, num_capture_groups, next, seen, error, warned>>
  PROVE  Inv'
<1>1. /\ PatternOK /\ Walking /\ UNCHANGED pattern /\ todo # <<>>
      /\ pass = "collect" /\ pass' = "collect"
      /\ UNCHANGED <<type, num, ref, num_capture_groups, next, seen, error, warned>>
  BY DEF Inv, Visit, WalkOn, tree
<1>2. PatternOK' /\ Walking'
  BY <1>1, WalkGoesOn, Fixed
<1>3. has_named_captures
  BY <1>1 DEF Inv, PassOK
<1>4. TreeOK'
  BY <1>1, Fixed DEF Inv, TreeOK
<1>5. PassOK'
  BY <1>1, <1>3, Fixed DEF PassOK
<1>6. TypesKept'
  BY <1>1, Fixed DEF Inv, TypesKept, Numbered, Numbers
<1>7. NumbersGiven'
  BY <1>1, Fixed DEF Inv, NumbersGiven, Numbered, Numbers
<1>8. EntriesBuilt' /\ NamesSeen'
  BY <1>1, <1>3, Fixed DEF EntriesBuilt, NamesSeen
<1>9. RefsResolved'
  BY <1>1, Fixed DEF Inv, RefsResolved, Cleared, Resolved
<1>10. ErrorFound' /\ Warnings'
  BY <1>1 DEF Inv, ErrorFound, Warnings
<1> QED BY <1>2, <1>4, <1>5, <1>6, <1>7, <1>8, <1>9, <1>10 DEF Inv

LEMMA CollectNodeKeeps ==
  ASSUME Inv, CollectNode
  PROVE  Inv'
<1>1. PICK k, l : k = Place /\ l = k + 1
  OBVIOUS
<1>2. /\ PatternOK /\ Walking /\ todo # <<>> /\ Visit("collect") /\ pass = "collect"
      /\ UNCHANGED <<pattern, tree, num_capture_groups, warned>> /\ UNCHANGED ref
      /\ has_named_captures /\ RoomForAll
  BY DEF Inv, CollectNode, Visit, PassOK, tree
<1>3. k \in Nodes /\ Node = k
  BY <1>1, <1>2, CollectAt
<1>4. \A n \in Refs : CanRead(n)'
  BY <1>2, ClearedCanBeRead
<1>5. ASSUME NoMemory, RoomForAll'
      PROVE  Inv'
  <2>1. Fail("no_memory", 0) /\ ErrorFound'
    BY <1>5, OtherErrors DEF NoMemory
  <2> QED BY <1>2, <1>4, <1>5, <2>1, FailKeeps DEF tree
<1>6. ASSUME WalkOn
      PROVE  \A b : Collected(b)' = Before(Named(b), l)
  <2>1. Place' = l /\ pass' = "collect"
    BY <1>1, <1>2, <1>6, WalkGoesOn DEF WalkOn
  <2> QED BY <1>2, <2>1, Fixed DEF Collected, Before
<1>7. CASE type[k] # "capture"
  <2>1. WalkOn /\ UNCHANGED <<entries, cap, dict, next, seen, error>>
    BY <1>3, <1>7 DEF CollectNode, captures
  <2>2. \A b : Collected(b)' = Collected(b)
    <3>1. \A b : k \notin Named(b)
      BY <1>1, <1>2, <1>7, CollectAt DEF Named
    <3>2. \A b : Before(Named(b), l) = Before(Named(b), k)
      BY <1>1, <1>2, <1>3, <3>1, OneMoreOf
    <3> QED BY <1>1, <1>2, <1>6, <2>1, <3>2 DEF Collected
  <2>3. RoomForAll'
    BY <1>2, <2>1 DEF RoomForAll
  <2>4. NamesCollected'
    BY <1>2, <2>1, <2>2, Fixed DEF Inv, NamesCollected, EntryOf
  <2> QED BY <1>2, <2>1, <2>3, <2>4, CollectGoesOn
<1>8. CASE type[k] = "capture"
  <2> DEFINE a == label[k].name
  <2>1. PICK e : e = dict[a]
    OBVIOUS
  <2>2. CollectKnown(k) \/ CollectNew(k)
    BY <1>3, <1>8 DEF CollectNode
  <2>3. CASE CollectKnown(k)
    <3>1. e # 0 /\ UNCHANGED <<cap, dict>>
      BY <2>1, <2>3 DEF CollectKnown
    <3>2. CASE entries' = [entries EXCEPT ![e] = WithNum(@, num[k])] /\ WalkOn /\ UNCHANGED <<next, seen, error>>
      <4>1. /\ RoomForAll'
            /\ \A b \in Names : dict[b] # 0 <=> Before(Named(b), l) # {}
            /\ \A b \in Names : dict[b] # 0 =>
                 /\ dict[b] \in 1 .. Len(entries')
                 /\ Len(entries'[dict[b]].nums) = Cardinality(Before(Named(b), l))
                 /\ \A c \in Before(Named(b), l) :
                      entries'[dict[b]].nums[Cardinality(Upto(Named(b), c))] = NumberOf(c)
        BY <1>1, <1>2, <1>8, <2>1, <3>1, <3>2, CollectKnownNames
      <4>2. \A b, c \in Names : dict[b] # 0 /\ dict[b] = dict[c] => b = c
        BY <1>2 DEF Inv, NamesCollected
      <4>3. NamesCollected'
        BY <1>2, <1>6, <3>1, <3>2, <4>1, <4>2, Fixed DEF NamesCollected, EntryOf
      <4> QED BY <1>2, <3>2, <4>1, <4>3, CollectGoesOn
    <3>3. CASE UNCHANGED entries /\ NoMemory
      BY <1>2, <1>5, <3>1, <3>3 DEF RoomForAll
    <3> QED BY <2>1, <2>3, <3>2, <3>3 DEF CollectKnown
  <2>4. CASE CollectNew(k)
    <3>1. dict[a] = 0 /\ a \in Names
      BY <1>1, <1>2, <1>8, <2>4, CollectAt DEF CollectNew
    <3>2. CASE /\ AppendEntry(num[k]) /\ dict' = [dict EXCEPT ![a] = Len(entries) + 1]
               /\ WalkOn /\ UNCHANGED <<next, seen, error>>
      <4>1. /\ RoomForAll'
            /\ \A b \in Names : dict'[b] # 0 <=> Before(Named(b), l) # {}
            /\ \A b \in Names : dict'[b] # 0 =>
                 /\ dict'[b] \in 1 .. Len(entries')
                 /\ Len(entries'[dict'[b]].nums) = Cardinality(Before(Named(b), l))
                 /\ \A c \in Before(Named(b), l) :
                      entries'[dict'[b]].nums[Cardinality(Upto(Named(b), c))] = NumberOf(c)
            /\ \A b, c \in Names : dict'[b] # 0 /\ dict'[b] = dict'[c] => b = c
        <5>1. Visit("collect") /\ k = Place /\ l = k + 1 /\ AppendEntry(num[k])
          BY <1>1, <1>2, <3>2
        <5>2. dict[label[k].name] = 0 /\ dict' = [dict EXCEPT ![label[k].name] = Len(entries) + 1]
          BY <3>1, <3>2
        <5> HIDE DEF a
        <5>3. RoomForAll'
          BY <1>8, <5>1, <5>2, CollectNewNames
        <5>4. \A b \in Names : dict'[b] # 0 <=> Before(Named(b), l) # {}
          BY <1>8, <5>1, <5>2, CollectNewNames
        <5>5. \A b \in Names : dict'[b] # 0 =>
                 /\ dict'[b] \in 1 .. Len(entries')
                 /\ Len(entries'[dict'[b]].nums) = Cardinality(Before(Named(b), l))
                 /\ \A c \in Before(Named(b), l) :
                      entries'[dict'[b]].nums[Cardinality(Upto(Named(b), c))] = NumberOf(c)
          BY <1>8, <5>1, <5>2, CollectNewNames
        <5>6. \A b, c \in Names : dict'[b] # 0 /\ dict'[b] = dict'[c] => b = c
          BY <1>8, <5>1, <5>2, CollectNewNames
        <5> QED BY <5>3, <5>4, <5>5, <5>6
      <4>2. NamesCollected'
        BY <1>2, <1>6, <3>2, <4>1, Fixed DEF NamesCollected, EntryOf
      <4> QED BY <1>2, <3>2, <4>1, <4>2, CollectGoesOn
    <3>3. CASE /\ AppendEntryFails /\ NoMemory
               /\ dict' \in {dict} \cup
                    IF Len(entries') > Len(entries)
                    THEN {[dict EXCEPT ![a] = Len(entries) + 1]}
                    ELSE {}
      <4>1. /\ entries' \in Seq(Entry) /\ cap' \in Nat /\ Len(entries') <= cap'
            /\ \A i \in 1 .. Len(entries') : Len(entries'[i].nums) <= entries'[i].cap
        BY <1>2, <3>3, AppendEntryFailsFacts
      <4>2. dict' = dict \/ dict' = [dict EXCEPT ![a] = Len(entries) + 1]
        BY <3>3
      <4>3. dict' \in [Names -> Nat]
        BY <1>2, <3>1, <4>2, DomainOfSeq DEF RoomForAll
      <4>4. RoomForAll'
        BY <4>1, <4>3, DomainOfSeq DEF RoomForAll
      <4> QED BY <1>5, <3>3, <4>4
    <3>4. CASE UNCHANGED captures /\ NoMemory
      BY <1>2, <1>5, <3>4 DEF RoomForAll, captures
    <3> QED BY <2>4, <3>2, <3>3, <3>4 DEF CollectNew
  <2> QED BY <2>2, <2>3, <2>4
<1> QED BY <1>7, <1>8

LEMMA CollectDoneKeeps ==
  ASSUME Inv, CollectDone
  PROVE  Inv'
<1>1. /\ PatternOK /\ Walking /\ UNCHANGED pattern /\ todo = <<>>
      /\ pass = "collect" /\ pass' = "count" /\ has_named_captures
      /\ UNCHANGED <<type, num, ref, num_capture_groups, entries, cap, dict, todo, next, seen, error, warned>>
  BY DEF Inv, CollectDone, WalkDone, PassOK, tree, captures
<1>2. PatternOK' /\ Walking' /\ Place = N + 1
  BY <1>1, WalkEnds, WalkFacts, Fixed
<1>3. N \in Nat /\ NamedCaptures \subseteq 1 .. N
  BY <1>1, PatternFacts
<1>4. TreeOK'
  BY <1>1, Fixed DEF Inv, TreeOK
<1>5. PassOK'
  BY <1>1, <1>2, Fixed DEF PassOK
<1>6. TypesKept'
  BY <1>1, Fixed DEF Inv, TypesKept, Numbered, Numbers
<1>7. NumbersGiven'
  BY <1>1, Fixed DEF Inv, NumbersGiven, Numbered, Numbers
<1>8. RoomForAll' /\ NamesSeen'
  BY <1>1 DEF Inv, RoomForAll, NamesSeen
<1>9. NamesCollected'
  <2>1. \A b : Named(b) \subseteq 1 .. N
    BY <1>3 DEF Named
  <2>2. \A b : Before(Named(b), N + 1) = Named(b)
    BY <1>1, <2>1, BeforeEnds
  <2>3. \A b : Collected(b)' = Collected(b)
    BY <1>1, <1>2, <2>2, Fixed DEF Collected
  <2> QED BY <1>1, <2>3, Fixed DEF Inv, NamesCollected, EntryOf
<1>10. EntriesBuilt'
  BY <1>1, Fixed DEF EntriesBuilt
<1>11. RefsResolved'
  BY <1>1, Fixed DEF Inv, RefsResolved, Cleared, Resolved
<1>12. ErrorFound' /\ Warnings'
  BY <1>1 DEF Inv, ErrorFound, Warnings
<1> QED BY <1>2, <1>4, <1>5, <1>6, <1>7, <1>8, <1>9, <1>10, <1>11, <1>12 DEF Inv

-----------------------------------------------------------------------------
(* An entry for each number.                                                *)

LEMMA BuildEntryKeeps ==
  ASSUME Inv, BuildEntry
  PROVE  Inv'
<1>1. /\ PatternOK /\ Walking /\ pass = "entries" /\ ~has_named_captures /\ RoomForAll
      /\ UNCHANGED <<pattern, type, num, ref, num_capture_groups, dict, warned>>
      /\ next <= num_capture_groups /\ next = Len(entries) + 1 /\ next \in Nat /\ num_capture_groups \in Nat
  BY DEF Inv, BuildEntry, PassOK, EntriesBuilt, TreeOK, tree
<1>2. entries \in Seq(Entry) /\ Len(entries) \in Nat
  BY <1>1, DomainOfSeq DEF RoomForAll
<1>3. CASE AppendEntryFails /\ NoMemory
  <2>1. Fail("no_memory", 0) /\ ErrorFound'
    BY <1>3, OtherErrors DEF NoMemory
  <2>2. \A n \in Refs : CanRead(n)'
    BY <1>1, ClearedCanBeRead
  <2>3. /\ entries' \in Seq(Entry) /\ cap' \in Nat /\ Len(entries') <= cap'
        /\ \A i \in 1 .. Len(entries') : Len(entries'[i].nums) <= entries'[i].cap
    BY <1>1, <1>3, AppendEntryFailsFacts
  <2>4. RoomForAll'
    BY <1>1, <2>3, DomainOfSeq DEF RoomForAll
  <2> QED BY <1>1, <2>1, <2>2, <2>4, FailKeeps
<1>4. CASE AppendEntry(next) /\ next' = next + 1 /\ UNCHANGED <<pass, todo, seen, error>>
  <2>1. next \in Nat \ {0}
    BY <1>1, <1>2
  <2>2. /\ entries' \in Seq(Entry) /\ cap' \in Nat
        /\ Len(entries') = Len(entries) + 1 /\ Len(entries') <= cap'
        /\ \A i \in 1 .. Len(entries) : entries'[i] = entries[i]
        /\ entries'[Len(entries) + 1].nums = <<next>>
        /\ \A i \in 1 .. Len(entries') : Len(entries'[i].nums) <= entries'[i].cap
    BY <1>1, <1>4, <2>1, AppendEntryFacts
  <2>3. PatternOK' /\ Walking'
    <3>1. Place' = Place /\ N' = N /\ \A j : Ahead(j)' = Ahead(j)
      BY <1>1, <1>4 DEF Place, N, Ahead, Nodes, pattern
    <3>2. Ahead(Place)' = Ahead(Place)
      BY <3>1 DEF Ahead
    <3> QED BY <1>1, <1>4, <3>1, <3>2, Fixed DEF Walking
  <2>4. TreeOK'
    BY <1>1, <1>4, Fixed DEF Inv, TreeOK
  <2>5. PassOK'
    BY <1>1, <1>4, Fixed DEF PassOK
  <2>6. TypesKept'
    BY <1>1, <1>4, Fixed DEF Inv, TypesKept, Numbered, Numbers
  <2>7. NumbersGiven'
    BY <1>1, <1>4, Fixed DEF Inv, NumbersGiven, Numbered, Numbers
  <2>8. RoomForAll'
    BY <1>1, <2>2, DomainOfSeq DEF RoomForAll
  <2>9. NamesCollected' /\ NamesSeen'
    BY <1>1, <1>4, Fixed DEF NamesCollected, NamesSeen
  <2>10. EntriesBuilt'
    <3>1. \A i \in 1 .. Len(entries) : entries[i].nums = <<i>>
      BY <1>1 DEF Inv, EntriesBuilt
    <3>2. \A i \in 1 .. Len(entries') : i \in 1 .. Len(entries) \/ i = next
      BY <1>1, <1>2, <2>2
    <3>3. \A i \in 1 .. Len(entries') : entries'[i].nums = <<i>>
      BY <1>1, <2>2, <3>1, <3>2
    <3>4. next' = Len(entries') + 1 /\ next' <= num_capture_groups + 1
      BY <1>1, <1>2, <1>4, <2>2
    <3> QED BY <1>1, <1>4, <3>3, <3>4, Fixed DEF EntriesBuilt
  <2>11. RefsResolved'
    BY <1>1, <1>4, Fixed DEF Inv, RefsResolved, Cleared, Resolved
  <2>12. ErrorFound' /\ Warnings'
    BY <1>1, <1>4 DEF Inv, ErrorFound, Warnings
  <2> QED BY <2>3, <2>4, <2>5, <2>6, <2>7, <2>8, <2>9, <2>10, <2>11, <2>12 DEF Inv
<1> QED BY <1>3, <1>4 DEF BuildEntry

LEMMA BuildDoneKeeps ==
  ASSUME Inv, BuildDone
  PROVE  Inv'
<1>1. /\ PatternOK /\ UNCHANGED pattern /\ todo' = <<>> /\ next' = 0
      /\ pass = "entries" /\ pass' = "count" /\ ~has_named_captures
      /\ UNCHANGED <<type, num, ref, num_capture_groups, entries, cap, dict, seen, error, warned>>
  BY DEF Inv, BuildDone, PassOK, tree, captures
<1>2. PatternOK' /\ Walking'
  BY <1>1, WalkEnds, Fixed
<1>3. TreeOK'
  BY <1>1, Fixed DEF Inv, TreeOK
<1>4. PassOK'
  BY <1>1, Fixed DEF PassOK
<1>5. TypesKept'
  BY <1>1, Fixed DEF Inv, TypesKept, Numbered, Numbers
<1>6. NumbersGiven'
  BY <1>1, Fixed DEF Inv, NumbersGiven, Numbered, Numbers
<1>7. RoomForAll' /\ NamesCollected' /\ NamesSeen'
  BY <1>1, Fixed DEF Inv, RoomForAll, NamesCollected, NamesSeen
<1>8. EntriesBuilt'
  <2>1. Len(entries) = num_capture_groups
    <3>1. next = Len(entries) + 1 /\ next <= num_capture_groups + 1 /\ next > num_capture_groups
      BY <1>1 DEF Inv, EntriesBuilt, BuildDone
    <3>2. num_capture_groups \in Nat /\ Len(entries) \in Nat
      BY DomainOfSeq DEF Inv, TreeOK, RoomForAll
    <3> QED BY <3>1, <3>2
  <2> QED BY <1>1, <2>1, Fixed DEF Inv, EntriesBuilt
<1>9. RefsResolved'
  BY <1>1, Fixed DEF Inv, RefsResolved, Cleared, Resolved
<1>10. ErrorFound' /\ Warnings'
  BY <1>1 DEF Inv, ErrorFound, Warnings
<1> QED BY <1>2, <1>3, <1>4, <1>5, <1>6, <1>7, <1>8, <1>9, <1>10 DEF Inv

-----------------------------------------------------------------------------
(* Resolving the references.                                                *)

LEMMA CountKeeps ==
  ASSUME Inv, Count
  PROVE  Inv'
<1>1. /\ PatternOK /\ pass = "count" /\ RoomForAll
      /\ UNCHANGED <<pattern, type, num, ref, num_capture_groups, entries, cap, dict, warned>>
  BY DEF Inv, Count, tree, captures
<1>2. N \in Nat /\ Nodes = 1 .. N /\ NamedCaptures \subseteq Nodes /\ \A n \in Nodes : label[n] \in Label
  BY <1>1, PatternFacts
<1>3. CASE NoMemory
  <2>1. Fail("no_memory", 0) /\ ErrorFound'
    BY <1>3, OtherErrors DEF NoMemory
  <2>2. \A n \in Refs : CanRead(n)'
    BY <1>1, ClearedCanBeRead
  <2>3. RoomForAll'
    BY <1>1 DEF RoomForAll
  <2> QED BY <1>1, <2>1, <2>2, <2>3, FailKeeps
<1>4. ASSUME has_named_captures
      PROVE  entries # <<>>
  <2>1. PICK c \in NamedCaptures : TRUE
    BY <1>4 DEF has_named_captures
  <2>2. PICK a : a = label[c].name
    OBVIOUS
  <2>3. a \in Names /\ c \in Named(a)
    BY <1>2, <2>1, <2>2, LabelFacts DEF NamedCaptures, Named
  <2>4. dict[a] \in 1 .. Len(entries)
    BY <1>1, <1>4, <2>3 DEF Inv, NamesCollected, Collected
  <2> QED BY <2>4
<1>5. CASE /\ pass' = "resolve" /\ todo' = Roots /\ UNCHANGED <<next, error>>
           /\ has_named_captures => seen' = [e \in DOMAIN entries |-> 0]
  <2>1. PatternOK' /\ Walking' /\ Place' = 1
    BY <1>1, <1>5, WalkStarts, Fixed
  <2>2. \A n \in Nodes : n >= 1 /\ ~(n < 1)
    BY <1>2
  <2>3. TreeOK'
    BY <1>1, <1>5, Fixed DEF Inv, TreeOK
  <2>4. PassOK'
    BY <1>5 DEF PassOK
  <2>5. TypesKept'
    BY <1>1, <1>5, Fixed DEF Inv, TypesKept, Numbered, Numbers
  <2>6. NumbersGiven'
    BY <1>1, <1>5, Fixed DEF Inv, NumbersGiven, Numbered, Numbers
  <2>7. RoomForAll'
    BY <1>1 DEF RoomForAll
  <2>8. NamesCollected'
    <3>1. \A b : Collected(b)' = Collected(b)
      BY <1>1, <1>5, Fixed DEF Collected
    <3>2. \A b : Named(b)' = Named(b) /\ NumberOf(b)' = NumberOf(b)
      BY <1>1, Fixed
    <3>3. has_named_captures' = has_named_captures
      BY <1>1, Fixed
    <3> QED BY <1>1, <1>5, <3>1, <3>2, <3>3 DEF Inv, NamesCollected, EntryOf
  <2>9. EntriesBuilt'
    BY <1>1, <1>5, Fixed DEF Inv, EntriesBuilt
  <2>10. NamesSeen'
    <3>1. SUFFICES ASSUME has_named_captures
                   PROVE  /\ seen' \in [1 .. Len(entries) -> Nat]
                          /\ \A b \in Names : dict[b] # 0 =>
                               seen'[dict[b]] = Cardinality(Before(Named(b), 1))
      BY <1>1, <2>1, Fixed DEF NamesSeen, Before
    <3>2. seen' = [e \in 1 .. Len(entries) |-> 0]
      BY <1>1, <1>5, <3>1, DomainOfSeq DEF RoomForAll
    <3>3. \A b : Named(b) \subseteq 1 .. N
      BY <1>2 DEF Named
    <3>4. \A b : Cardinality(Before(Named(b), 1)) = 0
      BY <1>1, <3>3, BeforeEnds
    <3>5. \A b \in Names : dict[b] # 0 => dict[b] \in 1 .. Len(entries)
      BY <1>1, <3>1 DEF Inv, NamesCollected
    <3> QED BY <3>2, <3>4, <3>5
  <2>11. RefsResolved'
    BY <1>1, <1>5, <2>1, <2>2, Fixed DEF Inv, RefsResolved, Cleared, Resolved
  <2>12. ErrorFound'
    BY <1>1, <1>5 DEF Inv, ErrorFound
  <2>13. Warnings'
    <3>1. warned' = {}
      BY <1>1 DEF Inv, Warnings
    <3>2. Refs \subseteq Nodes
      BY <1>1, PatternFacts
    <3>3. \A n \in Refs : ~Resolved(n)'
      BY <1>5, <2>1, <2>2, <3>2 DEF Resolved
    <3> QED BY <1>1, <1>5, <3>1, <3>3, Fixed DEF Warnings
  <2> QED BY <2>1, <2>3, <2>4, <2>5, <2>6, <2>7, <2>8, <2>9, <2>10, <2>11, <2>12, <2>13 DEF Inv
<1> QED BY <1>3, <1>4, <1>5 DEF Count, StartWalk

(* What resolve_refs meets at a node.                                       *)
LEMMA ResolveAt ==
  ASSUME Inv, Visit("resolve"), NEW k, k = Place
  PROVE  /\ PatternOK /\ Walking /\ todo # <<>> /\ pass = "resolve"
         /\ k \in Nodes /\ Node = k /\ type[k] = TypeOf(k) /\ label[k] \in Label
         /\ N \in Nat /\ Nodes = 1 .. N /\ k \in Nat
         /\ num_capture_groups = Cardinality(Counted)
<1>1. PatternOK /\ Walking /\ todo # <<>> /\ pass = "resolve"
  BY DEF Inv, Visit
<1>2. k \in Nodes /\ Node = k /\ label[k] \in Label /\ N \in Nat /\ Nodes = 1 .. N
  BY <1>1, WalkFacts, PatternFacts
<1> QED BY <1>1, <1>2 DEF Inv, TypesKept, NumbersGiven, Numbered, Numbers

LEMMA SameNames ==
  ASSUME NEW n
  PROVE  SameName(n) = Named(label[n].name) /\ Earlier(n) = Before(Named(label[n].name), n)
BY DEF SameName, Earlier, Named, Before

(* A reference that means what it should can be read.                       *)
LEMMA RightCanBeRead ==
  ASSUME Inv, pass \in {"resolve", "done"}, NEW n \in Refs, Wrong(n) = "none", RefRight(n)
  PROVE  /\ CanRead(n) /\ ref[n].entry \in DOMAIN entries
         /\ ref[n].count <= Len(entries[ref[n].entry].nums)
<1>1. PatternOK /\ n \in Nodes /\ label[n] \in Label /\ n \notin Captures
      /\ label[n].target \in {"name", "number"} /\ label[n].kind \in {"back_ref", "conditional"}
  BY PatternFacts, LabelFacts DEF Inv, Refs, Captures
<1>2. entries \in Seq(Entry) /\ DOMAIN entries = 1 .. Len(entries)
  BY DomainOfSeq DEF Inv, RoomForAll
<1>3. /\ label[n].target = "name" <=> has_named_captures
      /\ label[n].target = "name" => Earlier(n) # {}
      /\ label[n].target = "number" => label[n].number \in 1 .. Cardinality(Captures)
  <2>1. ~(n \in Captures \/ label[n].target = "root")
    BY <1>1
  <2>2. label[n].target # "name" <=> label[n].target = "number"
    BY <1>1
  <2>3. Invalid[label[n].kind] # "none" /\ Undefined[label[n].kind] # "none"
    BY <1>1 DEF Invalid, Undefined
  <2>4. (label[n].target = "name") = has_named_captures
    BY <2>1, <2>3 DEF Wrong
  <2>5. ~ IF label[n].target = "name" THEN Earlier(n) = {} ELSE label[n].number \notin 1 .. Cardinality(Captures)
    BY <2>1, <2>3, <2>4 DEF Wrong
  <2> QED BY <2>2, <2>4, <2>5 DEF has_named_captures
<1>4. CASE has_named_captures
  <2>1. PICK a : a = label[n].name
    OBVIOUS
  <2>2. a \in Names /\ SameName(n) = Named(a) /\ Earlier(n) = Before(Named(a), n)
    BY <1>1, <1>3, <1>4, <2>1, LabelFacts, SameNames
  <2>3. Named(a) \subseteq 1 .. N /\ N \in Nat /\ Earlier(n) \subseteq Named(a) /\ Named(a) # {}
    BY <1>1, <1>3, <1>4, <2>2, PatternFacts DEF Named, Before
  <2>4. Cardinality(Earlier(n)) <= Cardinality(Named(a))
    BY <2>3, Subsets
  <2>5. dict[a] \in 1 .. Len(entries) /\ Len(entries[dict[a]].nums) = Cardinality(Named(a))
    BY <1>4, <2>2, <2>3 DEF Inv, NamesCollected, Collected, EntryOf
  <2>6. ref[n].entry = dict[a] /\ ref[n].count = Cardinality(Earlier(n))
    BY <1>4, <2>1 DEF RefRight
  <2> QED BY <1>2, <2>4, <2>5, <2>6 DEF CanRead
<1>5. CASE ~has_named_captures
  <2>1. label[n].number \in 1 .. Cardinality(Captures) /\ Counted = Captures
    BY <1>1, <1>3, <1>5 DEF Counted
  <2>2. Len(entries) = Cardinality(Captures)
    BY <1>5, <2>1 DEF Inv, EntriesBuilt, NumbersGiven, Numbers
  <2>3. entries[label[n].number].nums = <<label[n].number>>
    BY <1>5, <2>1, <2>2 DEF Inv, EntriesBuilt
  <2>4. Len(entries[label[n].number].nums) = 1
    BY <2>3
  <2>5. ref[n].entry = label[n].number /\ ref[n].count = 1
    BY <1>5 DEF RefRight
  <2>6. label[n].number \in DOMAIN entries
    BY <1>2, <2>1, <2>2
  <2>7. PICK e : e = ref[n].entry
    OBVIOUS
  <2>8. e \in DOMAIN entries /\ Len(entries[e].nums) = 1
    BY <2>4, <2>5, <2>6, <2>7
  <2>9. ref[n].count <= Len(entries[e].nums)
    BY <2>5, <2>8
  <2> QED BY <2>7, <2>8, <2>9 DEF CanRead
<1> QED BY <1>4, <1>5

LEMMA ResolveFails ==
  ASSUME Inv, Visit("resolve"), NEW what, NEW at, Fail(what, at), ErrorFound',
         UNCHANGED <<pattern, type, num, ref, num_capture_groups, captures>>
  PROVE  Inv'
<1>1. pass = "resolve" /\ PatternOK /\ Refs \subseteq Nodes /\ Place \in Nat /\ Nodes \subseteq Nat
      /\ UNCHANGED <<entries, cap, dict>>
  BY PatternFacts, ResolveAt DEF Inv, Visit, captures
<1>2. RoomForAll'
  BY <1>1 DEF Inv, RoomForAll
<1>3. ASSUME NEW n \in Refs
      PROVE  CanRead(n)
  <2>1. CASE n < Place
    BY <1>1, <2>1, RightCanBeRead DEF Inv, RefsResolved, Resolved
  <2>2. CASE ~(n < Place)
    <3>1. n >= Place
      BY <1>1, <2>2
    <3>2. ref[n] = Unresolved
      BY <1>1, <3>1 DEF Inv, RefsResolved, Cleared
    <3> QED BY <3>2 DEF CanRead, Unresolved
  <2> QED BY <2>1, <2>2
<1>4. \A n \in Refs : CanRead(n)'
  BY <1>1, <1>3 DEF CanRead
<1> QED BY <1>1, <1>2, <1>4, FailKeeps

LEMMA WrongFails ==
  ASSUME Inv, Visit("resolve"), NEW k, k = Place, Wrong(k) # "none", Fail(Wrong(k), k),
         UNCHANGED <<pattern, type, num, ref, num_capture_groups, captures>>
  PROVE  Inv'
<1>1. k \in Nodes /\ pass = "resolve" /\ UNCHANGED pattern
  BY ResolveAt
<1>2. \A m \in Nodes : m < k => Wrong(m) = "none"
  BY <1>1 DEF Inv, RefsResolved, Resolved
<1>3. error' = [what |-> Wrong(k), at |-> k] /\ pass' = "failed"
  BY DEF Fail
<1>4. ErrorFound'
  <2>1. \A n : Wrong(n)' = Wrong(n)
    BY <1>1, Fixed
  <2>2. error'.at = k /\ error'.what = Wrong(k) /\ Nodes' = Nodes
    BY <1>1, <1>3, Fixed
  <2>3. Wrong(error.at)' = Wrong(k)
    BY <1>1, <2>2, Fixed DEF Wrong
  <2> QED BY <1>1, <1>2, <1>3, <2>1, <2>2, <2>3 DEF ErrorFound
<1> QED BY <1>4, ResolveFails

(* One more node is resolved.                                               *)
LEMMA ResolveGoesOn ==
  ASSUME Inv, Visit("resolve"), WalkOn, NEW k, k = Place, next' = 0, UNCHANGED error,
         UNCHANGED <<pattern, type, num, num_capture_groups, captures>>,
         ref' \in [Nodes -> [entry : Nat, count : Nat, num : Nat]],
         \A n \in Nodes : n # k => ref'[n] = ref[n],
         Wrong(k) = "none", k \in Refs => RefRight(k)', k \in Calls => CallRight(k)',
         warned' = warned \cup {n \in Refs : n = k /\ Earlier(n) # SameName(n)},
         NamesSeen'
  PROVE  Inv'
<1>1. /\ PatternOK /\ Walking /\ todo # <<>> /\ pass = "resolve" /\ pass' = "resolve"
      /\ UNCHANGED pattern /\ k \in Nodes /\ Place = k /\ N \in Nat /\ Nodes = 1 .. N /\ k \in Nat
      /\ UNCHANGED <<type, num, num_capture_groups, entries, cap, dict>>
  BY ResolveAt DEF WalkOn, captures
<1>2. PatternOK' /\ Walking' /\ Place' = k + 1
  BY <1>1, WalkGoesOn, Fixed
<1>3. /\ \A n \in Nodes : n < k + 1 <=> n < k \/ n = k
      /\ \A n \in Nodes : n >= k + 1 => n >= k /\ n # k
      /\ Refs \subseteq Nodes /\ Calls \subseteq Nodes
  BY <1>1, PatternFacts
<1>4. TreeOK'
  <2>1. 0 \in Nat
    OBVIOUS
  <2> QED BY <1>1, <2>1, Fixed DEF Inv, TreeOK
<1>5. PassOK'
  BY <1>1 DEF PassOK
<1>6. TypesKept'
  BY <1>1, Fixed DEF Inv, TypesKept, Numbered, Numbers
<1>7. NumbersGiven'
  BY <1>1, Fixed DEF Inv, NumbersGiven, Numbered, Numbers
<1>8. RoomForAll'
  BY <1>1 DEF Inv, RoomForAll
<1>9. NamesCollected'
  <2>1. \A b : Collected(b)' = Collected(b)
    BY <1>1, Fixed DEF Collected
  <2>2. \A b : Named(b)' = Named(b) /\ NumberOf(b)' = NumberOf(b)
    BY <1>1, Fixed
  <2>3. has_named_captures' = has_named_captures
    BY <1>1, Fixed
  <2> QED BY <1>1, <2>1, <2>2, <2>3 DEF Inv, NamesCollected, EntryOf
<1>10. EntriesBuilt'
  BY <1>1, Fixed DEF Inv, EntriesBuilt
<1>11. RefsResolved'
  <2>1. \A n \in Nodes : /\ Cleared(n)' <=> n >= k + 1
                         /\ Resolved(n)' <=> n < k + 1
    BY <1>1, <1>2 DEF Cleared, Resolved
  <2>2. ASSUME NEW n \in Nodes, n >= k + 1, n \in Refs
        PROVE  ref'[n] = Unresolved
    BY <1>1, <1>3, <2>2 DEF Inv, RefsResolved, Cleared
  <2>3. ASSUME NEW n \in Nodes, n < k
        PROVE  /\ Wrong(n) = "none"
               /\ n \in Refs => RefRight(n)'
               /\ n \in Calls => CallRight(n)'
    <3>1. Wrong(n) = "none" /\ (n \in Refs => RefRight(n)) /\ (n \in Calls => CallRight(n))
      BY <1>1, <2>3 DEF Inv, RefsResolved, Resolved
    <3>2. n # k
      BY <1>1, <2>3
    <3>3. ref'[n] = ref[n] /\ label' = label /\ dict' = dict
      BY <1>1, <3>2, Fixed
    <3>4. SameName(n)' = SameName(n) /\ Earlier(n)' = Earlier(n)
          /\ has_named_captures' = has_named_captures /\ \A c : NumberOf(c)' = NumberOf(c)
      BY <1>1, Fixed
    <3>5. n \in Refs => RefRight(n)'
      BY <3>1, <3>3, <3>4 DEF RefRight
    <3>6. n \in Calls => CallRight(n)'
      BY <3>1, <3>3, <3>4 DEF CallRight
    <3> QED BY <3>1, <3>5, <3>6
  <2>4. ASSUME NEW n \in Nodes, n < k + 1
        PROVE  /\ Wrong(n) = "none"
               /\ n \in Refs => RefRight(n)'
               /\ n \in Calls => CallRight(n)'
    BY <1>3, <2>3, <2>4
  <2>5. /\ Nodes' = Nodes /\ Refs' = Refs /\ Calls' = Calls /\ \A n : Wrong(n)' = Wrong(n)
    BY <1>1, Fixed
  <2> QED BY <1>1, <2>1, <2>2, <2>4, <2>5 DEF RefsResolved
<1>12. ErrorFound'
  BY <1>1 DEF Inv, ErrorFound
<1>13. Warnings'
  <2>1. warned = {n \in Refs : n < k /\ Earlier(n) # SameName(n)}
    BY <1>1 DEF Inv, Warnings, Resolved
  <2>2. warned' = {n \in Refs : n < k + 1 /\ Earlier(n) # SameName(n)}
    BY <1>3, <2>1
  <2>3. \A n : Resolved(n)' <=> n < k + 1
    BY <1>1, <1>2 DEF Resolved
  <2>4. Refs' = Refs /\ \A n : SameName(n)' = SameName(n) /\ Earlier(n)' = Earlier(n)
    BY <1>1, Fixed
  <2> QED BY <1>1, <2>2, <2>3, <2>4 DEF Warnings
<1> QED BY <1>2, <1>4, <1>5, <1>6, <1>7, <1>8, <1>9, <1>10, <1>11, <1>12, <1>13 DEF Inv

(* Only a named capture changes what was seen.                              *)
LEMMA NoneSeen ==
  ASSUME Inv, Visit("resolve"), WalkOn, NEW k, k = Place, k \notin NamedCaptures,
         UNCHANGED <<pattern, captures, seen>>
  PROVE  NamesSeen'
<1>1. /\ PatternOK /\ Walking /\ todo # <<>> /\ pass = "resolve" /\ k \in Nodes /\ k = Place
      /\ UNCHANGED <<pattern, entries, dict, seen>>
  BY ResolveAt DEF captures
<1>2. PICK l : l = k + 1 /\ Place' = l
  BY <1>1, WalkGoesOn
<1>3. \A b : k \notin Named(b)
  BY DEF Named
<1>4. \A b : Before(Named(b), l) = Before(Named(b), k)
  BY <1>1, <1>2, <1>3, OneMoreOf
<1>5. \A b : Before(Named(b), Place)' = Before(Named(b), Place)
  BY <1>1, <1>2, <1>4, Fixed DEF Before
<1>6. \A b : (Cardinality(Before(Named(b), Place)))' = Cardinality(Before(Named(b), Place))
  BY <1>5
<1> QED BY <1>1, <1>6, Fixed DEF Inv, NamesSeen

LEMMA OneSeen ==
  ASSUME Inv, Visit("resolve"), WalkOn, NEW k, k = Place, k \in NamedCaptures,
         seen' = [seen EXCEPT ![dict[label[k].name]] = @ + 1],
         dict[label[k].name] # 0, label[k].name \in Names,
         UNCHANGED <<pattern, captures>>
  PROVE  NamesSeen'
<1>1. /\ PatternOK /\ Walking /\ todo # <<>> /\ pass = "resolve" /\ k \in Nodes /\ k = Place
      /\ UNCHANGED <<pattern, entries, dict>> /\ has_named_captures
  BY ResolveAt DEF captures, has_named_captures
<1>2. PICK a, e : a = label[k].name /\ e = dict[a]
  OBVIOUS
<1>3. PICK l : l = k + 1 /\ Place' = l
  BY <1>1, WalkGoesOn
<1>4. k \in Named(a) /\ \A b \in Names : b # a => k \notin Named(b)
  BY <1>2 DEF Named
<1>5. /\ \A b : Cardinality(Before(Named(b), k)) \in Nat
      /\ Cardinality(Before(Named(a), l)) = Cardinality(Before(Named(a), k)) + 1
      /\ \A b \in Names : b # a => Before(Named(b), l) = Before(Named(b), k)
  BY <1>1, <1>3, <1>4, OneMoreOf
<1>6. /\ seen \in [1 .. Len(entries) -> Nat]
      /\ \A b \in Names : dict[b] # 0 =>
           seen[dict[b]] = Cardinality(Before(Named(b), k)) /\ dict[b] \in 1 .. Len(entries)
      /\ \A b \in Names : dict[b] = e => b = a
  BY <1>1, <1>2 DEF Inv, NamesSeen, NamesCollected
<1>7. e \in 1 .. Len(entries) /\ seen[e] = Cardinality(Before(Named(a), k)) /\ seen[e] \in Nat
  BY <1>2, <1>6
<1>8. /\ seen' \in [1 .. Len(entries) -> Nat] /\ seen'[e] = Cardinality(Before(Named(a), l))
      /\ \A i \in 1 .. Len(entries) : i # e => seen'[i] = seen[i]
  <2>1. PICK v : v = seen[e] + 1 /\ v \in Nat
    BY <1>7
  <2>2. seen' = [seen EXCEPT ![e] = v]
    BY <1>2, <2>1
  <2> QED BY <1>5, <1>6, <1>7, <2>1, <2>2
<1>9. \A b \in Names : dict[b] # 0 => seen'[dict[b]] = Cardinality(Before(Named(b), l))
  BY <1>2, <1>5, <1>6, <1>8
<1>a. \A b : Before(Named(b), Place)' = Before(Named(b), l)
  BY <1>1, <1>3, Fixed DEF Before
<1>10. \A b : (Cardinality(Before(Named(b), Place)))' = Cardinality(Before(Named(b), l))
  BY <1>a
<1> QED BY <1>1, <1>8, <1>9, <1>10 DEF NamesSeen

(* What is wrong with a reference, and with a call.                         *)
LEMMA WrongRef ==
  ASSUME PatternOK, NEW n \in Refs
  PROVE  /\ label[n].target \in {"name", "number"} /\ n \notin Captures /\ n \notin Calls
         /\ (label[n].target = "name") # has_named_captures => Wrong(n) = Invalid[label[n].kind]
         /\ label[n].target = "name" /\ has_named_captures =>
              Wrong(n) = IF Earlier(n) = {} THEN Undefined[label[n].kind] ELSE "none"
         /\ label[n].target = "number" /\ ~has_named_captures =>
              Wrong(n) = IF label[n].number \in 1 .. Cardinality(Captures)
                         THEN "none"
                         ELSE Undefined[label[n].kind]
         /\ Invalid[label[n].kind] # "none" /\ Undefined[label[n].kind] # "none"
<1>1. label[n] \in Label /\ label[n].kind \in {"back_ref", "conditional"}
  BY PatternFacts DEF Refs
<1>2. label[n].target \in {"name", "number"} /\ n \notin Captures /\ n \notin Calls
      /\ has_named_captures \in BOOLEAN
  BY <1>1, LabelFacts DEF Captures, Calls, has_named_captures
<1>3. label[n].target # "root"
  BY <1>2
<1>4. (label[n].target = "name") # has_named_captures => Wrong(n) = Invalid[label[n].kind]
  BY <1>2, <1>3 DEF Wrong
<1>5. label[n].target = "name" /\ has_named_captures =>
        Wrong(n) = IF Earlier(n) = {} THEN Undefined[label[n].kind] ELSE "none"
  BY <1>2, <1>3 DEF Wrong
<1>6. label[n].target = "number" /\ ~has_named_captures =>
        Wrong(n) = IF label[n].number \in 1 .. Cardinality(Captures)
                   THEN "none"
                   ELSE Undefined[label[n].kind]
  BY <1>2, <1>3 DEF Wrong
<1>7. Invalid[label[n].kind] # "none" /\ Undefined[label[n].kind] # "none"
  BY <1>1 DEF Invalid, Undefined
<1> QED BY <1>2, <1>4, <1>5, <1>6, <1>7

LEMMA WrongCall ==
  ASSUME PatternOK, NEW n \in Calls
  PROVE  /\ label[n].target \in {"name", "number", "root"} /\ n \notin Captures /\ n \notin Refs
         /\ label[n].target = "root" => Wrong(n) = "none"
         /\ label[n].target # "root" /\ (label[n].target = "name") # has_named_captures =>
              Wrong(n) = "invalid_subexp_call"
         /\ label[n].target = "name" /\ has_named_captures =>
              Wrong(n) = IF SameName(n) = {} THEN "undefined_subexp_call"
                         ELSE IF Cardinality(SameName(n)) > 1 THEN "invalid_subexp_call"
                         ELSE "none"
         /\ label[n].target = "number" /\ ~has_named_captures =>
              Wrong(n) = IF label[n].number \in 1 .. Cardinality(Captures)
                         THEN "none"
                         ELSE "undefined_subexp_call"
<1>1. label[n] \in Label /\ label[n].kind = "call"
  BY PatternFacts DEF Calls
<1>2. label[n].target \in {"name", "number", "root"} /\ n \notin Captures /\ n \notin Refs
      /\ has_named_captures \in BOOLEAN
  BY <1>1, LabelFacts DEF Captures, Refs, has_named_captures
<1>3. label[n].target = "root" => Wrong(n) = "none"
  BY DEF Wrong
<1>4. label[n].target # "root" /\ (label[n].target = "name") # has_named_captures =>
        Wrong(n) = "invalid_subexp_call"
  BY <1>2 DEF Wrong
<1>5. label[n].target = "name" /\ has_named_captures =>
        Wrong(n) = IF SameName(n) = {} THEN "undefined_subexp_call"
                   ELSE IF Cardinality(SameName(n)) > 1 THEN "invalid_subexp_call"
                   ELSE "none"
  BY <1>2 DEF Wrong
<1>6. label[n].target = "number" /\ ~has_named_captures =>
        Wrong(n) = IF label[n].number \in 1 .. Cardinality(Captures)
                   THEN "none"
                   ELSE "undefined_subexp_call"
  BY <1>2 DEF Wrong
<1> QED BY <1>2, <1>3, <1>4, <1>5, <1>6

(* The entry of a name while the references are resolved.                   *)
LEMMA EntryFacts ==
  ASSUME Inv, pass \in {"resolve", "done"}, has_named_captures, NEW a \in Names
  PROVE  /\ dict[a] \in Nat /\ IsFiniteSet(Named(a)) /\ Cardinality(Named(a)) \in Nat
         /\ dict[a] # 0 <=> Named(a) # {}
         /\ dict[a] # 0 =>
              /\ dict[a] \in 1 .. Len(entries)
              /\ Len(entries[dict[a]].nums) = Cardinality(Named(a))
              /\ entries[dict[a]].nums \in Seq(Nat \ {0})
              /\ \A c \in Named(a) : entries[dict[a]].nums[Cardinality(Upto(Named(a), c))] = NumberOf(c)
<1>1. PatternOK /\ RoomForAll /\ N \in Nat /\ NamedCaptures \subseteq 1 .. N
  BY PatternFacts DEF Inv
<1>2. dict[a] \in Nat /\ entries \in Seq(Entry)
  BY <1>1 DEF RoomForAll
<1>3. Named(a) \subseteq 1 .. N
  BY <1>1 DEF Named
<1>4. IsFiniteSet(Named(a)) /\ Cardinality(Named(a)) \in Nat
  BY <1>1, <1>3, Subsets
<1>5. /\ dict[a] # 0 <=> Named(a) # {}
      /\ dict[a] # 0 =>
           /\ dict[a] \in 1 .. Len(entries)
           /\ Len(entries[dict[a]].nums) = Cardinality(Named(a))
           /\ \A c \in Named(a) : entries[dict[a]].nums[Cardinality(Upto(Named(a), c))] = NumberOf(c)
  BY DEF Inv, NamesCollected, Collected, EntryOf
<1>6. dict[a] # 0 => entries[dict[a]].nums \in Seq(Nat \ {0})
  <2>1. PICK e : e = dict[a]
    OBVIOUS
  <2>2. \A f \in Entry : f.nums \in Seq(Nat \ {0})
    BY DEF Entry
  <2>3. e \in 1 .. Len(entries) => entries[e] \in Entry
    BY <1>2
  <2> QED BY <1>5, <2>1, <2>2, <2>3
<1> QED BY <1>2, <1>4, <1>5, <1>6

(* The captures of a name that have begun, as resolve_back_ref counts them. *)
LEMMA CountOfName ==
  ASSUME Inv, Visit("resolve"), NEW k, k = Place, k \in Refs, has_named_captures,
         label[k].target = "name", NEW e, e = dict[label[k].name],
         NEW count, count = IF e = 0 THEN 0 ELSE seen[e]
  PROVE  /\ e \in Nat /\ count \in Nat /\ count = Cardinality(Earlier(k))
         /\ count = 0 <=> Earlier(k) = {}
         /\ count > 0 => (HasLater(e) <=> Earlier(k) # SameName(k))
<1>1. PatternOK /\ pass = "resolve" /\ k \in Nodes /\ label[k] \in Label /\ Nodes = 1 .. N /\ N \in Nat
  BY ResolveAt
<1>2. PICK a : a = label[k].name
  OBVIOUS
<1>3. a \in Names /\ SameName(k) = Named(a) /\ Earlier(k) = Before(Named(a), k) /\ e = dict[a]
  BY <1>1, <1>2, LabelFacts, SameNames
<1>4. /\ e \in Nat /\ IsFiniteSet(Named(a)) /\ Cardinality(Named(a)) \in Nat
      /\ e # 0 <=> Named(a) # {}
      /\ e # 0 => Len(entries[e].nums) = Cardinality(Named(a))
  BY <1>1, <1>3, EntryFacts
<1>5. IsFiniteSet(Earlier(k)) /\ Cardinality(Earlier(k)) \in Nat /\ Earlier(k) \in SUBSET Named(a)
  <2>1. PICK l : l = k + 1
    OBVIOUS
  <2>2. IsFiniteSet(Before(Named(a), k)) /\ Cardinality(Before(Named(a), k)) \in Nat
    BY <1>1, <2>1, OneMoreOf
  <2>3. Before(Named(a), k) \in SUBSET Named(a)
    BY DEF Before
  <2> QED BY <1>3, <2>2, <2>3
<1>6. Cardinality(Earlier(k)) = 0 <=> Earlier(k) = {}
  BY <1>5, FS_EmptySet
<1>7. e # 0 => seen[e] = Cardinality(Earlier(k))
  BY <1>1, <1>3 DEF Inv, NamesSeen
<1>8. count = Cardinality(Earlier(k))
  <2>1. e = 0 => Earlier(k) = {}
    BY <1>4, <1>5
  <2> QED BY <1>6, <1>7, <2>1
<1>9. ASSUME count > 0
      PROVE  HasLater(e) <=> Earlier(k) # SameName(k)
  <2>1. e # 0 /\ seen[e] = Cardinality(Earlier(k)) /\ Len(entries[e].nums) = Cardinality(Named(a))
    BY <1>4, <1>7, <1>9
  <2>2. /\ Cardinality(Earlier(k)) <= Cardinality(Named(a))
        /\ Cardinality(Earlier(k)) = Cardinality(Named(a)) => Earlier(k) = Named(a)
    BY <1>4, <1>5, FS_Subset
  <2>3. Cardinality(Earlier(k)) < Cardinality(Named(a)) <=> Earlier(k) # Named(a)
    BY <1>4, <1>5, <2>2
  <2> QED BY <1>3, <2>1, <2>3 DEF HasLater
<1> QED BY <1>4, <1>5, <1>6, <1>8, <1>9

LEMMA ResolveRefKeeps ==
  ASSUME Inv, Visit("resolve"), NEW k, k = Place, k \in Refs, ResolveRef(k), next' = 0,
         UNCHANGED <<pattern, type, num, num_capture_groups, captures>>
  PROVE  Inv'
<1>1. /\ PatternOK /\ k \in Nodes /\ label[k] \in Label /\ UNCHANGED pattern
      /\ num_capture_groups = Cardinality(Counted) /\ Nodes = 1 .. N /\ N \in Nat /\ pass = "resolve"
      /\ UNCHANGED <<entries, cap, dict>>
  BY ResolveAt DEF captures
<1>2. k \notin Captures /\ k \notin Calls /\ k \notin NamedCaptures
  BY <1>1, WrongRef, PatternFacts
<1>3. ref \in [Nodes -> [entry : Nat, count : Nat, num : Nat]]
  BY DEF Inv, TreeOK
<1>4. ASSUME NEW r \in [entry : Nat, count : Nat, num : Nat], Resolve(k, r),
             RefRight(k)', Wrong(k) = "none",
             warned' = warned \cup {n \in Refs : n = k /\ Earlier(n) # SameName(n)}
      PROVE  Inv'
  <2>1. WalkOn /\ UNCHANGED <<seen, error>> /\ ref' = [ref EXCEPT ![k] = r]
    BY <1>4 DEF Resolve
  <2>2. /\ ref' \in [Nodes -> [entry : Nat, count : Nat, num : Nat]]
        /\ \A n \in Nodes : n # k => ref'[n] = ref[n]
    BY <1>1, <1>3, <2>1
  <2>3. NamesSeen'
    BY <1>2, <2>1, NoneSeen
  <2> QED BY <1>2, <1>4, <2>1, <2>2, <2>3, ResolveGoesOn
<1>5. CASE label[k].target = "name" /\ has_named_captures
  <2>1. PICK e : e = dict[label[k].name]
    OBVIOUS
  <2>2. PICK count : count = IF e = 0 THEN 0 ELSE seen[e]
    OBVIOUS
  <2>3. /\ e \in Nat /\ count \in Nat /\ count = Cardinality(Earlier(k))
        /\ count = 0 <=> Earlier(k) = {}
        /\ count > 0 => (HasLater(e) <=> Earlier(k) # SameName(k))
    BY <1>5, <2>1, <2>2, CountOfName
  <2>4. Wrong(k) = IF Earlier(k) = {} THEN Undefined[label[k].kind] ELSE "none"
    BY <1>1, <1>5, WrongRef
  <2>5. PICK r : r = [entry |-> e, count |-> count, num |-> 0]
    OBVIOUS
  <2>6. \/ count = 0 /\ Fail(Undefined[label[k].kind], k) /\ UNCHANGED <<ref, warned>>
        \/ count > 0 /\ ~HasLater(e) /\ Resolve(k, r) /\ UNCHANGED warned
        \/ /\ count > 0 /\ HasLater(e)
           /\ warned' = warned \cup {k}
           /\ Resolve(k, r) \/ (Fail("raised", 0) /\ UNCHANGED ref)
    BY <1>5, <2>1, <2>2, <2>5 DEF ResolveRef, ResolveToName
  <2>7. CASE count = 0 /\ Fail(Undefined[label[k].kind], k) /\ UNCHANGED <<ref, warned>>
    <3>1. Wrong(k) = Undefined[label[k].kind] /\ Wrong(k) # "none"
      BY <1>1, <2>3, <2>4, <2>7, WrongRef
    <3> QED BY <2>7, <3>1, WrongFails
  <2>8. CASE count > 0 /\ Fail("raised", 0) /\ UNCHANGED ref
    <3>1. ErrorFound'
      BY <2>8, OtherErrors
    <3> QED BY <2>8, <3>1, ResolveFails
  <2>9. CASE /\ count > 0 /\ Resolve(k, r)
             /\ \/ ~HasLater(e) /\ UNCHANGED warned
                \/ HasLater(e) /\ warned' = warned \cup {k}
    <3>1. Wrong(k) = "none"
      BY <2>3, <2>4, <2>9
    <3>2. r \in [entry : Nat, count : Nat, num : Nat] /\ r.entry = e /\ r.count = count
      BY <2>3, <2>5
    <3>3. RefRight(k)'
      <4>1. ref'[k] = r
        BY <1>1, <1>3, <2>9 DEF Resolve
      <4>2. has_named_captures' /\ dict' = dict /\ label' = label /\ Earlier(k)' = Earlier(k)
        BY <1>1, <1>5, Fixed
      <4> QED BY <2>1, <2>3, <3>2, <4>1, <4>2 DEF RefRight
    <3>4. warned' = warned \cup {n \in Refs : n = k /\ Earlier(n) # SameName(n)}
      BY <2>3, <2>9
    <3> QED BY <1>4, <2>9, <3>1, <3>2, <3>3, <3>4
  <2> QED BY <2>6, <2>7, <2>8, <2>9
<1>6. CASE label[k].target = "number" /\ ~has_named_captures
  <2>1. PICK i : i = label[k].number /\ i \in Nat
    BY <1>1, LabelFacts
  <2>2. Counted = Captures /\ Cardinality(Captures) \in Nat
    BY <1>1, <1>6, NumberFacts DEF Counted
  <2>3. IsCaptureNum(i) <=> i \in 1 .. Cardinality(Captures)
    BY <1>1, <2>1, <2>2 DEF IsCaptureNum
  <2>4. Wrong(k) = IF i \in 1 .. Cardinality(Captures) THEN "none" ELSE Undefined[label[k].kind]
    BY <1>1, <1>6, <2>1, WrongRef
  <2>5. PICK r : r = [entry |-> i, count |-> 1, num |-> 0]
    OBVIOUS
  <2>6. /\ \/ IsCaptureNum(i) /\ Resolve(k, r)
           \/ ~IsCaptureNum(i) /\ Fail(Undefined[label[k].kind], k) /\ UNCHANGED ref
        /\ UNCHANGED warned
    BY <1>1, <1>6, <2>1, <2>5 DEF ResolveRef, ResolveToNumber
  <2>7. CASE ~IsCaptureNum(i) /\ Fail(Undefined[label[k].kind], k) /\ UNCHANGED ref
    <3>1. Wrong(k) = Undefined[label[k].kind] /\ Wrong(k) # "none"
      BY <1>1, <2>3, <2>4, <2>7, WrongRef
    <3> QED BY <2>7, <3>1, WrongFails
  <2>8. CASE IsCaptureNum(i) /\ Resolve(k, r)
    <3>1. Wrong(k) = "none"
      BY <2>3, <2>4, <2>8
    <3>2. r \in [entry : Nat, count : Nat, num : Nat] /\ r.entry = i /\ r.count = 1
      BY <2>1, <2>5
    <3>3. RefRight(k)'
      <4>1. ref'[k] = r
        BY <1>1, <1>3, <2>8 DEF Resolve
      <4>2. ~has_named_captures' /\ label' = label
        BY <1>1, <1>6, Fixed
      <4> QED BY <2>1, <3>2, <4>1, <4>2 DEF RefRight
    <3>4. warned' = warned \cup {n \in Refs : n = k /\ Earlier(n) # SameName(n)}
      <4>1. Earlier(k) = SameName(k)
        BY <1>6 DEF has_named_captures, Earlier, SameName
      <4> QED BY <2>6, <4>1
    <3> QED BY <1>4, <2>8, <3>1, <3>2, <3>3, <3>4
  <2> QED BY <2>6, <2>7, <2>8
<1>7. CASE (label[k].target = "name") # has_named_captures
  <2>1. Fail(Invalid[label[k].kind], k) /\ UNCHANGED ref
    BY <1>1, <1>7, WrongRef DEF ResolveRef, has_named_captures
  <2>2. Wrong(k) = Invalid[label[k].kind] /\ Wrong(k) # "none"
    BY <1>1, <1>7, WrongRef
  <2> QED BY <2>1, <2>2, WrongFails
<1>8. label[k].target \in {"name", "number"} /\ has_named_captures \in BOOLEAN
  BY <1>1, WrongRef DEF has_named_captures
<1> QED BY <1>5, <1>6, <1>7, <1>8

LEMMA CallOfName ==
  ASSUME Inv, pass = "resolve", NEW k \in Calls, has_named_captures, label[k].target = "name"
  PROVE  /\ CallError(k) = Wrong(k)
         /\ Wrong(k) = "none" => Callee(k) \in Nat /\ \A c \in SameName(k) : Callee(k) = NumberOf(c)
<1>1. PatternOK /\ label[k] \in Label
  BY PatternFacts DEF Inv, Calls
<1>2. PICK a, e : a = label[k].name /\ e = dict[a]
  OBVIOUS
<1>3. a \in Names /\ SameName(k) = Named(a)
  BY <1>1, <1>2, LabelFacts, SameNames
<1>4. /\ e \in Nat /\ IsFiniteSet(Named(a)) /\ Cardinality(Named(a)) \in Nat
      /\ e # 0 <=> Named(a) # {}
      /\ e # 0 => /\ e \in 1 .. Len(entries)
                  /\ Len(entries[e].nums) = Cardinality(Named(a))
                  /\ entries[e].nums \in Seq(Nat \ {0})
                  /\ \A c \in Named(a) : entries[e].nums[Cardinality(Upto(Named(a), c))] = NumberOf(c)
  BY <1>2, <1>3, EntryFacts
<1>5. Wrong(k) = IF Named(a) = {} THEN "undefined_subexp_call"
                 ELSE IF Cardinality(Named(a)) > 1 THEN "invalid_subexp_call"
                 ELSE "none"
  BY <1>1, <1>3, WrongCall
<1>6. CallError(k) = IF e = 0 THEN "undefined_subexp_call"
                     ELSE IF Len(entries[e].nums) # 1 THEN "invalid_subexp_call"
                     ELSE "none"
  BY <1>2 DEF CallError
<1>7. Named(a) # {} => Cardinality(Named(a)) # 0
  BY <1>4, FS_EmptySet
<1>a. PICK m, n : m = Cardinality(Named(a)) /\ n = Len(entries[e].nums)
  OBVIOUS
<1>b. m \in Nat /\ (Named(a) # {} => m # 0 /\ n = m /\ e # 0) /\ (Named(a) = {} => e = 0)
  BY <1>4, <1>7, <1>a
<1>c. /\ Wrong(k) = IF Named(a) = {} THEN "undefined_subexp_call"
                    ELSE IF m > 1 THEN "invalid_subexp_call"
                    ELSE "none"
      /\ CallError(k) = IF e = 0 THEN "undefined_subexp_call"
                        ELSE IF n # 1 THEN "invalid_subexp_call"
                        ELSE "none"
  BY <1>5, <1>6, <1>a
<1>8. CallError(k) = Wrong(k)
  BY <1>b, <1>c
<1>9. ASSUME Wrong(k) = "none"
      PROVE  Callee(k) \in Nat /\ \A c \in SameName(k) : Callee(k) = NumberOf(c)
  <2>1. e # 0 /\ Len(entries[e].nums) = 1 /\ Cardinality(Named(a)) = 1
    <3>1. Named(a) # {} /\ m = 1
      BY <1>b, <1>c, <1>9
    <3> QED BY <1>a, <1>b, <3>1
  <2>2. Callee(k) = entries[e].nums[1]
    BY <1>2 DEF Callee
  <2>3. Callee(k) \in Nat
    BY <1>4, <2>1, <2>2
  <2>4. Named(a) \subseteq 1 .. N /\ N \in Nat
    BY <1>1, PatternFacts DEF Named
  <2>5. \A c \in Named(a) : Cardinality(Upto(Named(a), c)) = 1
    BY <2>1, <2>4, Ranks
  <2>6. \A c \in Named(a) : entries[e].nums[1] = NumberOf(c)
    BY <1>4, <2>1, <2>5
  <2> QED BY <1>3, <2>2, <2>3, <2>6
<1> QED BY <1>8, <1>9

LEMMA ResolveCallKeeps ==
  ASSUME Inv, Visit("resolve"), NEW k, k = Place, k \in Calls, ResolveCall(k), next' = 0,
         UNCHANGED <<pattern, type, num, num_capture_groups, captures>>
  PROVE  Inv'
<1>1. /\ PatternOK /\ k \in Nodes /\ label[k] \in Label /\ UNCHANGED pattern
      /\ num_capture_groups = Cardinality(Counted) /\ pass = "resolve"
      /\ UNCHANGED <<entries, cap, dict>>
  BY ResolveAt DEF captures
<1>2. k \notin Captures /\ k \notin Refs /\ k \notin NamedCaptures
  BY <1>1, WrongCall, PatternFacts
<1>3. label[k].target \in {"name", "number", "root"} /\ label[k].number \in Nat
      /\ has_named_captures \in BOOLEAN
  BY <1>1, WrongCall, LabelFacts DEF has_named_captures
<1>4. /\ CallError(k) = Wrong(k)
      /\ Wrong(k) = "none" =>
           /\ Callee(k) \in Nat
           /\ label[k].target = "root" => Callee(k) = 0
           /\ label[k].target = "number" => Callee(k) = label[k].number
           /\ label[k].target = "name" => \A c \in SameName(k) : Callee(k) = NumberOf(c)
  <2>1. CASE label[k].target = "root"
    BY <1>1, <2>1, WrongCall DEF CallError, Callee
  <2>2. CASE label[k].target # "root" /\ (label[k].target = "name") # has_named_captures
    <3>1. Wrong(k) = "invalid_subexp_call"
      BY <1>1, <2>2, WrongCall
    <3>2. CallError(k) = "invalid_subexp_call"
      BY <1>3, <2>2 DEF CallError
    <3> QED BY <3>1, <3>2
  <2>3. CASE label[k].target = "name" /\ has_named_captures
    BY <1>1, <2>3, CallOfName
  <2>4. CASE label[k].target = "number" /\ ~has_named_captures
    <3>1. Counted = Captures /\ Cardinality(Captures) \in Nat
      BY <1>1, <2>4, NumberFacts DEF Counted
    <3>2. IsCaptureNum(label[k].number) <=> label[k].number \in 1 .. Cardinality(Captures)
      BY <1>1, <1>3, <3>1 DEF IsCaptureNum
    <3>3. CallError(k) = IF ~IsCaptureNum(label[k].number) THEN "undefined_subexp_call" ELSE "none"
      BY <2>4 DEF CallError
    <3>4. Callee(k) = label[k].number
      BY <2>4 DEF Callee
    <3>5. Wrong(k) = IF label[k].number \in 1 .. Cardinality(Captures)
                     THEN "none"
                     ELSE "undefined_subexp_call"
      BY <1>1, <2>4, WrongCall
    <3> QED BY <1>3, <2>4, <3>2, <3>3, <3>4, <3>5
  <2> QED BY <1>3, <2>1, <2>2, <2>3, <2>4
<1>5. CASE CallError(k) # "none" /\ Fail(CallError(k), k) /\ UNCHANGED ref
  <2>1. Wrong(k) # "none" /\ Fail(Wrong(k), k)
    BY <1>4, <1>5
  <2> QED BY <1>5, <2>1, WrongFails
<1>6. CASE CallError(k) = "none" /\ Resolve(k, [entry |-> 0, count |-> 0, num |-> Callee(k)]) /\ UNCHANGED warned
  <2>1. PICK r : r = [entry |-> 0, count |-> 0, num |-> Callee(k)]
    OBVIOUS
  <2>2. Wrong(k) = "none" /\ r \in [entry : Nat, count : Nat, num : Nat] /\ r.num = Callee(k)
    BY <1>4, <1>6, <2>1
  <2>3. WalkOn /\ UNCHANGED <<seen, error>> /\ ref' = [ref EXCEPT ![k] = r]
    BY <1>6, <2>1 DEF Resolve
  <2>4. /\ ref' \in [Nodes -> [entry : Nat, count : Nat, num : Nat]] /\ ref'[k] = r
        /\ \A n \in Nodes : n # k => ref'[n] = ref[n]
    BY <1>1, <2>2, <2>3 DEF Inv, TreeOK
  <2>5. NamesSeen'
    BY <1>2, <2>3, NoneSeen
  <2>6. CallRight(k)'
    <3>1. label' = label /\ SameName(k)' = SameName(k) /\ \A c : NumberOf(c)' = NumberOf(c)
      BY <1>1, Fixed
    <3> QED BY <1>3, <1>4, <2>2, <2>4, <3>1 DEF CallRight
  <2>7. warned' = warned \cup {n \in Refs : n = k /\ Earlier(n) # SameName(n)}
    BY <1>2, <1>6
  <2> QED BY <1>2, <2>2, <2>3, <2>4, <2>5, <2>6, <2>7, ResolveGoesOn
<1> QED BY <1>5, <1>6 DEF ResolveCall

LEMMA ResolveNodeKeeps ==
  ASSUME Inv, ResolveNode
  PROVE  Inv'
<1>1. PICK k : k = Place
  OBVIOUS
<1>2. /\ Visit("resolve") /\ next' = 0
      /\ UNCHANGED <<pattern, type, num, num_capture_groups, captures>> /\ UNCHANGED pattern
  BY DEF ResolveNode
<1>3. /\ PatternOK /\ k \in Nodes /\ Node = k /\ type[k] = TypeOf(k) /\ label[k] \in Label
      /\ pass = "resolve"
  BY <1>1, <1>2, ResolveAt
<1>4. CASE type[k] \in {"back_ref", "conditional"}
  <2>1. k \in Refs /\ ResolveRef(k)
    BY <1>2, <1>3, <1>4 DEF ResolveNode, TypeOf, Refs
  <2> QED BY <1>1, <1>2, <2>1, ResolveRefKeeps
<1>5. CASE type[k] = "call"
  <2>1. k \in Calls /\ ResolveCall(k)
    BY <1>2, <1>3, <1>5 DEF ResolveNode, TypeOf, Calls
  <2> QED BY <1>1, <1>2, <2>1, ResolveCallKeeps
<1>6. ASSUME k \in Captures, WalkOn, NamesSeen', UNCHANGED <<ref, error, warned>>
      PROVE  Inv'
  <2>1. Wrong(k) = "none" /\ k \notin Refs /\ k \notin Calls
    BY <1>6 DEF Wrong, Captures, Refs, Calls
  <2>2. ref' \in [Nodes -> [entry : Nat, count : Nat, num : Nat]] /\ \A n \in Nodes : ref'[n] = ref[n]
    BY <1>6 DEF Inv, TreeOK
  <2>3. warned' = warned \cup {n \in Refs : n = k /\ Earlier(n) # SameName(n)}
    BY <1>6, <2>1
  <2> QED BY <1>1, <1>2, <1>6, <2>1, <2>2, <2>3, ResolveGoesOn
<1>7. CASE type[k] = "capture"
  <2>1. k \in Captures /\ PassCapture(k)
    BY <1>2, <1>3, <1>7 DEF ResolveNode, TypeOf, Captures
  <2>2. CASE label[k].name \in Names
    <3>1. k \in NamedCaptures /\ k \in Named(label[k].name) /\ has_named_captures
      BY <2>1, <2>2, PostprocessAssumption DEF NamedCaptures, Named, has_named_captures
    <3>2. dict[label[k].name] # 0
      BY <1>3, <2>2, <3>1, EntryFacts
    <3>3. /\ seen' = [seen EXCEPT ![dict[label[k].name]] = @ + 1]
          /\ WalkOn /\ UNCHANGED <<ref, error, warned>>
      BY <2>1, <2>2, <3>2, PostprocessAssumption DEF PassCapture
    <3>4. NamesSeen'
      BY <1>1, <1>2, <2>2, <3>1, <3>2, <3>3, OneSeen
    <3> QED BY <1>6, <2>1, <3>3, <3>4
  <2>3. CASE label[k].name \notin Names
    <3>1. label[k].name = NoName /\ k \notin NamedCaptures
      BY <1>3, <2>3, LabelFacts DEF NamedCaptures
    <3>2. WalkOn /\ UNCHANGED <<ref, seen, error, warned>>
      BY <2>1, <2>3 DEF PassCapture
    <3>3. NamesSeen'
      BY <1>1, <1>2, <3>1, <3>2, NoneSeen
    <3> QED BY <1>6, <2>1, <3>2, <3>3
  <2> QED BY <2>2, <2>3
<1>8. CASE type[k] = "group"
  <2>1. k \in Captures /\ k \notin NamedCaptures
    <3>1. label[k].kind # "group"
      BY <1>3, LabelFacts DEF Kinds
    <3> QED BY <1>3, <1>8, <3>1 DEF TypeOf, Captures, NamedCaptures
  <2>2. WalkOn /\ UNCHANGED <<ref, seen, error, warned>>
    BY <1>2, <1>3, <1>8 DEF ResolveNode
  <2>3. NamesSeen'
    BY <1>1, <1>2, <2>1, <2>2, NoneSeen
  <2> QED BY <1>6, <2>1, <2>2, <2>3
<1> QED BY <1>3, <1>4, <1>5, <1>7, <1>8 DEF ResolveNode

LEMMA ResolveDoneKeeps ==
  ASSUME Inv, ResolveDone
  PROVE  Inv'
<1>1. /\ PatternOK /\ Walking /\ UNCHANGED pattern /\ todo = <<>>
      /\ pass = "resolve" /\ pass' = "done"
      /\ UNCHANGED <<type, num, ref, num_capture_groups, entries, cap, dict, todo, next, error, warned>>
  BY DEF Inv, ResolveDone, WalkDone, tree, captures
<1>2. PatternOK' /\ Walking' /\ \A n \in Nodes : n < Place
  BY <1>1, WalkEnds, WalkFacts, Fixed
<1>3. \A n \in Nodes : Resolved(n) /\ Resolved(n)' /\ ~Cleared(n)'
  BY <1>1, <1>2 DEF Resolved, Cleared
<1>4. TreeOK'
  BY <1>1, Fixed DEF Inv, TreeOK
<1>5. PassOK'
  BY <1>1 DEF PassOK
<1>6. TypesKept'
  BY <1>1, Fixed DEF Inv, TypesKept, Numbered, Numbers
<1>7. NumbersGiven'
  BY <1>1, Fixed DEF Inv, NumbersGiven, Numbered, Numbers
<1>8. RoomForAll' /\ NamesSeen'
  BY <1>1 DEF Inv, RoomForAll, NamesSeen
<1>9. NamesCollected'
  <2>1. \A b : Collected(b)' = Collected(b)
    BY <1>1, Fixed DEF Collected
  <2>2. \A b : Named(b)' = Named(b) /\ NumberOf(b)' = NumberOf(b)
    BY <1>1, Fixed
  <2>3. has_named_captures' = has_named_captures
    BY <1>1, Fixed
  <2> QED BY <1>1, <2>1, <2>2, <2>3 DEF Inv, NamesCollected, EntryOf
<1>10. EntriesBuilt'
  BY <1>1, Fixed DEF Inv, EntriesBuilt
<1>11. RefsResolved'
  <2>1. \A n \in Nodes : Wrong(n) = "none" /\ (n \in Refs => RefRight(n)) /\ (n \in Calls => CallRight(n))
    BY <1>3 DEF Inv, RefsResolved
  <2>2. /\ Nodes' = Nodes /\ Refs' = Refs /\ Calls' = Calls /\ label' = label
        /\ has_named_captures' = has_named_captures
        /\ \A n : Wrong(n)' = Wrong(n) /\ SameName(n)' = SameName(n) /\ Earlier(n)' = Earlier(n)
        /\ \A n : NumberOf(n)' = NumberOf(n)
    BY <1>1, Fixed
  <2>3. \A n : RefRight(n)' = RefRight(n)
    BY <1>1, <2>2 DEF RefRight
  <2>4. \A n : CallRight(n)' = CallRight(n)
    BY <1>1, <2>2 DEF CallRight
  <2> QED BY <1>1, <1>3, <2>1, <2>2, <2>3, <2>4 DEF RefsResolved
<1>12. ErrorFound'
  BY <1>1 DEF Inv, ErrorFound
<1>13. Warnings'
  <2>1. Refs' = Refs /\ Refs \subseteq Nodes
    BY <1>1, PatternFacts, Fixed
  <2>2. \A n : SameName(n)' = SameName(n) /\ Earlier(n)' = Earlier(n)
    BY <1>1, Fixed
  <2>3. warned = {n \in Refs : Earlier(n) # SameName(n)}
    BY <1>1, <1>3, <2>1 DEF Inv, Warnings
  <2>4. {n \in Refs' : Resolved(n)' /\ Earlier(n)' # SameName(n)'} = {n \in Refs : Earlier(n) # SameName(n)}
    BY <1>3, <2>1, <2>2
  <2> QED BY <1>1, <2>3, <2>4 DEF Warnings
<1> QED BY <1>2, <1>4, <1>5, <1>6, <1>7, <1>8, <1>9, <1>10, <1>11, <1>12, <1>13 DEF Inv

LEMMA StutterKeeps ==
  ASSUME Inv, UNCHANGED vars
  PROVE  Inv'
<1>1. /\ UNCHANGED pattern /\ pattern' = pattern
      /\ UNCHANGED <<label, level, type, num, ref, num_capture_groups, entries, cap, dict>>
      /\ UNCHANGED <<pass, todo, next, seen, error, warned>>
  BY DEF vars, pattern, tree, captures
<1>2. Place' = Place /\ N' = N /\ \A j : Ahead(j)' = Ahead(j)
  BY <1>1 DEF Place, N, Ahead, Nodes
<1>3. Ahead(Place)' = Ahead(Place)
  BY <1>1, <1>2 DEF Ahead, Nodes
<1>4. PatternOK' /\ Walking' /\ TreeOK' /\ PassOK'
  BY <1>1, <1>2, <1>3, Fixed DEF Inv, Walking, TreeOK, PassOK
<1>5. TypesKept'
  BY <1>1, <1>2, Fixed DEF Inv, TypesKept, Numbered
<1>6. NumbersGiven'
  <2>1. (Cardinality(Before(Counted, Place)))' = Cardinality(Before(Counted, Place))
    BY <1>1, <1>2, Fixed DEF Before
  <2> QED BY <1>1, <1>2, <2>1, Fixed DEF Inv, NumbersGiven, Numbered
<1>7. RoomForAll' /\ EntriesBuilt'
  BY <1>1, Fixed DEF Inv, RoomForAll, EntriesBuilt
<1>8. \A b : Before(Named(b), Place)' = Before(Named(b), Place)
  BY <1>1, <1>2, Fixed DEF Before
<1>9. NamesCollected'
  <2>1. \A b : Collected(b)' = Collected(b)
    BY <1>1, <1>8, Fixed DEF Collected
  <2>2. \A b : Named(b)' = Named(b) /\ NumberOf(b)' = NumberOf(b)
    BY <1>1, Fixed
  <2>3. has_named_captures' = has_named_captures
    BY <1>1, Fixed
  <2> QED BY <1>1, <2>1, <2>2, <2>3 DEF Inv, NamesCollected, EntryOf
<1>10. NamesSeen'
  <2>1. \A b : (Cardinality(Before(Named(b), Place)))' = Cardinality(Before(Named(b), Place))
    BY <1>8
  <2> QED BY <1>1, <2>1, Fixed DEF Inv, NamesSeen
<1>11. RefsResolved'
  <2>1. /\ Nodes' = Nodes /\ Refs' = Refs /\ Calls' = Calls
        /\ has_named_captures' = has_named_captures
        /\ \A n : Wrong(n)' = Wrong(n) /\ SameName(n)' = SameName(n) /\ Earlier(n)' = Earlier(n)
        /\ \A n : NumberOf(n)' = NumberOf(n)
    BY <1>1, Fixed
  <2>2. \A n : RefRight(n)' = RefRight(n) /\ CanRead(n)' = CanRead(n)
    BY <1>1, <2>1 DEF RefRight, CanRead
  <2>3. \A n : CallRight(n)' = CallRight(n)
    BY <1>1, <2>1 DEF CallRight
  <2>4. \A n : Cleared(n)' = Cleared(n) /\ Resolved(n)' = Resolved(n)
    BY <1>1, <1>2 DEF Cleared, Resolved
  <2> QED BY <1>1, <2>1, <2>2, <2>3, <2>4 DEF Inv, RefsResolved
<1>12. ErrorFound'
  <2>1. Wrong(error.at)' = Wrong(error.at)
    BY <1>1, Fixed DEF Wrong
  <2> QED BY <1>1, <2>1, Fixed DEF Inv, ErrorFound
<1>13. Warnings'
  BY <1>1, <1>2, Fixed DEF Inv, Warnings, Resolved
<1> QED BY <1>4, <1>5, <1>6, <1>7, <1>9, <1>10, <1>11, <1>12, <1>13 DEF Inv

LEMMA Inductive ==
  ASSUME Inv, [Next]_vars
  PROVE  Inv'
BY PostprocessKeeps, ClearNodeKeeps, ClearDoneKeeps, NumberNodeKeeps, NumberDoneKeeps,
   CollectNodeKeeps, CollectDoneKeeps, BuildEntryKeeps, BuildDoneKeeps,
   CountKeeps, ResolveNodeKeeps, ResolveDoneKeeps, StutterKeeps
   DEF Next, Step

(* The walks of postprocess.c visit the nodes in order, and at each node the *)
(* captures before it are numbered, collected and counted, and the           *)
(* references before it resolved, as the pattern says.                       *)
THEOREM WalksKeepInvariant == Spec => []Inv
<1>1. Init => Inv
  BY InitInv
<1>2. Inv /\ [Next]_vars => Inv'
  BY Inductive
<1> QED BY <1>1, <1>2, PTL DEF Spec

-----------------------------------------------------------------------------
(* What the invariant says of the result.                                   *)

(* No reference is read beyond what its entry holds, not even after a call   *)
(* that failed, and no array is filled beyond its room.                      *)
THEOREM ReferencesAreReadable == Spec => []RefsCanBeRead
<1>1. ASSUME Inv PROVE RefsCanBeRead
  <2>1. ASSUME pass # "clear", NEW n \in Refs
        PROVE  CanRead(n)
    <3>1. n \in Nodes
      BY <1>1, PatternFacts DEF Inv
    <3>2. CASE pass \in {"idle", "failed"}
      BY <1>1, <3>1, <3>2 DEF Inv, RefsResolved
    <3>3. CASE Cleared(n)
      <4>1. ref[n] = Unresolved
        BY <1>1, <3>1, <3>3 DEF Inv, RefsResolved
      <4> QED BY <4>1 DEF CanRead, Unresolved
    <3>4. CASE Resolved(n)
      <4>1. Wrong(n) = "none" /\ RefRight(n)
        BY <1>1, <3>1, <3>4 DEF Inv, RefsResolved
      <4> QED BY <1>1, <3>4, <4>1, RightCanBeRead DEF Resolved
    <3>5. Place \in Nat /\ n \in Nat
      BY <1>1, <3>1, WalkFacts, PatternFacts DEF Inv
    <3> QED BY <1>1, <2>1, <3>2, <3>3, <3>4, <3>5 DEF Inv, PassOK, Cleared, Resolved
  <2> QED BY <1>1, <2>1 DEF Inv, RoomForAll, RefsCanBeRead
<1> QED BY <1>1, WalksKeepInvariant, PTL

(* The numbers that a reference by name is resolved to.                     *)
LEMMA NumbersOfName ==
  ASSUME Inv, pass = "done", NEW n \in Refs, has_named_captures
  PROVE  ToSet(ResolvedNums(n)) = {NumberOf(c) : c \in Earlier(n)}
<1>1. PatternOK /\ n \in Nodes /\ label[n] \in Label /\ Wrong(n) = "none" /\ RefRight(n)
  BY PatternFacts DEF Inv, RefsResolved, Resolved
<1>2. label[n].target = "name" /\ Earlier(n) # {}
  BY <1>1, WrongRef DEF has_named_captures
<1>3. PICK a, e, m : a = label[n].name /\ e = dict[a] /\ m = Cardinality(Earlier(n))
  OBVIOUS
<1>4. PICK S, T : S = Named(a) /\ T = Earlier(n) /\ T = Before(S, n) /\ a \in Names
  BY <1>1, <1>2, <1>3, LabelFacts, SameNames
<1>5. S \subseteq 1 .. N /\ T \subseteq 1 .. N /\ T \subseteq S /\ T # {} /\ N \in Nat /\ n \in Nat
  BY <1>1, <1>2, <1>4, PatternFacts DEF Named, Before
<1>6. PICK s : s = entries[e].nums
  OBVIOUS
<1>7. /\ Len(s) = Cardinality(S) /\ s \in Seq(Nat \ {0})
      /\ \A c \in S : s[Cardinality(Upto(S, c))] = NumberOf(c)
  BY <1>3, <1>4, <1>5, <1>6, EntryFacts
<1>8. m \in Nat /\ m <= Len(s) /\ m # 0
  <2>1. Cardinality(T) <= Cardinality(S)
    BY <1>5, Subsets
  <2>2. IsFiniteSet(T) /\ Cardinality(T) \in Nat
    BY <1>5, Subsets
  <2> QED BY <1>3, <1>4, <1>5, <1>7, <2>1, <2>2, FS_EmptySet
<1>9. ResolvedNums(n) = SubSeq(s, 1, m)
  BY <1>1, <1>3, <1>6, <1>8 DEF ResolvedNums, RefRight
<1>10. PICK t : t = SubSeq(s, 1, m)
  OBVIOUS
<1>11. t \in Seq(Nat \ {0}) /\ Len(t) = m /\ DOMAIN t = 1 .. m /\ \A i \in 1 .. m : t[i] = s[i]
  BY <1>7, <1>8, <1>10
<1>12. \A c \in T : Upto(S, c) = Upto(T, c)
  <2>1. \A c, d \in S : c < n /\ d <= c => d < n
    BY <1>5
  <2>2. \A c \in T : c \in S /\ c < n
    BY <1>4 DEF Before
  <2> QED BY <1>4, <1>5, <2>1, <2>2 DEF Upto, Before
<1>13. /\ \A c \in T : Cardinality(Upto(T, c)) \in 1 .. m
       /\ \A i \in 1 .. m : \E c \in T : Cardinality(Upto(T, c)) = i
  BY <1>3, <1>4, <1>5, Ranks
<1>14. \A c \in T : s[Cardinality(Upto(T, c))] = NumberOf(c)
  BY <1>5, <1>7, <1>12
<1>15. {t[i] : i \in 1 .. m} = {NumberOf(c) : c \in T}
  <2>1. ASSUME NEW i \in 1 .. m PROVE \E c \in T : t[i] = NumberOf(c)
    BY <1>11, <1>13, <1>14
  <2>2. ASSUME NEW c \in T PROVE \E i \in 1 .. m : t[i] = NumberOf(c)
    BY <1>11, <1>13, <1>14
  <2> QED BY <2>1, <2>2
<1> QED BY <1>4, <1>9, <1>10, <1>11, <1>15 DEF ToSet

(* However often the tree was processed, and whatever failed before: each    *)
(* capture that counts has its number, and each reference and call stands    *)
(* for the captures that the pattern means.                                  *)
THEOREM ReferencesAreResolved == Spec => []TargetsFound
<1>1. ASSUME Inv, pass = "done"
      PROVE  /\ num_capture_groups = Cardinality(Counted)
             /\ \A c \in Counted : type[c] = "capture" /\ num[c] = NumberOf(c)
             /\ \A c \in Captures \ Counted : type[c] = "group"
  <2>1. PatternOK /\ Captures \subseteq Nodes /\ Counted \subseteq Captures
    BY <1>1, PatternFacts DEF Inv, Counted
  <2>2. \A n \in Nodes : type[n] = TypeOf(n)
    BY <1>1 DEF Inv, TypesKept, Numbered, Numbers
  <2>3. \A c \in Counted : TypeOf(c) = "capture"
    BY DEF TypeOf, Counted, NamedCaptures, Captures, has_named_captures
  <2>4. \A c \in Captures \ Counted : TypeOf(c) = "group"
    BY DEF TypeOf, Counted, NamedCaptures, Captures
  <2> QED BY <1>1, <2>1, <2>2, <2>3, <2>4 DEF Inv, NumbersGiven, Numbered, Numbers
<1>2. ASSUME Inv, pass = "done", NEW n \in Refs
      PROVE  ToSet(ResolvedNums(n)) = IF label[n].target = "name"
                                      THEN {NumberOf(c) : c \in Earlier(n)}
                                      ELSE {label[n].number}
  <2>1. PatternOK /\ n \in Nodes /\ Wrong(n) = "none" /\ RefRight(n) /\ RoomForAll
    BY <1>2, PatternFacts DEF Inv, RefsResolved, Resolved
  <2>2. (label[n].target = "name") = has_named_captures /\ label[n].target \in {"name", "number"}
    BY <2>1, WrongRef DEF has_named_captures
  <2>3. CASE has_named_captures
    BY <1>2, <2>2, <2>3, NumbersOfName
  <2>4. CASE ~has_named_captures
    <3>1. PICK i : i = label[n].number
      OBVIOUS
    <3>2. i \in 1 .. Cardinality(Captures) /\ Counted = Captures /\ Cardinality(Captures) \in Nat
      BY <2>1, <2>2, <2>4, <3>1, WrongRef, NumberFacts DEF Counted
    <3>3. Len(entries) = Cardinality(Captures)
      BY <1>2, <2>4, <3>2 DEF Inv, EntriesBuilt, NumbersGiven, Numbers
    <3>4. entries[i].nums = <<i>>
      BY <1>2, <2>4, <3>2, <3>3 DEF Inv, EntriesBuilt
    <3>5. ref[n].entry = i /\ ref[n].count = 1
      BY <2>1, <2>4, <3>1 DEF RefRight
    <3>6. ResolvedNums(n) = SubSeq(<<i>>, 1, 1)
      BY <3>4, <3>5 DEF ResolvedNums
    <3>7. PICK t : t = SubSeq(<<i>>, 1, 1)
      OBVIOUS
    <3>8. DOMAIN t = 1 .. 1 /\ t[1] = i
      BY <3>7
    <3>9. ToSet(t) = {i}
      BY <3>8 DEF ToSet
    <3> QED BY <2>2, <2>4, <3>1, <3>6, <3>7, <3>9
  <2> QED BY <2>3, <2>4
<1>3. ASSUME Inv, pass = "done", NEW n \in Calls
      PROVE  /\ label[n].target = "root" => ref[n].num = 0
             /\ label[n].target = "number" => ref[n].num = label[n].number
             /\ label[n].target = "name" => {c \in NamedCaptures : num[c] = ref[n].num} = SameName(n)
  <2>1. PatternOK /\ n \in Nodes /\ Wrong(n) = "none" /\ CallRight(n)
    BY <1>3, PatternFacts DEF Inv, RefsResolved, Resolved
  <2>2. ASSUME label[n].target = "name"
        PROVE  {c \in NamedCaptures : num[c] = ref[n].num} = SameName(n)
    <3>1. has_named_captures /\ Counted = NamedCaptures
      BY <2>1, <2>2, WrongCall DEF has_named_captures, Counted
    <3>2. PICK S : S = SameName(n)
      OBVIOUS
    <3>3. S # {} /\ ~(Cardinality(S) > 1) /\ S \subseteq NamedCaptures /\ NamedCaptures \subseteq 1 .. N /\ N \in Nat
      BY <2>1, <2>2, <3>1, <3>2, WrongCall, PatternFacts DEF SameName
    <3>4. S \subseteq 1 .. N
      BY <3>3
    <3>5. IsFiniteSet(S) /\ Cardinality(S) \in Nat
      BY <3>3, <3>4, Subsets
    <3>6. Cardinality(S) = 1
      BY <3>3, <3>5, FS_EmptySet
    <3>7. PICK d : S = {d}
      BY <3>5, <3>6, FS_Singleton
    <3>8. d \in NamedCaptures /\ ref[n].num = NumberOf(d)
      BY <2>1, <2>2, <3>2, <3>3, <3>7 DEF CallRight
    <3>9. \A c \in NamedCaptures : num[c] = NumberOf(c)
      BY <1>1, <1>3, <3>1
    <3>10. \A c \in NamedCaptures : NumberOf(c) = NumberOf(d) => c = d
      BY <2>1, <3>1, <3>8, NumberFacts
    <3> QED BY <3>2, <3>7, <3>8, <3>9, <3>10
  <2> QED BY <2>1, <2>2 DEF CallRight
<1>4. Inv => TargetsFound
  BY <1>1, <1>2, <1>3 DEF TargetsFound
<1> QED BY <1>4, WalksKeepInvariant, PTL

(* Unless memory ran out or the callback raised, the first node that is      *)
(* wrong is what is reported, and nothing is when none is wrong.             *)
THEOREM ErrorsAreTheFirst == Spec => []FirstWrongIsReported
<1>1. ASSUME Inv, pass = "done"
      PROVE  {n \in Nodes : Wrong(n) # "none"} = {} /\ error = NoError
  BY <1>1 DEF Inv, RefsResolved, Resolved, ErrorFound
<1>2. ASSUME Inv, pass = "failed", error.what \notin {"no_memory", "raised"},
             NEW wrong, wrong = {n \in Nodes : Wrong(n) # "none"}
      PROVE  /\ wrong # {}
             /\ error = [what |-> Wrong(CHOOSE n \in wrong : \A m \in wrong : n <= m),
                         at |-> CHOOSE n \in wrong : \A m \in wrong : n <= m]
  <2>1. PICK k : k = error.at
    OBVIOUS
  <2>2. /\ k \in Nodes /\ error.what = Wrong(k) /\ Wrong(k) # "none"
        /\ \A m \in Nodes : m < k => Wrong(m) = "none"
    BY <1>2, <2>1 DEF Inv, ErrorFound
  <2>a. error = [what |-> Wrong(k), at |-> k]
    BY <1>2, <2>1 DEF Inv, ErrorFound
  <2>3. Nodes = 1 .. N /\ N \in Nat
    BY <1>2, PatternFacts DEF Inv
  <2>4. k \in wrong /\ \A m \in wrong : k <= m
    BY <1>2, <2>2, <2>3
  <2>5. \A n \in wrong : (\A m \in wrong : n <= m) => n = k
    BY <1>2, <2>3, <2>4
  <2>6. (CHOOSE n \in wrong : \A m \in wrong : n <= m) = k
    BY <2>4, <2>5
  <2> QED BY <2>a, <2>4, <2>6
<1>3. Inv => FirstWrongIsReported
  BY <1>1, <1>2 DEF FirstWrongIsReported, NoError
<1> QED BY <1>3, WalksKeepInvariant, PTL

(* The warning callback is called for the references that captures of their  *)
(* name follow, each time, and for no other.                                 *)
THEOREM WarningsAreRight == Spec => []WarnedOfLaterCaptures
<1>1. ASSUME Inv PROVE WarnedOfLaterCaptures
  BY <1>1 DEF Inv, Warnings, Resolved, WarnedOfLaterCaptures
<1> QED BY <1>1, WalksKeepInvariant, PTL
=============================================================================
