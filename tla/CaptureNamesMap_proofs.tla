------------------------ MODULE CaptureNamesMap_proofs ------------------------
(***************************************************************************)
(* CaptureNamesMap implements NameDictionary, for every set of names, every *)
(* hash function and every number of buckets.                               *)
(***************************************************************************)
EXTENDS CaptureNamesMap, FiniteSetTheorems, TLAPS

-----------------------------------------------------------------------------
(* The buckets that a search goes through.                                   *)

(* Each is a bucket of the table.                                            *)
LEMMA ProbeInTable ==
  ASSUME hash \in [Names -> Nat], len \in Nat, len > 0, NEW n \in Names, NEW k \in 0 .. len - 1
  PROVE  Home(n) \in 0 .. len - 1 /\ Probe(n, k) \in 0 .. len - 1
<1>1. Home(n) \in 0 .. len - 1
  BY DEF Home
<1> QED BY <1>1 DEF Probe

(* Every bucket is reached.                                                  *)
LEMMA ProbeReachesAll ==
  ASSUME hash \in [Names -> Nat], len \in Nat, len > 0, NEW n \in Names, NEW i \in 0 .. len - 1
  PROVE  \E k \in 0 .. len - 1 : Probe(n, k) = i
<1> DEFINE k == IF Home(n) <= i THEN i - Home(n) ELSE i - Home(n) + len
<1>1. Home(n) \in 0 .. len - 1
  BY ProbeInTable, 0 \in 0 .. len - 1
<1>2. k \in 0 .. len - 1 /\ Probe(n, k) = i
  BY <1>1 DEF Probe
<1> QED BY <1>2

(* The first of the probes that satisfy a condition, given as a set.         *)
LEMMA FirstOf ==
  ASSUME NEW S \in SUBSET Nat, S # {}
  PROVE  \E k \in S : \A j \in 0 .. k - 1 : j \notin S
<1> DEFINE R == OpToRel(<, Nat)
<1>1. IsWellFoundedOn(R, Nat)
  BY NatLessThanWellFounded
<1>2. \A j, k \in Nat : j < k => <<j, k>> \in R
  BY DEF OpToRel
<1> HIDE DEF R
<1>3. PICK k \in S : \A j \in S : <<j, k>> \notin R
  BY <1>1, WFMin
<1>4. \A j \in S : ~(j < k)
  BY <1>2, <1>3
<1>5. \A j \in 0 .. k - 1 : j \notin S
  BY <1>4
<1> QED BY <1>5

(* The rehash threshold leaves a bucket free.                                *)
LEMMA ThresholdBelow ==
  ASSUME NEW l \in Nat, l > 0
  PROVE  Threshold(l) \in Nat /\ Threshold(l) <= l
<1> DEFINE q == l \div 10
           r == l % 10
           s == (r * 7 + 9) \div 10
<1>1. q \in Nat /\ r \in 0 .. 9 /\ l = 10 * q + r
  OBVIOUS
<1> HIDE DEF q, r
<1>2. s \in Nat /\ 10 * s <= 7 * r + 9
  BY <1>1
<1> HIDE DEF s
<1>3. q * 7 + s <= l
  BY <1>1, <1>2
<1>4. Threshold(l) = q * 7 + s
  BY DEF Threshold, q, r, s
<1> QED BY <1>1, <1>2, <1>3, <1>4

-----------------------------------------------------------------------------
(* The inductive invariant: the properties, what each step of a put knows of *)
(* the old table, and that the step that inserts has a bucket to spare.      *)
Steps ==
  /\ put # Idle => len > 0
  /\ put.step = "move" => oldLen > 0
  /\ put.step # "move" => oldLen = 0 /\ moved = 0 /\ old = EmptyTable(0)

Spare ==
  /\ put.step = "move" => used + Cardinality(StillOld) + 1 < len
  /\ put.step = "insert" => used + 1 < len

IInv == TypeOK /\ Steps /\ ChainsUnbroken /\ NamesOnce /\ HasRoom /\ Spare

(* A bucket is free or has a name and an index.                              *)
LEMMA BucketKinds ==
  /\ Free \in Buckets
  /\ \A n \in Names, i \in Indexes : Bucket(n, i) \in Buckets /\ Bucket(n, i) # Free
  /\ \A b \in Buckets : b # Free => b.name \in Names /\ b.index \in Indexes /\ b = Bucket(b.name, b.index)
BY MapAssumption DEF Buckets, Free, Bucket

LEMMA FiniteUse ==
  ASSUME TypeOK
  PROVE  /\ IsFiniteSet(InUse) /\ IsFiniteSet(StillOld)
         /\ Cardinality(InUse) \in Nat /\ Cardinality(StillOld) \in Nat
<1>1. IsFiniteSet(0 .. len - 1) /\ IsFiniteSet(moved .. oldLen - 1)
  BY FS_Interval DEF TypeOK
<1>2. IsFiniteSet(InUse) /\ IsFiniteSet(StillOld)
  BY <1>1, FS_Subset DEF InUse, StillOld
<1> QED BY <1>2, FS_CardinalityType

(* While the table has room, every search ends: at the name, or at the first *)
(* free bucket of its chain.                                                 *)
LEMMA SearchEnds ==
  ASSUME TypeOK, len > 0, used = Cardinality(InUse), used < len, NEW n \in Names
  PROVE  /\ \E k \in 0 .. len - 1 : StopsAt(n, k)
         /\ \E k \in 0 .. len - 1 : FirstFree(n, k)
<1>1. PICK i \in 0 .. len - 1 : buckets[i] = Free
  <2>1. len \in Nat /\ Cardinality(0 .. len - 1) = len
    BY FS_Interval DEF TypeOK
  <2>2. InUse # 0 .. len - 1
    BY <2>1
  <2> QED BY <2>2 DEF InUse
<1>2. PICK k \in 0 .. len - 1 : Probe(n, k) = i
  BY ProbeReachesAll DEF TypeOK
<1> DEFINE F == {j \in 0 .. len - 1 : IsFree(n, j)}
           E == {j \in 0 .. len - 1 : IsFree(n, j) \/ Holds(n, j)}
<1>3. len \in Nat /\ F \in SUBSET Nat /\ E \in SUBSET Nat /\ k \in F /\ k \in E
  BY <1>1, <1>2 DEF TypeOK, IsFree
<1>4. \E j \in F : \A h \in 0 .. j - 1 : h \notin F
  BY <1>3, FirstOf
<1>5. \E j \in E : \A h \in 0 .. j - 1 : h \notin E
  BY <1>3, FirstOf
<1>6. \E j \in 0 .. len - 1 : FirstFree(n, j)
  BY <1>3, <1>4 DEF FirstFree
<1>7. \E j \in 0 .. len - 1 : StopsAt(n, j)
  BY <1>3, <1>5 DEF StopsAt
<1> QED BY <1>6, <1>7

(* When a search stops at a free bucket, the name is not in the table.       *)
LEMMA NameAbsent ==
  ASSUME TypeOK, ChainsUnbroken, NEW n \in Names, NEW k, StopsAt(n, k), ~Holds(n, k)
  PROVE  FirstFree(n, k) /\ \A i \in InUse : buckets[i].name # n
<1>1. len \in Nat /\ k \in 0 .. len - 1 /\ IsFree(n, k)
  BY DEF StopsAt, TypeOK
<1>2. ASSUME NEW i \in InUse, buckets[i].name = n
      PROVE  FALSE
  <2>1. PICK j \in 0 .. len - 1 : Probe(n, j) = i /\ \A h \in 0 .. j - 1 : ~IsFree(n, h)
    BY <1>2 DEF ChainsUnbroken
  <2>2. ~(k < j)
    BY <1>1, <2>1
  <2>3. Holds(n, j) /\ ~IsFree(n, j)
    BY <1>2, <2>1 DEF Holds, IsFree, InUse
  <2>4. j \in 0 .. k - 1
    BY <1>1, <2>2, <2>3
  <2> QED BY <2>3, <2>4 DEF StopsAt
<1> QED BY <1>1, <1>2 DEF StopsAt, FirstFree

(* A search for m comes to bucket i.                                         *)
Reaches(m, i) ==
  \E k \in 0 .. len - 1 :
    /\ Probe(m, k) = i
    /\ \A j \in 0 .. k - 1 : ~IsFree(m, j)

LEMMA ReachesAll ==
  ASSUME TypeOK
  PROVE  ChainsUnbroken <=> \A m \in Names : \A i \in InUse : buckets[i].name = m => Reaches(m, i)
<1>1. \A i \in InUse : buckets[i].name \in Names
  BY BucketKinds DEF InUse, TypeOK
<1>2. ChainsUnbroken <=> \A i \in InUse : Reaches(buckets[i].name, i)
  BY DEF ChainsUnbroken, Reaches
<1> QED BY <1>1, <1>2

(* A search that a step does not stop earlier still comes there.             *)
LEMMA StillReaches ==
  ASSUME TypeOK, len > 0, hash' = hash, len' = len,
         \A i \in 0 .. len - 1 : buckets[i] # Free => buckets'[i] # Free,
         NEW m \in Names, NEW i, Reaches(m, i)
  PROVE  Reaches(m, i)'
<1>1. PICK k \in 0 .. len - 1 : Probe(m, k) = i /\ \A j \in 0 .. k - 1 : ~IsFree(m, j)
  BY DEF Reaches
<1>2. \A j \in 0 .. len - 1 : Probe(m, j)' = Probe(m, j) /\ Probe(m, j) \in 0 .. len - 1
  BY ProbeInTable DEF Probe, Home, TypeOK
<1>3. \A j \in 0 .. k - 1 : j \in 0 .. len - 1
  BY DEF TypeOK
<1>4. \A j \in 0 .. k - 1 : ~IsFree(m, j)'
  BY <1>1, <1>2, <1>3 DEF IsFree
<1> QED BY <1>1, <1>2, <1>4 DEF Reaches

(* Placing a bucket at the first free place of its chain breaks no chain.    *)
LEMMA Placed ==
  ASSUME TypeOK, ChainsUnbroken, NEW n \in Names, NEW x \in Indexes, NEW k, FirstFree(n, k),
         hash' = hash, len' = len,
         buckets' = [buckets EXCEPT ![Probe(n, k)] = Bucket(n, x)]
  PROVE  /\ ChainsUnbroken'
         /\ buckets' \in [0 .. len - 1 -> Buckets]
         /\ Probe(n, k) \in 0 .. len - 1
         /\ Probe(n, k) \notin InUse
         /\ InUse' = InUse \cup {Probe(n, k)}
         /\ Cardinality(InUse') = Cardinality(InUse) + 1
<1> PICK p : p = Probe(n, k)
  OBVIOUS
<1>1. len \in Nat /\ len > 0 /\ k \in 0 .. len - 1
  BY DEF FirstFree, TypeOK
<1>2. p \in 0 .. len - 1 /\ p \notin InUse
  BY <1>1, ProbeInTable DEF TypeOK, FirstFree, IsFree, InUse
<1>4. buckets' = [buckets EXCEPT ![p] = Bucket(n, x)]
  OBVIOUS
<1>5. /\ buckets'[p] = Bucket(n, x)
      /\ \A i \in 0 .. len - 1 : i # p => buckets'[i] = buckets[i]
      /\ buckets' \in [0 .. len - 1 -> Buckets]
  BY <1>2, <1>4, BucketKinds DEF TypeOK
<1>6. InUse' = InUse \cup {p}
  BY <1>2, <1>5, BucketKinds DEF InUse
<1>7. Cardinality(InUse') = Cardinality(InUse) + 1
  BY <1>2, <1>6, FiniteUse, FS_AddElement
<1>8. \A m \in Names, i \in 0 .. len - 1 : Reaches(m, i) => Reaches(m, i)'
  BY <1>1, <1>2, <1>5, BucketKinds, StillReaches
<1>9. Reaches(n, p)'
  <2>1. Reaches(n, p)
    BY <1>1 DEF FirstFree, Reaches
  <2> QED BY <1>2, <1>8, <2>1
<1>10. TypeOK => \A i \in InUse : i \in 0 .. len - 1 /\ buckets[i].name \in Names /\ Reaches(buckets[i].name, i)
  BY ReachesAll, BucketKinds DEF InUse, TypeOK
<1>11. \A m \in Names : \A i \in InUse' : buckets'[i].name = m => Reaches(m, i)'
  <2> TAKE m \in Names
  <2> TAKE i \in InUse'
  <2> HAVE buckets'[i].name = m
  <2>1. CASE i = p
    <3>1. m = n
      BY <1>5, <2>1 DEF Bucket
    <3> QED BY <1>9, <2>1, <3>1
  <2>2. CASE i # p
    <3>1. i \in InUse /\ i \in 0 .. len - 1 /\ buckets[i].name = m
      BY <1>5, <1>6, <1>10, <2>2
    <3>2. Reaches(m, i)
      BY <3>1, ReachesAll
    <3> QED BY <1>8, <3>1, <3>2
  <2> QED BY <2>1, <2>2
<1>12. \A i \in InUse' : buckets'[i].name \in Names
  BY <1>2, <1>5, <1>6, <1>10 DEF Bucket
<1>13. ChainsUnbroken'
  BY <1>11, <1>12 DEF ChainsUnbroken, Reaches, IsFree, Probe, Home
<1> QED BY <1>2, <1>5, <1>6, <1>7, <1>13

(* Storing another index in the bucket of a name changes no chain.           *)
LEMMA Restored ==
  ASSUME TypeOK, ChainsUnbroken, NEW n \in Names, NEW x \in Indexes, NEW k, StopsAt(n, k), Holds(n, k),
         hash' = hash, len' = len,
         buckets' = [buckets EXCEPT ![Probe(n, k)] = Bucket(n, x)]
  PROVE  /\ ChainsUnbroken'
         /\ buckets' \in [0 .. len - 1 -> Buckets]
         /\ Probe(n, k) \in InUse
         /\ InUse' = InUse
         /\ \A i \in InUse : buckets'[i].name = buckets[i].name
<1> PICK p : p = Probe(n, k)
  OBVIOUS
<1>1. len \in Nat /\ len > 0 /\ k \in 0 .. len - 1
  BY DEF StopsAt, TypeOK
<1>2. p \in 0 .. len - 1 /\ buckets[p].name = n
  BY <1>1, ProbeInTable DEF TypeOK, Holds
<1>4. buckets' = [buckets EXCEPT ![p] = Bucket(n, x)]
  OBVIOUS
<1>5. /\ buckets'[p] = Bucket(n, x)
      /\ \A i \in 0 .. len - 1 : i # p => buckets'[i] = buckets[i]
      /\ buckets' \in [0 .. len - 1 -> Buckets]
  BY <1>2, <1>4, BucketKinds DEF TypeOK
<1>6. buckets[p] # Free
  BY <1>2, MapAssumption DEF Free, Bucket
<1>7. InUse' = InUse /\ p \in InUse
  BY <1>2, <1>5, <1>6, BucketKinds DEF InUse
<1>8. \A i \in InUse : i \in 0 .. len - 1 /\ buckets'[i].name = buckets[i].name
  BY <1>2, <1>5 DEF Bucket, InUse
<1>9. \A m \in Names, i \in 0 .. len - 1 : Reaches(m, i) => Reaches(m, i)'
  BY <1>1, <1>2, <1>5, BucketKinds, StillReaches
<1>10. \A m \in Names : \A i \in InUse' : buckets'[i].name = m => Reaches(m, i)'
  BY <1>7, <1>8, <1>9, ReachesAll
<1>11. \A i \in InUse' : buckets'[i].name \in Names
  BY <1>7, <1>8, BucketKinds DEF InUse, TypeOK
<1>12. ChainsUnbroken'
  BY <1>10, <1>11 DEF ChainsUnbroken, Reaches, IsFree, Probe, Home
<1> QED BY <1>5, <1>7, <1>8, <1>12

-----------------------------------------------------------------------------
(* What the map holds: the buckets of the table and those still to be moved. *)
Contents == {buckets[i] : i \in InUse} \cup {old[i] : i \in StillOld}

EntryFacts ==
  \A n \in Names :
    /\ \A b \in Contents : b.name = n => Entry(n) = b.index
    /\ (\A b \in Contents : b.name # n) => Entry(n) = Missing

LEMMA EntriesAreContents == TypeOK /\ NamesOnce => EntryFacts
<1> SUFFICES ASSUME TypeOK, NamesOnce, NEW n \in Names
             PROVE  /\ \A b \in Contents : b.name = n => Entry(n) = b.index
                    /\ (\A b \in Contents : b.name # n) => Entry(n) = Missing
  BY DEF EntryFacts
<1>1. ASSUME NEW i \in InUse, buckets[i].name = n
      PROVE  Entry(n) = buckets[i].index
  BY <1>1 DEF Entry, NamesOnce
<1>2. ASSUME NEW i \in StillOld, old[i].name = n
      PROVE  Entry(n) = old[i].index
  <2>1. ~ \E j \in InUse : buckets[j].name = n
    BY <1>2 DEF NamesOnce
  <2> QED BY <1>2, <2>1 DEF Entry, NamesOnce
<1>3. ASSUME \A b \in Contents : b.name # n
      PROVE  Entry(n) = Missing
  BY <1>3 DEF Entry, Contents
<1> QED BY <1>1, <1>2, <1>3 DEF Contents

(* A name keeps its entry when the buckets of that name stay.                *)
LEMMA EntryStays ==
  ASSUME EntryFacts, EntryFacts', NEW m \in Names,
         \A b : b.name = m => (b \in Contents' <=> b \in Contents)
  PROVE  Entry(m)' = Entry(m)
<1>1. CASE \E b \in Contents : b.name = m
  BY <1>1 DEF EntryFacts
<1>2. CASE \A b \in Contents : b.name # m
  BY <1>2 DEF EntryFacts
<1> QED BY <1>1, <1>2

LEMMA DictStays ==
  ASSUME EntryFacts, EntryFacts', Contents' = Contents
  PROVE  [n \in Names |-> Entry(n)]' = [n \in Names |-> Entry(n)]
BY EntryStays

(* A step that leaves the tables alone leaves their properties alone.        *)
LEMMA TablesUnchanged ==
  ASSUME UNCHANGED <<hash, table, rehashing>>
  PROVE  /\ UNCHANGED <<InUse, StillOld, Contents>>
         /\ ChainsUnbroken => ChainsUnbroken'
         /\ NamesOnce => NamesOnce'
         /\ HasRoom => HasRoom'
<1>1. UNCHANGED <<hash, len, buckets, used, oldLen, old, moved>>
  BY DEF table, rehashing
<1>2. UNCHANGED <<InUse, StillOld, Contents>>
  BY <1>1 DEF InUse, StillOld, Contents
<1>3. ChainsUnbroken => ChainsUnbroken'
  BY <1>1, <1>2 DEF ChainsUnbroken, IsFree, Probe, Home
<1>4. NamesOnce => NamesOnce'
  BY <1>1, <1>2 DEF NamesOnce
<1>5. HasRoom => HasRoom'
  BY <1>1, <1>2 DEF HasRoom
<1> QED BY <1>2, <1>3, <1>4, <1>5

(* An empty table has every property.                                        *)
LEMMA EmptyTables ==
  ASSUME buckets' = EmptyTable(len'), len' \in Nat, used' = 0, hash' \in [Names -> Nat],
         oldLen' = 0, old' = EmptyTable(0), moved' = 0
  PROVE  /\ buckets' \in [0 .. len' - 1 -> Buckets]
         /\ old' \in [0 .. oldLen' - 1 -> Buckets]
         /\ InUse' = {} /\ StillOld' = {} /\ Contents' = {}
         /\ ChainsUnbroken' /\ NamesOnce' /\ HasRoom'
<1>1. buckets' \in [0 .. len' - 1 -> Buckets] /\ old' \in [0 .. oldLen' - 1 -> Buckets]
  BY BucketKinds DEF EmptyTable
<1>2. InUse' = {} /\ StillOld' = {}
  BY DEF InUse, StillOld, EmptyTable
<1>3. Contents' = {}
  BY <1>2 DEF Contents
<1>4. ChainsUnbroken' /\ NamesOnce'
  BY <1>2 DEF ChainsUnbroken, NamesOnce
<1>5. HasRoom'
  BY <1>2, FS_EmptySet DEF HasRoom
<1> QED BY <1>1, <1>2, <1>3, <1>4, <1>5

-----------------------------------------------------------------------------
(* The steps that are not part of a put.                                     *)
LEMMA InitHolds == Init => IInv
<1> SUFFICES ASSUME Init
             PROVE  IInv
  OBVIOUS
<1>1. hash \in [Names -> Nat]
  BY MapAssumption DEF Init
<1>2. InUse = {} /\ StillOld = {}
  BY DEF Init, InUse, StillOld, EmptyTable
<1>3. TypeOK
  BY <1>1 DEF Init, TypeOK, EmptyTable, Idle
<1>4. Steps /\ ChainsUnbroken /\ NamesOnce
  BY <1>2 DEF Init, Steps, ChainsUnbroken, NamesOnce, Idle
<1>5. HasRoom /\ Spare
  BY <1>2, FS_EmptySet DEF Init, HasRoom, Spare, Idle
<1> QED BY <1>3, <1>4, <1>5 DEF IInv

LEMMA InitMapKeeps ==
  ASSUME IInv, InitMap
  PROVE  IInv' /\ Contents' = Contents
<1>1. /\ put = Idle /\ len = 0 /\ len' = MinBuckets /\ MinBuckets \in Nat \ {0}
      /\ buckets' = EmptyTable(len')
      /\ UNCHANGED <<hash, used, oldLen, old, moved, put, reply, result>>
  BY MapAssumption DEF InitMap, rehashing
<1>2. used = 0
  BY <1>1, FS_EmptySet DEF IInv, HasRoom, InUse
<1>3. oldLen = 0 /\ moved = 0 /\ old = EmptyTable(0) /\ hash \in [Names -> Nat]
  BY <1>1 DEF IInv, Steps, TypeOK, Idle
<1>4. Contents = {}
  BY <1>1, <1>3 DEF Contents, InUse, StillOld
<1>5. TypeOK'
  BY <1>1, <1>2, <1>3, EmptyTables DEF IInv, TypeOK
<1>6. Steps' /\ Spare'
  BY <1>1, <1>3 DEF Steps, Spare, Idle
<1> QED BY <1>1, <1>2, <1>3, <1>4, <1>5, <1>6, EmptyTables DEF IInv

LEMMA FreeMapKeeps ==
  ASSUME IInv, FreeMap
  PROVE  IInv' /\ Contents' = {}
<1>1. /\ put = Idle /\ len' = 0 /\ used' = 0
      /\ buckets' = EmptyTable(len')
      /\ UNCHANGED <<hash, oldLen, old, moved, put, reply, result>>
  BY DEF FreeMap, rehashing
<1>2. oldLen = 0 /\ moved = 0 /\ old = EmptyTable(0) /\ hash \in [Names -> Nat]
  BY <1>1 DEF IInv, Steps, TypeOK, Idle
<1>3. TypeOK'
  BY <1>1, <1>2, EmptyTables DEF IInv, TypeOK
<1>4. Steps' /\ Spare'
  BY <1>1, <1>2 DEF Steps, Spare, Idle
<1> QED BY <1>1, <1>2, <1>3, <1>4, EmptyTables DEF IInv

(* The reply of a lookup is the entry of the name.                           *)
LEMMA GetKeeps ==
  ASSUME IInv, NEW n \in Names, Get(n)
  PROVE  IInv' /\ Contents' = Contents /\ reply' = Entry(n)
<1>1. put = Idle /\ UNCHANGED <<hash, table, rehashing, put, result>>
  BY DEF Get
<1>2. EntryFacts
  BY EntriesAreContents DEF IInv
<1>3. StillOld = {}
  BY <1>1 DEF IInv, Steps, Idle, StillOld
<1>4. reply' = Entry(n)
  <2>1. ASSUME NEW k \in 0 .. len - 1, StopsAt(n, k), Holds(n, k)
        PROVE  Entry(n) = buckets[Probe(n, k)].index
    <3>1. Probe(n, k) \in 0 .. len - 1
      BY ProbeInTable DEF IInv, TypeOK
    <3>2. Probe(n, k) \in InUse
      BY <2>1, <3>1, MapAssumption DEF InUse, Holds, Free, Bucket
    <3> QED BY <1>2, <2>1, <3>2 DEF EntryFacts, Contents, Holds
  <2>2. ASSUME NEW k \in 0 .. len - 1, StopsAt(n, k), ~Holds(n, k)
        PROVE  Entry(n) = Missing
    BY <1>2, <1>3, <2>2, NameAbsent DEF IInv, EntryFacts, Contents
  <2>3. ASSUME \A k \in 0 .. len - 1 : ~StopsAt(n, k)
        PROVE  Entry(n) = Missing
    <3>1. len = 0
      <4> SUFFICES ASSUME len # 0
                   PROVE  FALSE
        OBVIOUS
      <4>1. len > 0 /\ used = Cardinality(InUse) /\ used < len
        BY <1>3, FS_EmptySet DEF IInv, TypeOK, HasRoom
      <4> QED BY <2>3, <4>1, SearchEnds DEF IInv
    <3>2. InUse = {}
      BY <3>1 DEF InUse
    <3> QED BY <1>2, <1>3, <3>2 DEF EntryFacts, Contents
  <2> QED BY <2>1, <2>2, <2>3 DEF Get
<1>5. Entry(n) \in Indexes \cup {Missing}
  BY <1>2, BucketKinds DEF IInv, EntryFacts, Contents, TypeOK, InUse, StillOld
<1>6. TypeOK'
  BY <1>1, <1>4, <1>5 DEF IInv, TypeOK, table, rehashing
<1>7. Steps' /\ Spare'
  BY <1>1 DEF IInv, Steps, Spare, table, rehashing, Idle
<1> QED BY <1>1, <1>4, <1>6, <1>7, TablesUnchanged DEF IInv

LEMMA PutStartKeeps ==
  ASSUME IInv, NEW n \in Names, NEW i \in Indexes, PutStart(n, i)
  PROVE  IInv' /\ Contents' = Contents
<1>1. /\ put = Idle /\ len > 0
      /\ put' = [step |-> IF ShouldRehash THEN "rehash" ELSE "insert", name |-> n, index |-> i]
      /\ UNCHANGED <<hash, table, rehashing, reply, result>>
  BY DEF PutStart
<1>2. TypeOK'
  BY <1>1 DEF IInv, TypeOK, table, rehashing
<1>3. Steps'
  BY <1>1 DEF IInv, Steps, table, rehashing, Idle
<1>4. ~ShouldRehash => used + 1 < len
  BY <1>1, ThresholdBelow DEF ShouldRehash, IInv, TypeOK
<1>5. Spare'
  BY <1>1, <1>4 DEF Spare, table
<1> QED BY <1>1, <1>2, <1>3, <1>5, TablesUnchanged DEF IInv

-----------------------------------------------------------------------------
(* The steps of a put.                                                       *)

(* What is in the table when the rehash starts is what is still to be moved. *)
LEMMA RehashKeeps ==
  ASSUME IInv, Rehash
  PROVE  IInv' /\ Contents' = Contents
<1>1. /\ len \in Nat /\ len > 0 /\ oldLen = 0 /\ moved = 0 /\ StillOld = {}
      /\ hash \in [Names -> Nat] /\ buckets \in [0 .. len - 1 -> Buckets]
      /\ used = Cardinality(InUse) /\ used < len
      /\ UNCHANGED <<hash, reply>>
  <2>1. put.step = "rehash" /\ put # Idle /\ UNCHANGED <<hash, reply>>
    BY DEF Rehash, Idle
  <2>2. /\ len \in Nat /\ len > 0 /\ oldLen = 0 /\ moved = 0
        /\ hash \in [Names -> Nat] /\ buckets \in [0 .. len - 1 -> Buckets]
    BY <2>1 DEF IInv, Steps, TypeOK
  <2>3. StillOld = {}
    BY <2>2 DEF StillOld
  <2>4. used = Cardinality(InUse) /\ used < len
    BY <2>2, <2>3, FS_EmptySet DEF IInv, HasRoom, TypeOK
  <2> QED BY <2>1, <2>2, <2>3, <2>4
<1>2. ASSUME len' = 2 * len, buckets' = EmptyTable(2 * len), used' = 0,
             oldLen' = len, old' = buckets, moved' = 0,
             put' = [put EXCEPT !.step = "move"], UNCHANGED result
      PROVE  IInv' /\ Contents' = Contents
  <2>1. InUse' = {} /\ StillOld' = InUse
    BY <1>1, <1>2 DEF InUse, StillOld, EmptyTable
  <2>2. Contents' = Contents
    BY <1>1, <1>2, <2>1 DEF Contents
  <2>3. buckets' \in [0 .. len' - 1 -> Buckets] /\ len' \in Nat
    BY <1>1, <1>2, BucketKinds DEF EmptyTable
  <2>4. put' \in [step : {"rehash", "move", "insert"}, name : Names, index : Indexes] /\ put'.step = "move"
    BY <1>2 DEF IInv, TypeOK, Rehash, Idle
  <2>5. TypeOK'
    BY <1>1, <1>2, <2>3, <2>4 DEF IInv, TypeOK
  <2>6. Steps'
    BY <1>1, <1>2, <2>4 DEF Steps
  <2>7. ChainsUnbroken' /\ NamesOnce'
    BY <1>2, <2>1 DEF IInv, ChainsUnbroken, NamesOnce, InUse
  <2>8. HasRoom' /\ Spare'
    BY <1>1, <1>2, <2>1, <2>4, FS_EmptySet DEF HasRoom, Spare, IInv, TypeOK
  <2> QED BY <2>2, <2>5, <2>6, <2>7, <2>8 DEF IInv
<1>3. ASSUME put' = Idle, result' = "no_memory", UNCHANGED <<table, rehashing>>
      PROVE  IInv' /\ Contents' = Contents
  <2>1. UNCHANGED <<hash, table, rehashing>>
    BY <1>1, <1>3
  <2>2. TypeOK' /\ Steps' /\ Spare'
    BY <1>1, <1>3, <2>1 DEF IInv, TypeOK, Steps, Spare, Rehash, table, rehashing, Idle
  <2> QED BY <2>1, <2>2, TablesUnchanged DEF IInv
<1> QED BY <1>2, <1>3 DEF Rehash

(* A bucket passes from the old table to the new one.                        *)
LEMMA MoveKeeps ==
  ASSUME IInv, Move
  PROVE  IInv' /\ Contents' = Contents
<1>1. /\ put.step = "move" /\ moved < oldLen /\ moved' = moved + 1
      /\ UNCHANGED <<hash, len, oldLen, old, put, reply, result>>
  BY DEF Move
<1>2. /\ len \in Nat /\ len > 0 /\ oldLen \in Nat /\ moved \in 0 .. oldLen - 1 /\ used \in Nat
      /\ old \in [0 .. oldLen - 1 -> Buckets] /\ TypeOK
  BY <1>1 DEF IInv, TypeOK, Steps, Idle
<1>3. StillOld' = StillOld \ {moved}
  BY <1>1, <1>2 DEF StillOld
<1>4. Steps'
  BY <1>1, <1>2 DEF IInv, Steps
<1>5. CASE old[moved] = Free
  <2>1. UNCHANGED <<buckets, used>>
    BY <1>5 DEF Move
  <2>2. moved \notin StillOld
    BY <1>5 DEF StillOld
  <2>3. InUse' = InUse /\ StillOld' = StillOld
    BY <1>1, <1>3, <2>1, <2>2 DEF InUse
  <2>4. Contents' = Contents
    BY <1>1, <2>1, <2>3 DEF Contents
  <2>5. TypeOK'
    BY <1>1, <1>2, <2>1 DEF TypeOK
  <2>6. ChainsUnbroken'
    BY <1>1, <2>1, <2>3 DEF IInv, ChainsUnbroken, IsFree, Probe, Home
  <2>7. NamesOnce'
    BY <1>1, <2>1, <2>3 DEF IInv, NamesOnce
  <2>8. HasRoom' /\ Spare'
    BY <1>1, <2>1, <2>3 DEF IInv, HasRoom, Spare
  <2> QED BY <1>4, <2>4, <2>5, <2>6, <2>7, <2>8 DEF IInv
<1>6. CASE old[moved] # Free
  <2>1. PICK n, x : n \in Names /\ x \in Indexes /\ old[moved] = Bucket(n, x)
    BY <1>2, <1>6, BucketKinds
  <2>2. PICK k \in 0 .. len - 1 :
          FirstFree(n, k) /\ buckets' = [buckets EXCEPT ![Probe(n, k)] = Bucket(n, x)]
    BY <1>6, <2>1 DEF Move, Bucket
  <2>3. PICK p : p = Probe(n, k)
    OBVIOUS
  <2>4. /\ ChainsUnbroken'
        /\ buckets' \in [0 .. len - 1 -> Buckets]
        /\ p \in 0 .. len - 1 /\ p \notin InUse
        /\ InUse' = InUse \cup {p}
        /\ Cardinality(InUse') = Cardinality(InUse) + 1
    BY <1>1, <2>1, <2>2, <2>3, Placed DEF IInv
  <2>5. used' = used + 1
    BY <1>6 DEF Move
  <2>6. /\ buckets'[p] = Bucket(n, x)
        /\ \A i \in InUse : i # p /\ buckets'[i] = buckets[i]
    BY <1>2, <2>2, <2>3, <2>4 DEF TypeOK, InUse
  <2>7. moved \in StillOld /\ old' = old
    BY <1>1, <1>2, <1>6 DEF StillOld
  <2>8. Cardinality(StillOld') = Cardinality(StillOld) - 1
    BY <1>2, <1>3, <2>7, FiniteUse, FS_RemoveElement
  <2>9. Contents' = Contents
    BY <1>3, <2>1, <2>4, <2>6, <2>7 DEF Contents
  <2>10. TypeOK'
    BY <1>1, <1>2, <2>4, <2>5 DEF TypeOK
  <2>11. NamesOnce'
    <3>1. n = old[moved].name /\ n = buckets'[p].name
      BY <2>1, <2>6 DEF Bucket
    <3>2. \A i \in InUse : buckets[i].name # n
      BY <2>7, <3>1 DEF IInv, NamesOnce
    <3>3. \A i, j \in InUse' : buckets'[i].name = buckets'[j].name => i = j
      BY <2>4, <2>6, <3>1, <3>2 DEF IInv, NamesOnce
    <3>4. \A i, j \in StillOld' : old'[i].name = old'[j].name => i = j
      BY <1>3, <2>7 DEF IInv, NamesOnce
    <3>5. \A j \in StillOld' : j \in StillOld /\ old'[j].name # n
      BY <1>3, <2>7, <3>1 DEF IInv, NamesOnce
    <3>6. \A i \in InUse', j \in StillOld' : buckets'[i].name # old'[j].name
      BY <2>4, <2>6, <2>7, <3>1, <3>5 DEF IInv, NamesOnce
    <3> QED BY <3>3, <3>4, <3>6 DEF NamesOnce
  <2>12. HasRoom' /\ Spare'
    BY <1>1, <1>2, <2>4, <2>5, <2>8, FiniteUse DEF IInv, HasRoom, Spare
  <2> QED BY <1>4, <2>4, <2>9, <2>10, <2>11, <2>12 DEF IInv
<1> QED BY <1>5, <1>6

LEMMA FreeOldKeeps ==
  ASSUME IInv, FreeOld
  PROVE  IInv' /\ Contents' = Contents
<1>1. /\ put.step = "move" /\ moved = oldLen
      /\ oldLen' = 0 /\ old' = EmptyTable(0) /\ moved' = 0
      /\ put' = [put EXCEPT !.step = "insert"]
      /\ UNCHANGED <<hash, len, buckets, used, reply, result>>
  BY DEF FreeOld, table
<1>2. StillOld = {} /\ StillOld' = {} /\ InUse' = InUse /\ len \in Nat /\ len > 0
  BY <1>1 DEF StillOld, InUse, IInv, TypeOK, Steps, Idle
<1>3. Contents' = Contents
  BY <1>1, <1>2 DEF Contents
<1>4. put' \in [step : {"rehash", "move", "insert"}, name : Names, index : Indexes] /\ put'.step = "insert"
  BY <1>1 DEF IInv, TypeOK, Idle
<1>5. TypeOK'
  BY <1>1, <1>4 DEF IInv, TypeOK, EmptyTable
<1>6. Steps'
  BY <1>1, <1>2, <1>4 DEF Steps
<1>7. ChainsUnbroken'
  BY <1>1, <1>2 DEF IInv, ChainsUnbroken, IsFree, Probe, Home
<1>8. NamesOnce'
  BY <1>1, <1>2 DEF IInv, NamesOnce
<1>9. HasRoom' /\ Spare'
  BY <1>1, <1>2, <1>4, FS_EmptySet DEF IInv, HasRoom, Spare, TypeOK
<1> QED BY <1>3, <1>5, <1>6, <1>7, <1>8, <1>9 DEF IInv

(* A put stores the index under its name and leaves every other name alone,  *)
(* or finds no memory and leaves them all alone.  NK_ERR_INTERNAL_ERROR      *)
(* cannot happen.                                                            *)
LEMMA InsertKeeps ==
  ASSUME IInv, Insert
  PROVE  /\ IInv'
         /\ put # Idle /\ put' = Idle
         /\ \/ /\ result' = "stored"
               /\ Bucket(put.name, put.index) \in Contents'
               /\ \A b : b.name # put.name => (b \in Contents' <=> b \in Contents)
            \/ result' = "no_memory" /\ Contents' = Contents
<1>1. /\ put.step = "insert" /\ put # Idle /\ put' = Idle
      /\ UNCHANGED <<hash, len, oldLen, old, moved, reply>>
  BY DEF Insert, rehashing, Idle
<1>2. PICK n : n = put.name
  OBVIOUS
<1>3. PICK x : x = put.index
  OBVIOUS
<1>4. /\ n \in Names /\ x \in Indexes /\ TypeOK
      /\ len \in Nat /\ len > 0 /\ used \in Nat /\ used + 1 < len /\ used = Cardinality(InUse)
      /\ oldLen = 0 /\ moved = 0 /\ old = EmptyTable(0)
  BY <1>1, <1>2, <1>3 DEF IInv, TypeOK, Steps, Spare, HasRoom, Idle
<1>5. StillOld = {} /\ StillOld' = {}
  BY <1>1, <1>4 DEF StillOld
<1>6. Steps' /\ Spare'
  BY <1>1, <1>4 DEF Steps, Spare, Idle
<1>7. ASSUME NEW k \in 0 .. len - 1, StopsAt(n, k), ~Holds(n, k),
             buckets' = [buckets EXCEPT ![Probe(n, k)] = Bucket(n, x)],
             used' = used + 1, result' = "stored"
      PROVE  /\ IInv' /\ Bucket(n, x) \in Contents'
             /\ \A b : b.name # n => (b \in Contents' <=> b \in Contents)
  <2>1. FirstFree(n, k) /\ \A i \in InUse : buckets[i].name # n
    BY <1>4, <1>7, NameAbsent DEF IInv
  <2>2. PICK p : p = Probe(n, k)
    OBVIOUS
  <2>3. /\ ChainsUnbroken'
        /\ buckets' \in [0 .. len - 1 -> Buckets]
        /\ p \in 0 .. len - 1 /\ p \notin InUse
        /\ InUse' = InUse \cup {p}
        /\ Cardinality(InUse') = Cardinality(InUse) + 1
    BY <1>1, <1>4, <1>7, <2>1, <2>2, Placed DEF IInv
  <2>4. /\ buckets'[p] = Bucket(n, x)
        /\ \A i \in InUse : i # p /\ buckets'[i] = buckets[i]
    BY <1>4, <1>7, <2>2, <2>3 DEF TypeOK, InUse
  <2>5. Contents' = Contents \cup {Bucket(n, x)}
    BY <1>5, <2>3, <2>4 DEF Contents
  <2>6. \A b : b.name # n => b # Bucket(n, x)
    BY DEF Bucket
  <2>7. TypeOK'
    BY <1>1, <1>4, <1>7, <2>3 DEF TypeOK
  <2>8. NamesOnce'
    <3>1. n = buckets'[p].name
      BY <2>4 DEF Bucket
    <3>2. \A i, j \in InUse' : buckets'[i].name = buckets'[j].name => i = j
      BY <2>1, <2>3, <2>4, <3>1 DEF IInv, NamesOnce
    <3> QED BY <1>5, <3>2 DEF NamesOnce
  <2>9. HasRoom'
    BY <1>1, <1>4, <1>5, <1>7, <2>3, FS_EmptySet DEF HasRoom
  <2> QED BY <1>6, <2>3, <2>5, <2>6, <2>7, <2>8, <2>9 DEF IInv
<1>8. ASSUME NEW k \in 0 .. len - 1, StopsAt(n, k), Holds(n, k),
             buckets' = [buckets EXCEPT ![Probe(n, k)] = Bucket(n, x)],
             used' = used, result' = "stored"
      PROVE  /\ IInv' /\ Bucket(n, x) \in Contents'
             /\ \A b : b.name # n => (b \in Contents' <=> b \in Contents)
  <2>1. PICK p : p = Probe(n, k)
    OBVIOUS
  <2>2. /\ ChainsUnbroken'
        /\ buckets' \in [0 .. len - 1 -> Buckets]
        /\ p \in InUse
        /\ InUse' = InUse
        /\ \A i \in InUse : buckets'[i].name = buckets[i].name
    BY <1>1, <1>4, <1>8, <2>1, Restored DEF IInv
  <2>3. /\ buckets[p].name = n /\ buckets'[p] = Bucket(n, x)
        /\ \A i \in InUse : i # p => buckets'[i] = buckets[i]
    BY <1>4, <1>8, <2>1, <2>2 DEF TypeOK, InUse, Holds
  <2>4. Bucket(n, x) \in Contents'
    BY <2>2, <2>3 DEF Contents
  <2>5. Bucket(n, x).name = n
    BY DEF Bucket
  <2>6. ASSUME NEW b, b.name # n
        PROVE  b \in Contents' <=> b \in Contents
    BY <1>5, <2>2, <2>3, <2>5, <2>6 DEF Contents
  <2>7. TypeOK'
    BY <1>1, <1>4, <1>8, <2>2 DEF TypeOK
  <2>8. NamesOnce'
    BY <1>5, <2>2 DEF IInv, NamesOnce
  <2>9. HasRoom'
    BY <1>1, <1>4, <1>5, <1>8, <2>2, FS_EmptySet DEF HasRoom
  <2> QED BY <1>6, <2>2, <2>4, <2>6, <2>7, <2>8, <2>9 DEF IInv
<1>9. ASSUME result' = "no_memory", UNCHANGED <<buckets, used>>
      PROVE  IInv' /\ Contents' = Contents
  <2>1. UNCHANGED <<hash, table, rehashing>>
    BY <1>1, <1>9 DEF table, rehashing
  <2>2. TypeOK'
    BY <1>1, <1>4, <1>9 DEF TypeOK
  <2> QED BY <1>6, <2>1, <2>2, TablesUnchanged DEF IInv
<1>10. \E k \in 0 .. len - 1 : StopsAt(n, k)
  BY <1>4, SearchEnds
<1>11. \/ \E k \in 0 .. len - 1 :
            /\ StopsAt(n, k) /\ ~Holds(n, k)
            /\ buckets' = [buckets EXCEPT ![Probe(n, k)] = Bucket(n, x)]
            /\ used' = used + 1 /\ result' = "stored"
       \/ \E k \in 0 .. len - 1 :
            /\ StopsAt(n, k) /\ Holds(n, k)
            /\ buckets' = [buckets EXCEPT ![Probe(n, k)] = Bucket(n, x)]
            /\ used' = used /\ result' = "stored"
       \/ result' = "no_memory" /\ UNCHANGED <<buckets, used>>
  BY <1>2, <1>3, <1>10 DEF Insert
<1> QED BY <1>1, <1>2, <1>3, <1>7, <1>8, <1>9, <1>11

-----------------------------------------------------------------------------
LEMMA NextKeeps == IInv /\ [Next]_vars => IInv'
<1> SUFFICES ASSUME IInv, [Next]_vars
             PROVE  IInv'
  OBVIOUS
<1>1. CASE InitMap
  BY <1>1, InitMapKeeps
<1>2. CASE FreeMap
  BY <1>2, FreeMapKeeps
<1>3. CASE Rehash
  BY <1>3, RehashKeeps
<1>4. CASE Move
  BY <1>4, MoveKeeps
<1>5. CASE FreeOld
  BY <1>5, FreeOldKeeps
<1>6. CASE Insert
  BY <1>6, InsertKeeps
<1>7. ASSUME NEW n \in Names, Get(n)
      PROVE  IInv'
  BY <1>7, GetKeeps
<1>8. ASSUME NEW n \in Names, NEW i \in Indexes, PutStart(n, i)
      PROVE  IInv'
  BY <1>8, PutStartKeeps
<1>9. CASE UNCHANGED vars
  <2>1. UNCHANGED <<hash, table, rehashing, put, reply, result>>
    BY <1>9 DEF vars
  <2>2. TypeOK' /\ Steps' /\ Spare'
    BY <2>1 DEF IInv, TypeOK, Steps, Spare, table, rehashing, StillOld
  <2> QED BY <2>1, <2>2, TablesUnchanged DEF IInv
<1> QED BY <1>1, <1>2, <1>3, <1>4, <1>5, <1>6, <1>7, <1>8, <1>9 DEF Next

(* The inductive invariant holds in every reachable state.                   *)
LEMMA Invariant == Spec => []IInv
BY InitHolds, NextKeeps, PTL DEF Spec

(* The variables of the map keep their types, for any number of names.       *)
THEOREM TypeCorrect == Spec => []TypeOK
<1>1. IInv => TypeOK
  BY DEF IInv
<1> QED BY <1>1, Invariant, PTL

(* No search stops before the name it looks for: neither inserting nor       *)
(* growing the table opens a gap in a chain, whatever the hash function.     *)
THEOREM NoChainBreaks == Spec => []ChainsUnbroken
<1>1. IInv => ChainsUnbroken
  BY DEF IInv
<1> QED BY <1>1, Invariant, PTL

(* No name has two buckets, also while half of them have been moved.         *)
THEOREM NamesAreUnique == Spec => []NamesOnce
<1>1. IInv => NamesOnce
  BY DEF IInv
<1> QED BY <1>1, Invariant, PTL

(* buckets_used is exact and a free bucket is left, so that the unbounded    *)
(* loop of a rehash and the bounded one of a put both find a place.          *)
THEOREM RoomIsLeft == Spec => []HasRoom
<1>1. IInv => HasRoom
  BY DEF IInv
<1> QED BY <1>1, Invariant, PTL

-----------------------------------------------------------------------------
(* Refinement: the dictionary's entries are the contents of the table and of *)
(* what is left of the old one.                                              *)
LEMMA EntriesNow == IInv => EntryFacts
BY EntriesAreContents DEF IInv

dict == [n \in Names |-> Entry(n)]
call == [name |-> put.name, index |-> put.index]

LEMMA CallIsPut ==
  ASSUME TypeOK
  PROVE  put = Idle <=> call = Dictionary!NoCall
BY MapAssumption DEF TypeOK, Idle, call, Dictionary!NoCall

LEMMA CallsNow == TypeOK => (put = Idle <=> call = Dictionary!NoCall)
BY CallIsPut

LEMMA InitImplements == Init => Dictionary!Init
<1> SUFFICES ASSUME Init
             PROVE  Dictionary!Init
  OBVIOUS
<1>1. InUse = {} /\ StillOld = {}
  BY DEF Init, InUse, StillOld, EmptyTable
<1>2. \A n \in Names : Entry(n) = Missing
  BY <1>1 DEF Entry
<1> QED BY <1>2 DEF Init, Dictionary!Init, Dictionary!NoCall, Idle

(* Every step is one of the dictionary's, or none: the steps that move       *)
(* buckets change nothing that a lookup could tell.                          *)
LEMMA NextImplements ==
  IInv /\ IInv' /\ [Next]_vars => [Dictionary!Next]_Dictionary!vars
<1> SUFFICES ASSUME IInv, IInv', [Next]_vars
             PROVE  [Dictionary!Next]_Dictionary!vars
  OBVIOUS
<1>1. EntryFacts /\ EntryFacts'
  BY EntriesNow, PTL
<1>2. /\ put = Idle <=> call = Dictionary!NoCall
      /\ put' = Idle <=> call' = Dictionary!NoCall
  <2>1. (put = Idle <=> call = Dictionary!NoCall)
    BY CallsNow DEF IInv
  <2>2. TypeOK'
    BY DEF IInv
  <2>3. (put = Idle <=> call = Dictionary!NoCall)'
    BY CallsNow, <2>2, PTL
  <2> QED BY <2>1, <2>3 DEF Idle, Dictionary!NoCall
<1>3. ASSUME Contents' = Contents
      PROVE  dict' = dict
  BY <1>1, <1>3, DictStays DEF dict
<1>4. ASSUME Contents' = Contents, call' = call, reply' = reply, result' = result
      PROVE  UNCHANGED Dictionary!vars
  BY <1>3, <1>4 DEF Dictionary!vars, dict, call
<1>5. CASE InitMap
  BY <1>4, <1>5, InitMapKeeps DEF InitMap, call
<1>6. CASE FreeMap
  <2>1. Contents' = {} /\ put = Idle /\ UNCHANGED <<put, reply, result>>
    BY <1>6, FreeMapKeeps DEF FreeMap
  <2>2. \A n \in Names : Entry(n)' = Missing
    BY <1>1, <2>1 DEF EntryFacts
  <2>3. dict' = [n \in Names |-> Missing]
    BY <2>2 DEF dict
  <2>4. Dictionary!Clear
    BY <1>2, <2>1, <2>3 DEF Dictionary!Clear, dict, call
  <2> QED BY <2>4 DEF Dictionary!Next
<1>7. CASE Rehash
  <2>1. CASE put' = Idle
    <3>1. put # Idle /\ result' = "no_memory" /\ reply' = reply /\ Contents' = Contents
      BY <1>7, <2>1, RehashKeeps DEF Rehash, Idle
    <3>2. Dictionary!Refuse
      BY <1>2, <1>3, <2>1, <3>1 DEF Dictionary!Refuse, dict, call
    <3> QED BY <3>2 DEF Dictionary!Next
  <2>2. CASE put' # Idle
    <3>1. put' = [put EXCEPT !.step = "move"] /\ UNCHANGED <<reply, result>>
      BY <1>7, <2>2 DEF Rehash
    <3>2. call' = call
      BY <3>1 DEF call, IInv, TypeOK, Idle
    <3> QED BY <1>4, <1>7, <3>1, <3>2, RehashKeeps
  <2> QED BY <2>1, <2>2
<1>8. CASE Move
  BY <1>4, <1>8, MoveKeeps DEF Move, call
<1>9. CASE FreeOld
  <2>1. call' = call /\ UNCHANGED <<reply, result>>
    BY <1>9 DEF FreeOld, call, IInv, TypeOK, Idle
  <2> QED BY <1>4, <1>9, <2>1, FreeOldKeeps
<1>10. CASE Insert
  <2>1. put # Idle /\ put' = Idle /\ reply' = reply
    BY <1>10, InsertKeeps DEF Insert
  <2>2. CASE result' = "no_memory" /\ Contents' = Contents
    <3>1. Dictionary!Refuse
      BY <1>2, <1>3, <2>1, <2>2 DEF Dictionary!Refuse, dict, call
    <3> QED BY <3>1 DEF Dictionary!Next
  <2>3. CASE /\ result' = "stored"
             /\ Bucket(put.name, put.index) \in Contents'
             /\ \A b : b.name # put.name => (b \in Contents' <=> b \in Contents)
    <3>1. PICK n : n = put.name
      OBVIOUS
    <3>2. PICK x : x = put.index
      OBVIOUS
    <3>3. n \in Names /\ x \in Indexes
      BY <2>1, <3>1, <3>2 DEF IInv, TypeOK
    <3>4. Entry(n)' = x
      BY <1>1, <2>3, <3>1, <3>2, <3>3 DEF EntryFacts, Bucket
    <3>5. \A m \in Names : m # n => Entry(m)' = Entry(m)
      BY <1>1, <2>3, <3>1, EntryStays
    <3>6. dict' = [dict EXCEPT ![n] = x]
      BY <3>3, <3>4, <3>5 DEF dict
    <3>7. Dictionary!Store
      BY <1>2, <2>1, <2>3, <3>1, <3>2, <3>6 DEF Dictionary!Store, dict, call
    <3> QED BY <3>7 DEF Dictionary!Next
  <2> QED BY <1>10, <2>2, <2>3, InsertKeeps
<1>11. ASSUME NEW n \in Names, Get(n)
       PROVE  Dictionary!Next
  <2>1. put = Idle /\ UNCHANGED <<put, result>> /\ Contents' = Contents /\ reply' = Entry(n)
    BY <1>11, GetKeeps DEF Get
  <2>2. reply' = dict[n]
    BY <2>1 DEF dict
  <2>3. Dictionary!Get(n)
    BY <1>2, <1>3, <2>1, <2>2 DEF Dictionary!Get, dict, call
  <2> QED BY <2>3 DEF Dictionary!Next
<1>12. ASSUME NEW n \in Names, NEW i \in Indexes, PutStart(n, i)
       PROVE  Dictionary!Next
  <2>1. put = Idle /\ call' = [name |-> n, index |-> i] /\ UNCHANGED <<reply, result>> /\ Contents' = Contents
    BY <1>12, PutStartKeeps DEF PutStart, call
  <2>2. Dictionary!Put(n, i)
    BY <1>2, <1>3, <2>1 DEF Dictionary!Put, dict, call
  <2> QED BY <2>2 DEF Dictionary!Next
<1>13. CASE UNCHANGED vars
  BY <1>4, <1>13, TablesUnchanged DEF vars, call
<1> QED BY <1>5, <1>6, <1>7, <1>8, <1>9, <1>10, <1>11, <1>12, <1>13 DEF Next

(* The hash table implements the dictionary: every put stores its index      *)
(* under its name or refuses and changes nothing, never with                 *)
(* NK_ERR_INTERNAL_ERROR, and every lookup replies with what was last        *)
(* stored, for every hash function and every sequence of calls.              *)
THEOREM ImplementsDictionary == Spec => IsDictionary
BY InitImplements, NextImplements, Invariant, PTL DEF Spec, IsDictionary, Dictionary!Spec
=============================================================================
