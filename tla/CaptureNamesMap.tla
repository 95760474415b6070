-------------------------- MODULE CaptureNamesMap --------------------------
(***************************************************************************)
(* The hash table of src/postprocess.c from capture names to the indexes   *)
(* of their entries: open addressing with linear probing, grown to twice   *)
(* its size when an insertion would fill 70% of it.  The loop that moves   *)
(* the buckets to the new table is one step per bucket.                    *)
(***************************************************************************)
EXTENDS Naturals, FiniteSets

CONSTANTS
  Names,       \* names of captures
  Indexes,     \* indexes of capture entries
  Missing,     \* what a lookup that finds nothing returns
  NoName,      \* the name of a bucket that is not in use
  MinBuckets,  \* CAPTURE_NAMES_MAP_MIN_BUCKETS
  MaxBuckets,  \* the number of buckets whose size still fits a size_t
  MaxHash      \* bound: the largest value of pbuf_hash

ASSUME MapAssumption ==
  /\ NoName \notin Names
  /\ Missing \notin Indexes
  /\ MinBuckets \in Nat \ {0}
  /\ MaxBuckets \in Nat
  /\ MaxHash \in Nat

VARIABLES
  hash,     \* pbuf_hash of each name
  len,      \* buckets_len; 0 when the map is NULL
  buckets,  \* the table, a function on 0 .. len - 1
  used,     \* buckets_used
  oldLen,   \* during capture_names_map_rehash: old_len, else 0
  old,      \* during capture_names_map_rehash: the old table
  moved,    \* during capture_names_map_rehash: its loop variable
  put,      \* the put in progress: its step, name and index
  reply,    \* what the last capture_names_map_get returned
  result    \* what the last capture_names_map_put returned

table == <<len, buckets, used>>
rehashing == <<oldLen, old, moved>>
vars == <<hash, table, rehashing, put, reply, result>>

Bucket(n, i) == [name |-> n, index |-> i]
Free == Bucket(NoName, Missing)
EmptyTable(l) == [i \in 0 .. l - 1 |-> Free]
Idle == [step |-> "idle", name |-> NoName, index |-> Missing]

(* The bucket a search for n starts at, and the one it looks at after k      *)
(* others: the search goes round at the end of the table.                    *)
Home(n) == hash[n] % len
Probe(n, k) == IF Home(n) + k < len THEN Home(n) + k ELSE Home(n) + k - len

IsFree(n, k) == buckets[Probe(n, k)] = Free
Holds(n, k) == buckets[Probe(n, k)].name = n

(* The first of the probes for n at which a search can stop.                *)
StopsAt(n, k) ==
  /\ k \in 0 .. len - 1
  /\ IsFree(n, k) \/ Holds(n, k)
  /\ \A j \in 0 .. k - 1 : ~IsFree(n, j) /\ ~Holds(n, j)

FirstFree(n, k) ==
  /\ k \in 0 .. len - 1
  /\ IsFree(n, k)
  /\ \A j \in 0 .. k - 1 : ~IsFree(n, j)

(* should_rehash_after_put: 70% of the buckets, rounded up.                 *)
Threshold(l) == (l \div 10) * 7 + ((l % 10) * 7 + 9) \div 10
ShouldRehash == used + 1 >= Threshold(len)

-----------------------------------------------------------------------------
Init ==
  /\ hash \in [Names -> 0 .. MaxHash]
  /\ len = 0 /\ buckets = EmptyTable(0) /\ used = 0
  /\ oldLen = 0 /\ old = EmptyTable(0) /\ moved = 0
  /\ put = Idle
  /\ reply = Missing
  /\ result = "none"

(* capture_names_map_init, when memory is found; otherwise nothing changes.  *)
InitMap ==
  /\ put = Idle /\ len = 0 /\ MinBuckets <= MaxBuckets
  /\ len' = MinBuckets
  /\ buckets' = EmptyTable(MinBuckets)
  /\ UNCHANGED <<hash, used, rehashing, put, reply, result>>

(* clear_capture_data.                                                       *)
FreeMap ==
  /\ put = Idle
  /\ len' = 0 /\ buckets' = EmptyTable(0) /\ used' = 0
  /\ UNCHANGED <<hash, rehashing, put, reply, result>>

(* capture_names_map_get.                                                    *)
Get(n) ==
  /\ put = Idle
  /\ \/ \E k \in 0 .. len - 1 :
          /\ StopsAt(n, k)
          /\ reply' = IF Holds(n, k) THEN buckets[Probe(n, k)].index ELSE Missing
     \/ /\ \A k \in 0 .. len - 1 : ~StopsAt(n, k)
        /\ reply' = Missing
  /\ UNCHANGED <<hash, table, rehashing, put, result>>

(* capture_names_map_put: up to the call of capture_names_map_rehash.        *)
PutStart(n, i) ==
  /\ put = Idle /\ len > 0
  /\ put' = [step |-> IF ShouldRehash THEN "rehash" ELSE "insert", name |-> n, index |-> i]
  /\ UNCHANGED <<hash, table, rehashing, reply, result>>

(* capture_names_map_rehash: up to its loop.                                 *)
Rehash ==
  /\ put.step = "rehash"
  /\ \/ /\ 2 * len <= MaxBuckets
        /\ len' = 2 * len
        /\ buckets' = EmptyTable(2 * len)
        /\ used' = 0
        /\ oldLen' = len /\ old' = buckets /\ moved' = 0
        /\ put' = [put EXCEPT !.step = "move"]
        /\ UNCHANGED result
     \/ /\ put' = Idle /\ result' = "no_memory"
        /\ UNCHANGED <<table, rehashing>>
  /\ UNCHANGED <<hash, reply>>

(* Variant: the loop stays where it is at a bucket that is not in use.      *)
MoveStays ==
  /\ put.step = "move" /\ moved < oldLen
  /\ old[moved] # Free
  /\ moved' = moved + 1
  /\ \E k \in 0 .. len - 1 :
       /\ FirstFree(old[moved].name, k)
       /\ buckets' = [buckets EXCEPT ![Probe(old[moved].name, k)] = old[moved]]
  /\ used' = used + 1
  /\ UNCHANGED <<hash, len, oldLen, old, put, reply, result>>

(* The body of its loop.                                                     *)
Move ==
  /\ put.step = "move" /\ moved < oldLen
  /\ moved' = moved + 1
  /\ LET n == old[moved].name IN
       \/ /\ old[moved] = Free
          /\ UNCHANGED <<buckets, used>>
       \/ /\ old[moved] # Free
          /\ \E k \in 0 .. len - 1 :
               /\ FirstFree(n, k)
               /\ buckets' = [buckets EXCEPT ![Probe(n, k)] = old[moved]]
          /\ used' = used + 1
  /\ UNCHANGED <<hash, len, oldLen, old, put, reply, result>>

FreeOld ==
  /\ put.step = "move" /\ moved = oldLen
  /\ oldLen' = 0 /\ old' = EmptyTable(0) /\ moved' = 0
  /\ put' = [put EXCEPT !.step = "insert"]
  /\ UNCHANGED <<hash, table, reply, result>>

(* Variant: the index of a name that is in the table is kept.               *)
InsertNewOnly ==
  /\ put.step = "insert"
  /\ put' = Idle
  /\ \E k \in 0 .. len - 1 :
       /\ StopsAt(put.name, k)
       /\ IF Holds(put.name, k)
          THEN UNCHANGED <<buckets, used>>
          ELSE /\ buckets' = [buckets EXCEPT ![Probe(put.name, k)] = Bucket(put.name, put.index)]
               /\ used' = used + 1
  /\ result' = "stored"
  /\ UNCHANGED <<hash, len, rehashing, reply>>

(* The loop of capture_names_map_put.                                        *)
Insert ==
  /\ put.step = "insert"
  /\ put' = Idle
  /\ LET n == put.name
         store(k) == buckets' = [buckets EXCEPT ![Probe(n, k)] = Bucket(n, put.index)]
     IN  \/ /\ \E k \in 0 .. len - 1 : StopsAt(n, k) /\ ~Holds(n, k) /\ store(k)
            /\ used' = used + 1
            /\ result' = "stored"
         \/ /\ \E k \in 0 .. len - 1 : StopsAt(n, k) /\ Holds(n, k) /\ store(k)
            /\ result' = "stored"
            /\ UNCHANGED used
         \/ /\ \E k \in 0 .. len - 1 : StopsAt(n, k) /\ ~Holds(n, k)
            /\ result' = "no_memory"      \* pbuf_to_owned_copy failed
            /\ UNCHANGED <<buckets, used>>
         \/ /\ \A k \in 0 .. len - 1 : ~StopsAt(n, k)
            /\ result' = "internal_error"
            /\ UNCHANGED <<buckets, used>>
  /\ UNCHANGED <<hash, len, rehashing, reply>>

Next ==
  \/ InitMap \/ FreeMap \/ Rehash \/ Move \/ FreeOld \/ Insert
  \/ \E n \in Names : Get(n)
  \/ \E n \in Names, i \in Indexes : PutStart(n, i)

Spec == Init /\ [][Next]_vars

(* Nothing interrupts a put.                                                *)
FairSpec == Spec /\ WF_vars(Rehash \/ Move \/ FreeOld \/ Insert)

-----------------------------------------------------------------------------
(* Properties.                                                               *)

Buckets == {Free} \cup [name : Names, index : Indexes]

(* The variables have the types of the declarations.                        *)
TypeOK ==
  /\ hash \in [Names -> Nat]
  /\ len \in Nat /\ buckets \in [0 .. len - 1 -> Buckets] /\ used \in Nat
  /\ oldLen \in Nat /\ old \in [0 .. oldLen - 1 -> Buckets] /\ moved \in 0 .. oldLen
  /\ put \in {Idle} \cup [step : {"rehash", "move", "insert"}, name : Names, index : Indexes]
  /\ reply \in Indexes \cup {Missing}
  /\ result \in {"none", "stored", "no_memory", "internal_error"}

InUse == {i \in 0 .. len - 1 : buckets[i] # Free}
StillOld == {i \in moved .. oldLen - 1 : old[i] # Free}

(* No search for a name that is in the table stops before it: the buckets    *)
(* probed before its own are all in use.  Moving a bucket or growing the     *)
(* table must not open a gap.                                                *)
ChainsUnbroken ==
  \A i \in InUse :
    \E k \in 0 .. len - 1 :
      /\ Probe(buckets[i].name, k) = i
      /\ \A j \in 0 .. k - 1 : ~IsFree(buckets[i].name, j)

(* No name is twice in the table, and none is both in the table and in the   *)
(* part of the old one still to be moved.                                    *)
NamesOnce ==
  /\ \A i, j \in InUse : buckets[i].name = buckets[j].name => i = j
  /\ \A i, j \in StillOld : old[i].name = old[j].name => i = j
  /\ \A i \in InUse, j \in StillOld : buckets[i].name # old[j].name

(* buckets_used counts the buckets in use, and there is a free one whenever  *)
(* one is looked for, so the loop of a rehash, which does not count its      *)
(* probes, finds its place and a put never returns NK_ERR_INTERNAL_ERROR.    *)
HasRoom ==
  /\ used = Cardinality(InUse)
  /\ len > 0 => used + Cardinality(StillOld) < len

Entry(n) ==
  IF \E i \in InUse : buckets[i].name = n
  THEN buckets[CHOOSE i \in InUse : buckets[i].name = n].index
  ELSE IF \E i \in StillOld : old[i].name = n
       THEN old[CHOOSE i \in StillOld : old[i].name = n].index
       ELSE Missing

(* Every put returns having stored the index under the name, or without      *)
(* memory and with nothing changed, and every lookup finds what was last     *)
(* stored, whatever the names hash to and whenever the table grew: the hash  *)
(* table implements the dictionary.                                          *)
Dictionary ==
  INSTANCE NameDictionary WITH
    dict <- [n \in Names |-> Entry(n)],
    call <- [name |-> put.name, index |-> put.index]
IsDictionary == Dictionary!Spec

(* A put returns, so its loops end.                                          *)
PutReturns == put # Idle ~> put = Idle
=============================================================================
