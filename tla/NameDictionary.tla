--------------------------- MODULE NameDictionary ---------------------------
(***************************************************************************)
(* What src/postprocess.c needs of the map from capture names to entries:  *)
(* a dictionary.  A put stores the index under the name, or refuses and    *)
(* changes nothing; a lookup replies with what was last stored.            *)
(***************************************************************************)
CONSTANTS Names, Indexes, Missing, NoName

VARIABLES
  dict,    \* the index of each name, or Missing
  call,    \* the name and the index of the put in progress
  reply,   \* what the last lookup returned
  result   \* what the last put returned

vars == <<dict, call, reply, result>>

NoCall == [name |-> NoName, index |-> Missing]

Init ==
  /\ dict = [n \in Names |-> Missing]
  /\ call = NoCall
  /\ reply = Missing
  /\ result = "none"

Put(n, i) ==
  /\ call = NoCall
  /\ call' = [name |-> n, index |-> i]
  /\ UNCHANGED <<dict, reply, result>>

Store ==
  /\ call # NoCall
  /\ dict' = [dict EXCEPT ![call.name] = call.index]
  /\ call' = NoCall
  /\ result' = "stored"
  /\ UNCHANGED reply

Refuse ==
  /\ call # NoCall
  /\ call' = NoCall
  /\ result' = "no_memory"
  /\ UNCHANGED <<dict, reply>>

Get(n) ==
  /\ call = NoCall
  /\ reply' = dict[n]
  /\ UNCHANGED <<dict, call, result>>

Clear ==
  /\ call = NoCall
  /\ dict' = [n \in Names |-> Missing]
  /\ UNCHANGED <<call, reply, result>>

Next ==
  \/ \E n \in Names, i \in Indexes : Put(n, i)
  \/ \E n \in Names : Get(n)
  \/ Store \/ Refuse \/ Clear

Spec == Init /\ [][Next]_vars
=============================================================================
