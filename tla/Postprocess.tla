----------------------------- MODULE Postprocess -----------------------------
(***************************************************************************)
(* nk_parser_postprocess of src/postprocess.c: four walks over the tree    *)
(* that nk_parser_parse built clear the references, renumber the captures, *)
(* collect the numbers of each name and resolve the references.  One step  *)
(* is one node of one walk.  Any allocation may fail, the warning callback *)
(* may raise, and the function may be called again whatever happened.      *)
(***************************************************************************)
EXTENDS Naturals, Sequences, SequencesExt, FiniteSets

CONSTANTS
  Names,         \* names of captures
  NoName,        \* the name of a node that has none
  Patterns,      \* the sequences of nodes a pattern may consist of
  FirstEntries,  \* capacity of the first allocation of capture_entries
  FirstNums      \* capacity of the first allocation of capture_nums

Kinds == {"capture", "back_ref", "conditional", "call"}
Targets == {"none", "name", "number", "root"}

(* What a node may refer to: only a call can mean the whole pattern.         *)
TargetsOf ==
  [capture |-> {"none"}, back_ref |-> {"name", "number"},
   conditional |-> {"name", "number"}, call |-> {"name", "number", "root"}]
Label ==
  {l \in [kind : Kinds, name : Names \cup {NoName}, target : Targets, number : Nat] :
     l.target \in TargetsOf[l.kind] /\ (l.target = "name" => l.name # NoName)}

ASSUME PostprocessAssumption ==
  /\ NoName \notin Names
  /\ \A p \in Patterns : p \in Seq(Label) /\ p # <<>>
  /\ FirstEntries \in Nat \ {0}
  /\ FirstNums \in Nat \ {0}

VARIABLES
  label,     \* the nodes of the pattern, in the order in which they begin
  level,     \* the number of nodes each is inside of
  type,      \* base.type, which set_capture_num may change
  num,       \* capture_num of each capture
  ref,       \* what each reference or call is resolved to
  num_capture_groups,
  entries,   \* capture_entries: capture_nums and capture_nums_cap of each
  cap,       \* capture_entries_cap
  dict,      \* capture_names_map: the entry of each name, or 0
  pass,      \* the walk in progress
  todo,      \* the nodes whose part of the walk has not begun, in order
  next,      \* next_capture_num, or capture_num of build_capture_entries
  seen,      \* named_seen_counts
  error,     \* what is returned, and the node at which error_bytes points
  warned     \* the nodes for which the warning callback was called

pattern == <<label, level>>
tree == <<type, num, ref>>
captures == <<entries, cap, dict>>
vars == <<pattern, tree, num_capture_groups, captures, pass, todo, next, seen, error, warned>>

Nodes == DOMAIN label
Captures == {n \in Nodes : label[n].kind = "capture"}
NamedCaptures == {n \in Captures : label[n].name # NoName}
has_named_captures == NamedCaptures # {}

Unresolved == [entry |-> 0, count |-> 0, num |-> 0]
NoError == [what |-> "none", at |-> 0]
NoEntries == [a \in Names |-> 0]

Upto(S, n) == {m \in S : m <= n}

(* The tree: a node's children follow it.  Nodes that only have children,    *)
(* such as groups and concatenations, are left out and their children stand  *)
(* in their place, so a node may have any number.                            *)
IsTree(l, d) ==
  /\ d[1] = 0
  /\ \A n \in 1 .. Len(l) - 1 :
       /\ d[n + 1] <= d[n] + 1
       /\ l[n].kind \in {"back_ref", "call"} => d[n + 1] <= d[n]

KidsOf(n) ==
  {m \in Nodes : m > n /\ level[m] = level[n] + 1 /\ \A k \in n + 1 .. m : level[k] > level[n]}

InOrder(S) ==
  [i \in 1 .. Cardinality(S) |-> CHOOSE m \in S : Cardinality(Upto(S, m)) = i]

Kids(n) == InOrder(KidsOf(n))
Roots == InOrder({m \in Nodes : level[m] = 0})

(* The capacity for one element more.                                        *)
Room(len, c, first) ==
  IF len < c THEN c ELSE IF c = 0 THEN first ELSE 2 * c

-----------------------------------------------------------------------------
Init ==
  /\ label \in Patterns
  /\ level \in [1 .. Len(label) -> 0 .. Len(label) - 1]
  /\ IsTree(label, level)
  /\ type = [n \in Nodes |-> label[n].kind]
  /\ num = [n \in Nodes |-> IF n \in Captures THEN Cardinality(Upto(Captures, n)) ELSE 0]
  /\ ref = [n \in Nodes |-> Unresolved]
  /\ num_capture_groups = Cardinality(Captures)
  /\ entries = <<>> /\ cap = 0 /\ dict = NoEntries
  /\ pass = "idle" /\ todo = <<>> /\ next = 0 /\ seen = <<>>
  /\ error = NoError /\ warned = {}

(* nk_parser_postprocess, with clear_capture_data.                           *)
Postprocess ==
  /\ pass \in {"idle", "done", "failed"}
  /\ error' = NoError /\ warned' = {}
  /\ entries' = <<>> /\ cap' = 0 /\ dict' = NoEntries
  /\ pass' = "clear" /\ todo' = Roots /\ next' = 0
  /\ UNCHANGED <<pattern, tree, num_capture_groups, seen>>

StartWalk(p) == pass' = p /\ todo' = Roots

(* The walk goes on at the first child, or after the node's last descendant. *)
Visit(p) == pass = p /\ todo # <<>>
Node == Head(todo)
WalkOn == todo' = Kids(Node) \o Tail(todo) /\ UNCHANGED pass
WalkDone(p) == pass = p /\ todo = <<>>

(* An error return leaves the tree and the entries as they are.              *)
Fail(what, at) ==
  /\ error' = [what |-> what, at |-> at]
  /\ pass' = "failed" /\ todo' = <<>> /\ next' = 0 /\ seen' = <<>>
NoMemory == Fail("no_memory", 0)

-----------------------------------------------------------------------------
(* Variant: conditionals keep what they were resolved to.                   *)
ClearNodeUnlessConditional ==
  /\ Visit("clear")
  /\ ref' = IF type[Node] \in {"back_ref", "call"} THEN [ref EXCEPT ![Node] = Unresolved] ELSE ref
  /\ WalkOn
  /\ UNCHANGED <<pattern, type, num, num_capture_groups, captures, next, seen, error, warned>>

(* clear_resolved_refs_impl.                                                 *)
ClearNode ==
  /\ Visit("clear")
  /\ ref' = IF type[Node] \in {"back_ref", "conditional", "call"}
            THEN [ref EXCEPT ![Node] = Unresolved]
            ELSE ref
  /\ WalkOn
  /\ UNCHANGED <<pattern, type, num, num_capture_groups, captures, next, seen, error, warned>>

ClearDone ==
  /\ WalkDone("clear")
  /\ StartWalk(IF has_named_captures THEN "number" ELSE "entries")
  /\ next' = 1
  /\ UNCHANGED <<pattern, tree, num_capture_groups, captures, seen, error, warned>>

(* Variant: the walk stays at a node that is no capture.                    *)
NumberNodeStays ==
  /\ Visit("number")
  /\ \/ /\ type[Node] = "capture" /\ label[Node].name # NoName
        /\ num' = [num EXCEPT ![Node] = next]
        /\ next' = next + 1
        /\ WalkOn /\ UNCHANGED type
     \/ /\ type[Node] = "capture" /\ label[Node].name = NoName
        /\ type' = [type EXCEPT ![Node] = "group"]
        /\ WalkOn /\ UNCHANGED <<num, next>>
     \/ type[Node] # "capture" /\ UNCHANGED <<pass, todo, type, num, next>>
  /\ UNCHANGED <<pattern, ref, num_capture_groups, captures, seen, error, warned>>

(* set_capture_num_impl: an unnamed capture becomes a group.                 *)
NumberNode ==
  /\ Visit("number")
  /\ \/ /\ type[Node] = "capture" /\ label[Node].name # NoName
        /\ num' = [num EXCEPT ![Node] = next]
        /\ next' = next + 1
        /\ UNCHANGED type
     \/ /\ type[Node] = "capture" /\ label[Node].name = NoName
        /\ type' = [type EXCEPT ![Node] = "group"]
        /\ UNCHANGED <<num, next>>
     \/ /\ type[Node] # "capture"
        /\ UNCHANGED <<type, num, next>>
  /\ WalkOn
  /\ UNCHANGED <<pattern, ref, num_capture_groups, captures, seen, error, warned>>

NumberDone ==
  /\ WalkDone("number")
  /\ num_capture_groups' = next - 1
  /\ StartWalk("collect") /\ next' = 0
  /\ UNCHANGED <<pattern, tree, captures, seen, error, warned>>

-----------------------------------------------------------------------------
NewEntry == [nums |-> <<>>, cap |-> 0]

WithNum(e, k) ==
  [nums |-> Append(e.nums, k), cap |-> Room(Len(e.nums), e.cap, FirstNums)]

MustGrow(e) == Len(e.nums) >= e.cap

(* append_capture_entry and append_capture_num, for an entry that is new.    *)
AppendEntry(k) ==
  /\ entries' = Append(entries, WithNum(NewEntry, k))
  /\ cap' = Room(Len(entries), cap, FirstEntries)
AppendEntryFails ==
  \/ Len(entries) >= cap /\ UNCHANGED <<entries, cap>>
  \/ /\ entries' = Append(entries, NewEntry)
     /\ cap' = Room(Len(entries), cap, FirstEntries)

(* collect_named_capture_entries_impl: a name that has an entry gets another *)
(* number.                                                                   *)
CollectKnown(n) ==
  LET e == dict[label[n].name] IN
    /\ e # 0
    /\ \/ /\ entries' = [entries EXCEPT ![e] = WithNum(@, num[n])]
          /\ WalkOn
          /\ UNCHANGED <<next, seen, error>>
       \/ /\ MustGrow(entries[e])
          /\ UNCHANGED entries
          /\ NoMemory
    /\ UNCHANGED <<cap, dict>>

(* A name that has none gets a new one.  The map, the array, the map's copy  *)
(* of the name or the array of the entry may fail; an entry may be left that *)
(* has no name or no number.                                                 *)
CollectNew(n) ==
  /\ dict[label[n].name] = 0
  /\ \/ /\ AppendEntry(num[n])
        /\ dict' = [dict EXCEPT ![label[n].name] = Len(entries) + 1]
        /\ WalkOn
        /\ UNCHANGED <<next, seen, error>>
     \/ /\ AppendEntryFails
        /\ dict' \in {dict} \cup
             IF Len(entries') > Len(entries)
             THEN {[dict EXCEPT ![label[n].name] = Len(entries) + 1]}
             ELSE {}
        /\ NoMemory
     \/ /\ UNCHANGED captures    \* capture_names_map_init fails
        /\ dict = NoEntries
        /\ NoMemory

CollectNode ==
  /\ Visit("collect")
  /\ \/ type[Node] = "capture" /\ (CollectKnown(Node) \/ CollectNew(Node))
     \/ /\ type[Node] # "capture"
        /\ WalkOn
        /\ UNCHANGED <<captures, next, seen, error>>
  /\ UNCHANGED <<pattern, tree, num_capture_groups, warned>>

CollectDone ==
  /\ WalkDone("collect")
  /\ pass' = "count"
  /\ UNCHANGED <<pattern, tree, num_capture_groups, captures, todo, next, seen, error, warned>>

(* build_capture_entries when no capture is named.                           *)
BuildEntry ==
  /\ pass = "entries" /\ next <= num_capture_groups
  /\ \/ AppendEntry(next) /\ next' = next + 1 /\ UNCHANGED <<pass, todo, seen, error>>
     \/ AppendEntryFails /\ NoMemory
  /\ UNCHANGED <<pattern, tree, num_capture_groups, dict, warned>>

BuildDone ==
  /\ pass = "entries" /\ next > num_capture_groups
  /\ pass' = "count" /\ todo' = <<>> /\ next' = 0
  /\ UNCHANGED <<pattern, tree, num_capture_groups, captures, seen, error, warned>>

-----------------------------------------------------------------------------
(* resolve_refs: the counts of names seen are only needed with names.        *)
Count ==
  /\ pass = "count"
  /\ \/ /\ has_named_captures /\ entries # <<>>
        /\ seen' = [e \in DOMAIN entries |-> 0]
        /\ StartWalk("resolve")
        /\ UNCHANGED <<next, error>>
     \/ /\ has_named_captures /\ entries # <<>>
        /\ NoMemory
     \/ /\ ~has_named_captures \/ entries = <<>>
        /\ StartWalk("resolve")
        /\ UNCHANGED <<next, seen, error>>
  /\ UNCHANGED <<pattern, tree, num_capture_groups, captures, warned>>

Resolve(n, r) ==
  /\ ref' = [ref EXCEPT ![n] = r]
  /\ WalkOn
  /\ UNCHANGED <<seen, error>>

(* Variant: the last number is not accepted.                                *)
IsCaptureNumBelow(k) == k > 0 /\ k < num_capture_groups
IsCaptureNum(k) == k > 0 /\ k <= num_capture_groups

Invalid == [back_ref |-> "invalid_back_ref", conditional |-> "invalid_conditional_group"]
Undefined == [back_ref |-> "undefined_back_ref", conditional |-> "undefined_conditional_ref"]

(* Variant: one capture too many is missed.                                 *)
HasLaterOrNone(e) == seen[e] <= Len(entries[e].nums)

(* Captures of the entry begin after this node.                              *)
HasLater(e) == seen[e] < Len(entries[e].nums)

(* resolve_back_ref and resolve_conditional: to the captures of that name    *)
(* that have begun, with a warning when there are others.                    *)
ResolveToName(n) ==
  LET l == label[n]
      e == dict[l.name]
      count == IF e = 0 THEN 0 ELSE seen[e]
      resolved == Resolve(n, [entry |-> e, count |-> count, num |-> 0])
  IN  \/ count = 0 /\ Fail(Undefined[l.kind], n) /\ UNCHANGED <<ref, warned>>
      \/ count > 0 /\ ~HasLater(e) /\ resolved /\ UNCHANGED warned
      \/ /\ count > 0 /\ HasLater(e)
         /\ warned' = warned \cup {n}
         /\ resolved \/ (Fail("raised", 0) /\ UNCHANGED ref)

ResolveToNumber(n) ==
  LET l == label[n] IN
    /\ \/ /\ IsCaptureNum(l.number)
          /\ Resolve(n, [entry |-> l.number, count |-> 1, num |-> 0])
       \/ /\ ~IsCaptureNum(l.number)
          /\ Fail(Undefined[l.kind], n)
          /\ UNCHANGED ref
    /\ UNCHANGED warned

ResolveRef(n) ==
  LET wanted == IF has_named_captures THEN "name" ELSE "number" IN
    \/ label[n].target = wanted /\ has_named_captures /\ ResolveToName(n)
    \/ label[n].target = wanted /\ ~has_named_captures /\ ResolveToNumber(n)
    \/ label[n].target # wanted /\ Fail(Invalid[label[n].kind], n) /\ UNCHANGED <<ref, warned>>

(* resolve_call: to the whole pattern, or to the only capture of that name.  *)
CallError(n) ==
  LET l == label[n]
      e == dict[l.name]
  IN  IF l.target = "root" THEN "none"
      ELSE IF has_named_captures
      THEN IF l.target # "name" THEN "invalid_subexp_call"
           ELSE IF e = 0 THEN "undefined_subexp_call"
           ELSE IF Len(entries[e].nums) # 1 THEN "invalid_subexp_call"
           ELSE "none"
      ELSE IF l.target # "number" THEN "invalid_subexp_call"
           ELSE IF ~IsCaptureNum(l.number) THEN "undefined_subexp_call"
           ELSE "none"

Callee(n) ==
  IF label[n].target = "root" THEN 0
  ELSE IF label[n].target = "number" THEN label[n].number
  ELSE entries[dict[label[n].name]].nums[1]

ResolveCall(n) ==
  /\ \/ CallError(n) = "none" /\ Resolve(n, [entry |-> 0, count |-> 0, num |-> Callee(n)])
     \/ CallError(n) # "none" /\ Fail(CallError(n), n) /\ UNCHANGED ref
  /\ UNCHANGED warned

(* Variant: that a name was seen is noted, not how often.                   *)
PassCaptureOnce(n) ==
  /\ seen' = IF label[n].name # NoName THEN [seen EXCEPT ![dict[label[n].name]] = 1] ELSE seen
  /\ WalkOn
  /\ UNCHANGED <<ref, error, warned>>

(* A capture with a name has begun.                                          *)
PassCapture(n) ==
  /\ \/ /\ label[n].name \in Names /\ dict[label[n].name] = 0
        /\ Fail("parser_bug", 0)
     \/ /\ label[n].name \in Names /\ dict[label[n].name] # 0
        /\ seen' = [seen EXCEPT ![dict[label[n].name]] = @ + 1]
        /\ WalkOn
        /\ UNCHANGED error
     \/ label[n].name = NoName /\ WalkOn /\ UNCHANGED <<seen, error>>
  /\ UNCHANGED <<ref, warned>>

(* resolve_refs_impl.                                                        *)
ResolveNode ==
  /\ Visit("resolve")
  /\ \/ type[Node] \in {"back_ref", "conditional"} /\ ResolveRef(Node)
     \/ type[Node] = "call" /\ ResolveCall(Node)
     \/ type[Node] = "capture" /\ PassCapture(Node)
     \/ type[Node] = "group" /\ WalkOn /\ UNCHANGED <<ref, seen, error, warned>>
  /\ next' = 0
  /\ UNCHANGED <<pattern, type, num, num_capture_groups, captures>>

ResolveDone ==
  /\ WalkDone("resolve")
  /\ pass' = "done" /\ seen' = <<>>
  /\ UNCHANGED <<pattern, tree, num_capture_groups, captures, todo, next, error, warned>>

Step ==
  \/ ClearNode \/ ClearDone
  \/ NumberNode \/ NumberDone
  \/ CollectNode \/ CollectDone \/ BuildEntry \/ BuildDone
  \/ Count \/ ResolveNode \/ ResolveDone

Next == Postprocess \/ Step

Spec == Init /\ [][Next]_vars

(* A call of nk_parser_postprocess runs until it returns.                    *)
FairSpec == Spec /\ WF_vars(Step)

-----------------------------------------------------------------------------
(* Properties.                                                               *)

Entry == [nums : Seq(Nat \ {0}), cap : Nat]

(* What the pattern says, by the places of its nodes alone.                  *)
Counted == IF has_named_captures THEN NamedCaptures ELSE Captures
NumberOf(c) == Cardinality(Upto(Counted, c))
Refs == {n \in Nodes : label[n].kind \in {"back_ref", "conditional"}}
Calls == {n \in Nodes : label[n].kind = "call"}
SameName(n) == {c \in NamedCaptures : label[c].name = label[n].name}
Earlier(n) == {c \in SameName(n) : c < n}

(* nk_node_get_resolved_capture_nums.                                        *)
CanRead(n) ==
  ref[n].count = 0 \/ (ref[n].entry \in DOMAIN entries /\ ref[n].count <= Len(entries[ref[n].entry].nums))
ResolvedNums(n) ==
  IF ref[n].count = 0 THEN <<>> ELSE SubSeq(entries[ref[n].entry].nums, 1, ref[n].count)

(* Once the old references are cleared no node refers to an entry or to      *)
(* numbers that are not there: not while the warning callback looks at the   *)
(* tree, and not after a call that failed or was abandoned half way.  The    *)
(* arrays they are read from hold no more than they have room for.           *)
RefsCanBeRead ==
  /\ pass # "clear" => \A n \in Refs : CanRead(n)
  /\ Len(entries) <= cap /\ \A e \in DOMAIN entries : Len(entries[e].nums) <= entries[e].cap

(* Captures are numbered in the order in which they begin, only those with a *)
(* name when any has one.  A reference by name means the captures of that    *)
(* name that begin before it, one by number that capture, a call the only    *)
(* capture of its name; however often the tree was processed.                *)
TargetsFound ==
  pass = "done" =>
    /\ num_capture_groups = Cardinality(Counted)
    /\ \A c \in Counted : type[c] = "capture" /\ num[c] = NumberOf(c)
    /\ \A c \in Captures \ Counted : type[c] = "group"
    /\ \A n \in Refs :
         ToSet(ResolvedNums(n)) = IF label[n].target = "name"
                                  THEN {NumberOf(c) : c \in Earlier(n)}
                                  ELSE {label[n].number}
    /\ \A n \in Calls :
         /\ label[n].target = "root" => ref[n].num = 0
         /\ label[n].target = "number" => ref[n].num = label[n].number
         /\ label[n].target = "name" => {c \in NamedCaptures : num[c] = ref[n].num} = SameName(n)

(* What is wrong with a node, if anything is.                                *)
Wrong(n) ==
  LET byName == label[n].target = "name"
      misfit == byName # has_named_captures
      meant == IF n \in Refs THEN Earlier(n) ELSE SameName(n)
      missing == IF byName THEN meant = {} ELSE label[n].number \notin 1 .. Cardinality(Captures)
  IN  IF n \in Captures \/ label[n].target = "root" THEN "none"
      ELSE IF n \in Refs
      THEN IF misfit THEN Invalid[label[n].kind]
           ELSE IF missing THEN Undefined[label[n].kind]
           ELSE "none"
      ELSE IF misfit THEN "invalid_subexp_call"
           ELSE IF missing THEN "undefined_subexp_call"
           ELSE IF byName /\ Cardinality(SameName(n)) > 1 THEN "invalid_subexp_call"
           ELSE "none"

(* The first node in the pattern that is wrong is reported, at its place,    *)
(* and a pattern without one is accepted.                                    *)
FirstWrongIsReported ==
  pass \in {"done", "failed"} /\ error.what \notin {"no_memory", "raised"} =>
    LET wrong == {n \in Nodes : Wrong(n) # "none"} IN
      IF wrong = {}
      THEN error = NoError
      ELSE LET first == CHOOSE n \in wrong : \A m \in wrong : n <= m
           IN  error = [what |-> Wrong(first), at |-> first]

(* A warning is given for every reference that captures of its name follow,  *)
(* and for no other.                                                         *)
WarnedOfLaterCaptures ==
  pass = "done" => warned = {n \in Refs : Earlier(n) # SameName(n)}

(* nk_parser_postprocess returns.                                            *)
PostprocessReturns == pass = "clear" ~> pass \in {"done", "failed"}
=============================================================================
