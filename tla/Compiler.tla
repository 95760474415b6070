------------------------------ MODULE Compiler ------------------------------
(***************************************************************************)
(* Compiler of src/ruby-prototype's dfa/compiler.rb: from the tree of a    *)
(* pattern to the states of a Program.  The compiler emits states in order *)
(* and fills the holes that earlier ones have left; here a compilation is  *)
(* the record of what it has emitted, and each function returns the one it *)
(* leaves, the state its node begins at and the holes where it ends.       *)
(***************************************************************************)
EXTENDS Naturals, Sequences, SequencesExt

CONSTANTS
  Codes, Newline, Nil,
  GetCaseFold(_, _),      \* what a code folds to, with or without full folding
  ExpandCaseUnfold(_, _)  \* codes, each with the len of what it folds to, for which
                          \* it may stand at the beginning of a folded text

(* A node: codes of a literal or class, type of an assertion, number of a    *)
(* capture, bounds of a quantifier.  A class is what CharClassBuilder makes   *)
(* of it, a set and the strings that members of it fold to.                  *)
Node(type, children) ==
  [type |-> type, children |-> children, codes |-> <<>>, is_ignore_case |-> FALSE, set |-> {},
   strings |-> <<>>, assertion_type |-> Nil,
   capture_num |-> 0, min |-> 0, has_max |-> FALSE, max |-> 0, is_greedy |-> TRUE]

Literal(codes) == [Node("literal", <<>>) EXCEPT !.codes = codes]
IgnoreCase(codes) == [Literal(codes) EXCEPT !.is_ignore_case = TRUE]
CharClass(set) == [Node("char_class", <<>>) EXCEPT !.set = set]
ExpandedClass(set, strings) == [CharClass(set) EXCEPT !.strings = strings]
Dot(newline) == [Node("dot", <<>>) EXCEPT !.set = IF newline THEN Codes ELSE Codes \ {Newline}]
AssertionNode(type) == [Node("assertion", <<>>) EXCEPT !.assertion_type = type]
KeepNode == Node("keep", <<>>)
Group(child) == Node("group", <<child>>)
Capture(n, child) == [Node("capture", <<child>>) EXCEPT !.capture_num = n]
Concat(children) == Node("concat", children)
Alt(children) == Node("alt", children)
Quantifier(child, min, has_max, max, is_greedy) ==
  [Node("quantifier", <<child>>) EXCEPT
     !.min = min, !.has_max = has_max, !.max = max, !.is_greedy = is_greedy]

-----------------------------------------------------------------------------
(* Emission and holes.                                                       *)

Start == [states |-> <<>>, next_check_id |-> 1, next_epsilon_check_id |-> 1]

StateOf(op) ==
  [op |-> op, codes |-> {}, assertion_type |-> Nil, cap_num |-> 0, check_id |-> 0,
   next |-> 0, split_next |-> 0]

NextState(c) == Len(c.states) + 1
Emit(c, state) == [c EXCEPT !.states = Append(@, state)]
EmitChecked(c, state) ==
  [Emit(c, [state EXCEPT !.check_id = c.next_check_id]) EXCEPT !.next_check_id = @ + 1]

Hole(state, target) == [state |-> state, target |-> target]
Patch(c, hole, target) == [c EXCEPT !.states[hole.state][hole.target] = target]
PatchEach(c, holes, target) == FoldLeft(LAMBDA d, hole : Patch(d, hole, target), c, holes)

(* Several holes are joined by a check_visited state.                        *)
PatchAll(c, holes, target) ==
  IF Len(holes) <= 1 THEN PatchEach(c, holes, target)
  ELSE PatchEach(EmitChecked(c, [StateOf("check_visited") EXCEPT !.next = target]),
                 holes, NextState(c))

(* What a function returns: the compilation, the first state and the holes.  *)
Part(c, first, holes) == [c |-> c, first |-> first, holes |-> holes]
Emitted(c, state) == Part(Emit(c, state), NextState(c), <<Hole(NextState(c), "next")>>)
EmittedChecked(c, state) ==
  Part(EmitChecked(c, state), NextState(c), <<Hole(NextState(c), "next")>>)

(* What CompileNext makes runs where part ends.                              *)
Joined(part, next) ==
  Part(PatchAll(next.c, part.holes, next.first), part.first, next.holes)
Then(part, CompileNext(_)) == Joined(part, CompileNext(part.c))

CompileEpsilon(c) == Emitted(c, StateOf("jump"))

EmitCode(c, code) == EmittedChecked(c, [StateOf("code") EXCEPT !.codes = {code}])
CompileLiteral(c, codes) ==
  FoldLeft(LAMBDA part, code : Then(part, LAMBDA d : EmitCode(d, code)),
           EmitCode(c, Head(codes)), Tail(codes))

(* encoding.rb: a text and how it may be written, at each position by the     *)
(* code there or by one that folds to it and to codes that follow.           *)
Folded(codes, is_full) == FlattenSeq([i \in DOMAIN codes |-> GetCaseFold(codes[i], is_full)])
Unfoldings(folded, i, is_full) ==
  LET rest == SubSeq(folded, i, IF i + 2 <= Len(folded) THEN i + 2 ELSE Len(folded))
      unfolds == ExpandCaseUnfold(rest, is_full)
  IN  <<[code |-> folded[i], next |-> i + 1]>>
        \o [k \in DOMAIN unfolds |-> [code |-> unfolds[k].code, next |-> i + unfolds[k].len]]

(* A position: a split for every way to write it but the last, then the      *)
(* codes.                                                                    *)
Alternatives(c, unfoldings) ==
  LET n == Len(unfoldings)
      first == NextState(c)
      code(k) == first + n - 2 + k
      Split(k) == [StateOf("split") EXCEPT
                     !.next = code(k), !.split_next = IF k < n - 1 THEN first + k ELSE code(n)]
      EmitUnfolding(d, unfolding) ==
        EmitChecked(d, [StateOf("code") EXCEPT !.codes = {unfolding.code}])
  IN  [c |-> FoldLeft(EmitUnfolding, FoldLeft(Emit, c, [k \in 1 .. n - 1 |-> Split(k)]), unfoldings),
       open |-> [k \in 1 .. n |-> [next |-> unfoldings[k].next, hole |-> Hole(code(k), "next")]]]

(* compile_unfold_nodes: every code leads to the position after what it folds *)
(* to, which is compiled once.                                               *)
CompileLiteralIgnoreCase(c, codes, is_full) ==
  LET folded == Folded(codes, is_full)
      Into(open, i) ==
        LET leads(o) == o.next = i
            at == SelectSeq(open, leads)
        IN  [k \in DOMAIN at |-> at[k].hole]
      Position(acc, i) ==
        LET made == Alternatives(PatchEach(acc.c, Into(acc.open, i), NextState(acc.c)),
                                 Unfoldings(folded, i, is_full))
        IN  [c |-> made.c, open |-> acc.open \o made.open]
      all == FoldLeft(Position, [c |-> c, open |-> <<>>], [i \in DOMAIN folded |-> i])
  IN  Part(all.c, NextState(c), Into(all.open, Len(folded) + 1))

(* compile_char_class_like: the class, then each of its strings, which are    *)
(* not folded in full again.                                                 *)
CompileCharClass(c, node) ==
  LET state == [StateOf("char_class") EXCEPT !.codes = node.set]
      split == NextState(c)
      class == EmittedChecked(Emit(c, [StateOf("split") EXCEPT !.next = split + 1]), state)
      OrElse(acc, i) ==
        LET string == CompileLiteralIgnoreCase(acc.c, node.strings[i], FALSE)
            holes == acc.holes \o string.holes
        IN  IF i = Len(node.strings)
              THEN [c |-> Patch(string.c, Hole(acc.split, "split_next"), string.first),
                    split |-> acc.split, holes |-> holes]
              ELSE [c |-> Emit(Patch(string.c, Hole(acc.split, "split_next"), NextState(string.c)),
                               [StateOf("split") EXCEPT !.next = string.first]),
                    split |-> NextState(string.c), holes |-> holes]
      all == FoldLeft(OrElse, [c |-> class.c, split |-> split, holes |-> class.holes],
                      [i \in DOMAIN node.strings |-> i])
  IN  IF node.strings = <<>> THEN EmittedChecked(c, state) ELSE Part(all.c, split, all.holes)

RECURSIVE MatchEpsilon(_)
MatchEpsilon(node) ==
  LET kids == node.children IN
    CASE node.type \in {"assertion", "keep"} -> TRUE
      [] node.type \in {"group", "capture"} -> MatchEpsilon(kids[1])
      [] node.type = "concat" -> \A i \in DOMAIN kids : MatchEpsilon(kids[i])
      [] node.type = "alt" -> \E i \in DOMAIN kids : MatchEpsilon(kids[i])
      [] node.type = "quantifier" -> node.min = 0 \/ MatchEpsilon(kids[1])
      [] OTHER -> FALSE

-----------------------------------------------------------------------------
(* compile_node.                                                             *)

RECURSIVE Compile(_, _), CompileAlt(_, _)

Around(c, before, child, after) ==
  Then(Then(Emitted(c, before), LAMBDA d : Compile(d, child)), LAMBDA d : Emitted(d, after))

CompileCapture(c, n, child) ==
  Around(c, [StateOf("cap_begin") EXCEPT !.cap_num = n], child,
         [StateOf("cap_end") EXCEPT !.cap_num = n])

CompileNTimes(c, child, n) ==
  FoldLeft(LAMBDA part, i : Then(part, LAMBDA d : Compile(d, child)),
           Compile(c, child), [i \in 1 .. n - 1 |-> i])

(* compile_node_with_epsilon_check: an iteration that matched nothing leaves *)
(* the loop by the second branch of its check; id 0 is no check.             *)
Iteration(c, child, id) ==
  IF id = 0 THEN Compile(c, child)
  ELSE Around(c, [StateOf("mark_epsilon") EXCEPT !.check_id = id], child,
              [StateOf("check_epsilon") EXCEPT !.check_id = id])
Exits(iteration, id) ==
  IF id = 0 THEN <<>> ELSE <<Hole(iteration.holes[1].state, "split_next")>>

EpsilonCheckId(c, child) == IF MatchEpsilon(child) THEN c.next_epsilon_check_id ELSE 0
Counted(c, child) ==
  [c EXCEPT !.next_epsilon_check_id = IF MatchEpsilon(child) THEN @ + 1 ELSE @]

Targets(is_greedy) ==
  IF is_greedy THEN [body |-> "next", exit |-> "split_next"]
               ELSE [body |-> "split_next", exit |-> "next"]
Enter(iteration, split, to) == Patch(iteration.c, Hole(split, to.body), iteration.first)

CompileZeroOrMore(c, child, to) ==
  LET id == EpsilonCheckId(c, child)
      Loop(split, it) ==
        Part(PatchAll(Enter(it, split, to), it.holes, split), split,
             <<Hole(split, to.exit)>> \o Exits(it, id))
  IN  Loop(NextState(c), Iteration(Emit(Counted(c, child), StateOf("split")), child, id))

(* Every iteration but the first begins where the one before has ended.      *)
CompileAtMostNTimes(c, child, n, to) ==
  LET id == EpsilonCheckId(c, child)
      Tried(acc, split, it) ==
        [part |-> Part(Enter(it, split, to),
                       IF acc.part.first = 0 THEN split ELSE acc.part.first, it.holes),
         exits |-> acc.exits \o <<Hole(split, to.exit)>> \o Exits(it, id)]
      Try(acc, i) ==
        LET split == NextState(acc.part.c) IN
          Tried(acc, split,
                Iteration(PatchAll(Emit(acc.part.c, StateOf("split")), acc.part.holes, split),
                          child, id))
      Tries(acc) == Part(acc.part.c, acc.part.first, acc.exits \o acc.part.holes)
  IN  Tries(FoldLeft(Try, [part |-> Part(Counted(c, child), 0, <<>>), exits |-> <<>>],
                     [i \in 1 .. n |-> i]))

CompileOptional(c, node) ==
  IF node.has_max
    THEN CompileAtMostNTimes(c, node.children[1], node.max - node.min, Targets(node.is_greedy))
    ELSE CompileZeroOrMore(c, node.children[1], Targets(node.is_greedy))

CompileQuantifier(c, node) ==
  CASE node.has_max /\ node.max = 0 -> CompileEpsilon(c)
    [] node.has_max /\ node.max = node.min /\ node.max > 0 ->
         CompileNTimes(c, node.children[1], node.min)
    [] node.min = 0 /\ (node.has_max => node.max > 0) -> CompileOptional(c, node)
    [] OTHER -> Then(CompileNTimes(c, node.children[1], node.min),
                     LAMBDA d : CompileOptional(d, node))

CompileConcat(c, children) ==
  IF children = <<>> THEN CompileEpsilon(c)
  ELSE FoldLeft(LAMBDA part, child : Then(part, LAMBDA d : Compile(d, child)),
                Compile(c, Head(children)), Tail(children))

(* A split for every child but the last, which begins in the second branch   *)
(* of the last split.                                                        *)
CompileAlt(c, children) ==
  LET Others(d) == IF Len(children) = 2 THEN Compile(d, children[2])
                   ELSE CompileAlt(d, Tail(children))
      Branches(split, child, others) ==
        Part(Patch(others.c, Hole(split, "split_next"), others.first), split,
             child.holes \o others.holes)
      First(split, child) ==
        Branches(split, child, Others(Patch(child.c, Hole(split, "next"), child.first)))
  IN  First(NextState(c), Compile(Emit(c, StateOf("split")), children[1]))

Compile(c, node) ==
  CASE node.type = "literal" /\ ~node.is_ignore_case -> CompileLiteral(c, node.codes)
    [] node.type = "literal" /\ node.is_ignore_case -> CompileLiteralIgnoreCase(c, node.codes, TRUE)
    [] node.type = "char_class" -> CompileCharClass(c, node)
    [] node.type = "dot" -> EmittedChecked(c, [StateOf("dot") EXCEPT !.codes = node.set])
    [] node.type = "assertion" ->
         Emitted(c, [StateOf("assertion") EXCEPT !.assertion_type = node.assertion_type])
    [] node.type = "keep" -> Emitted(c, StateOf("keep"))
    [] node.type = "group" -> Compile(c, node.children[1])
    [] node.type = "capture" -> CompileCapture(c, node.capture_num, node.children[1])
    [] node.type = "quantifier" -> CompileQuantifier(c, node)
    [] node.type = "concat" -> CompileConcat(c, node.children)
    [] node.type = "alt" -> CompileAlt(c, node.children)

(* compile: capture 0 is the whole match.                                    *)
Compiled(node) ==
  Then(CompileCapture(Start, 0, node), LAMBDA d : EmittedChecked(d, StateOf("match"))).c.states
=============================================================================
