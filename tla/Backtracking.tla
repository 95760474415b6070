---------------------------- MODULE Backtracking ----------------------------
(***************************************************************************)
(* What a Program must find: the matches of a pattern's tree by            *)
(* backtracking, each alternative tried in the order of its priority, with *)
(* no program, no threads and no marks.  The tests of the matcher compare  *)
(* it with such an engine.  Patterns is the set of trees; the programs are *)
(* those Compiler makes of them.                                           *)
(***************************************************************************)
EXTENDS Program, SequencesExt

CONSTANTS GetCaseFold(_, _), ExpandCaseUnfold(_, _)   \* as in Compiler

C == INSTANCE Compiler

(* A place in a match: position, where the match begins, captures so far.    *)
At(p, keep, captures) == [pos |-> p, keep |-> keep, captures |-> captures]

RECURSIVE Ways(_, _), Repeat(_, _, _)

(* All ways to match a node from a place, the preferred one first.           *)
OneCode(set, at) ==
  IF CodeAt(at.pos + 1) \in set THEN <<[at EXCEPT !.pos = @ + 1]>> ELSE <<>>

(* What folds as the codes of a literal do, whatever it is written with.     *)
FoldsAs(codes, is_full, at) ==
  LET ends == {p \in at.pos + 1 .. Len(text) :
                 C!Folded([i \in 1 .. p - at.pos |-> CodeAt(at.pos + i)], is_full)
                   = C!Folded(codes, is_full)}
  IN  IF ends = {} THEN <<>> ELSE <<[at EXCEPT !.pos = CHOOSE p \in ends : TRUE]>>

Through(ways, Continue(_)) ==
  FoldLeft(LAMBDA found, at : found \o Continue(at), <<>>, ways)

(* The optional iterations of a quantifier, left of them at most unless      *)
(* there is no maximum; one that matches nothing is the last.                *)
Repeat(node, left, at) ==
  LET More(next) == IF next.pos = at.pos THEN <<next>> ELSE Repeat(node, left - 1, next)
      again == Through(Ways(node.children[1], at), More)
  IN  IF node.has_max /\ left = 0 THEN <<at>>
      ELSE IF node.is_greedy THEN again \o <<at>> ELSE <<at>> \o again

Ways(node, at) ==
  LET kids == node.children
  IN  CASE node.type = "literal" /\ node.is_ignore_case -> FoldsAs(node.codes, TRUE, at)
        [] node.type = "literal" /\ ~node.is_ignore_case ->
             IF \A i \in DOMAIN node.codes : CodeAt(at.pos + i) = node.codes[i]
               THEN <<[at EXCEPT !.pos = @ + Len(node.codes)]>> ELSE <<>>
        [] node.type \in {"char_class", "dot"} ->
             FoldLeft(LAMBDA found, string : found \o FoldsAs(string, FALSE, at),
                      OneCode(node.set, at), node.strings)
        [] node.type = "assertion" -> IF Holds(node.assertion_type, at.pos) THEN <<at>> ELSE <<>>
        [] node.type = "keep" -> <<[at EXCEPT !.keep = at.pos]>>
        [] node.type = "group" -> Ways(kids[1], at)
        [] node.type = "capture" ->
             LET begun == [at EXCEPT !.captures[node.capture_num] = [begin |-> at.pos, end |-> -1]]
                 Ended(next) == <<[next EXCEPT !.captures[node.capture_num].end = next.pos]>>
             IN  Through(Ways(kids[1], begun), Ended)
        [] node.type = "quantifier" ->
             LET Required(ways, i) == Through(ways, LAMBDA next : Ways(kids[1], next))
                 Rest(next) == Repeat(node, node.max - node.min, next)
             IN  Through(FoldLeft(Required, <<at>>, [i \in 1 .. node.min |-> i]), Rest)
        [] node.type = "concat" ->
             FoldLeft(LAMBDA ways, kid : Through(ways, LAMBDA next : Ways(kid, next)),
                      <<at>>, kids)
        [] node.type = "alt" ->
             FoldLeft(LAMBDA found, kid : found \o Ways(kid, at), <<>>, kids)

(* The matches that begin at a position, and the first of all.               *)
MatchesAt(start) == Ways(Patterns[pattern], At(start, start, empty_caps))
Beginnings == {i \in start_pos .. Len(text) : MatchesAt(i) # <<>>}

Expected ==
  IF Beginnings = {} THEN NotFound
  ELSE LET best == MatchesAt(First(Beginnings))[1]
       IN  Found([best.captures EXCEPT ![0] = [begin |-> best.keep, end |-> best.pos]])

-----------------------------------------------------------------------------
(* Properties.                                                               *)

(* match finds the match a backtracking engine finds first: the leftmost,    *)
(* by the priority of alternatives and quantifiers, with its captures, where *)
(* a state reached twice is followed only once and where an iteration that   *)
(* matched nothing leaves its loop.                                          *)
MatchIsFirst == pc = "returned" /\ call = "match" => result = Expected

(* match? says whether there is a match, by the loop with assertions, by the *)
(* one without or by the DFA, for a start inside the text.                   *)
MatchPIsRight ==
  pc = "returned" /\ call = "match?" /\ start_pos <= Len(text) =>
    result.found = Expected.found

=============================================================================
