------------------------------ MODULE Program ------------------------------
(***************************************************************************)
(* Program of src/ruby-prototype's dfa/program.rb: the virtual machine     *)
(* that runs a compiled pattern over a text, one thread per state, with    *)
(* captures (match) or without (match?), and the DFA built from it.        *)
(*                                                                         *)
(* The recursion of the epsilon closure is a stack of calls, so that the   *)
(* captures a path shares with others are seen between any two of them.    *)
(* ASCII and UTF-8 texts have loops of their own in the code, which differ *)
(* in how they decode: a text is a sequence of code points here.           *)
(***************************************************************************)
EXTENDS CapsCow, Naturals, Sequences, FiniteSets

CONSTANTS
  Patterns,    \* trees of patterns, by number
  ProgramOf(_), \* the states Compiler makes of a tree
  Arguments,   \* texts to match and where to start
  Alphabet,    \* the code points of texts, in ascending order
  AsciiCodes,  \* those below 0x80
  WordCodes,   \* those \b takes for part of a word
  Newline,     \* 0x0A
  Nil          \* no code point, and no thread

Assertions == {"begin_of_line", "end_of_line", "begin_of_string", "end_of_string_strict",
               "end_of_string_loose", "begin_of_matching", "word_boundary",
               "non_word_boundary", "ascii_word_boundary", "non_ascii_word_boundary"}
Consuming == {"code", "char_class", "dot"}
Ops == Consuming \cup {"match", "jump", "split", "cap_begin", "cap_end", "keep",
                       "assertion", "check_visited", "mark_epsilon", "check_epsilon"}
Codes == {Alphabet[i] : i \in DOMAIN Alphabet}

(* codes are what a consuming state accepts; the check ids of marks for      *)
(* empty iterations are numbered apart from the others.  No hole is left.    *)
IsProgram(list) ==
  LET n == Len(list) IN
    /\ list \in Seq([op : Ops, codes : SUBSET Codes, assertion_type : Assertions \cup {Nil},
                     cap_num : CaptureNums, check_id : Nat, next : 0 .. n, split_next : 0 .. n])
    /\ n > 0
    /\ \A i \in 1 .. n :
         /\ list[i].op # "match" => list[i].next # 0
         /\ list[i].op \in {"split", "check_epsilon"} => list[i].split_next # 0

ASSUME ProgramAssumption ==
  /\ \A i \in DOMAIN Patterns : IsProgram(ProgramOf(Patterns[i]))
  /\ Nil \notin Codes /\ Nil \notin Assertions

(* All positions of the texts are among those that captures have.            *)
ASSUME ArgumentsAssumption ==
  /\ 0 \in Positions
  /\ \A a \in Arguments :
       /\ a.text \in Seq(Codes) /\ 0 .. Len(a.text) \subseteq Positions
       /\ a.start_pos \in Nat /\ a.start_pos \in Positions

VARIABLES
  pattern,           \* the number of the pattern
  states,            \* @states, the initial one first
  full_dfa,          \* whether a DFA is to be built
  call,              \* "match" or "match?", or "new" while the DFA is built
  text, start_pos,   \* its arguments
  pc,                \* the loop that runs
  pos,
  threads,           \* of the current list those that have not run
  next_threads,
  visited,           \* check ids whose mark is the current token
  has_match_thread,
  calls,             \* calls of epsilon_closure that have not begun, next first
  dfa,               \* its states, transitions and what is left to do
  state_index,
  result

program == <<pattern, states, full_dfa>>
args == <<program, call, text, start_pos>>
loop == <<pc, pos, threads, has_match_thread>>
full == <<dfa, state_index>>
vars == <<args, loop, full, caps, next_threads, visited, calls, result>>

-----------------------------------------------------------------------------
Thread(state, keep, o) == [state |-> state, keep_pos |-> keep, caps |-> o]
Visit(state, keep, o, bits) ==
  [state |-> state, keep_pos |-> keep, caps |-> o, bits |-> bits, mark |-> 0]
Mark(id) == [state |-> 0, keep_pos |-> 0, caps |-> 0, bits |-> {}, mark |-> id]
IsMark(c) == c.state = 0

State(s) == states[s]
IsMatch(s) == State(s).op = "match"
States == DOMAIN states
has_assertion == \E s \in States : State(s).op = "assertion"
ascii_only(t) == \A i \in DOMAIN t : t[i] \in AsciiCodes
CodeAt(i) == IF i \in DOMAIN text THEN text[i] ELSE Nil

NotFound == [found |-> FALSE, captures |-> empty_caps]
Found(captures) == [found |-> TRUE, captures |-> captures]

EmptyDfa == [sets |-> <<>>, moves |-> <<>>, row |-> 0, column |-> 0, entries |-> <<>>]

Init ==
  /\ pattern \in DOMAIN Patterns /\ states = ProgramOf(Patterns[pattern])
  /\ full_dfa \in BOOLEAN /\ dfa = EmptyDfa /\ CapsInit
  /\ pc = "idle" /\ call = "none" /\ text = <<>> /\ start_pos = 0 /\ pos = 0
  /\ threads = <<>> /\ next_threads = <<>> /\ visited = {} /\ has_match_thread = FALSE
  /\ calls = <<>> /\ state_index = 0 /\ result = NotFound

-----------------------------------------------------------------------------
(* epsilon_closure_*: the call that begins next, in the state it is given.   *)

Top == Head(calls)
Begins(ops) == calls # <<>> /\ ~IsMark(Top) /\ State(Top.state).op \in ops
WithCaps == call = "match"

Goto(next) == calls' = <<[Top EXCEPT !.state = next]>> \o Tail(calls)

(* The path ends here.                                                       *)
EndPath == calls' = Tail(calls) /\ Drop({Top.caps})

PendingMarks == {calls[i].mark : i \in {j \in DOMAIN calls : IsMark(calls[j])}}

(* Variant: a match that another thread has reached is not looked for.       *)
IsVisitedUnlessMatch(s) == ~IsMatch(s) /\ State(s).check_id \in visited

IsVisited(s) == State(s).check_id \in visited

(* Without captures the closure returns from all its calls when a match is   *)
(* reached, those that have a mark to set on the way.                        *)
Leaf ==
  /\ Begins(Consuming \cup {"match"})
  /\ \/ /\ IsVisited(Top.state)
        /\ EndPath /\ UNCHANGED <<pc, next_threads, visited, result>>
     \/ /\ ~IsVisited(Top.state)
        /\ LET returns == ~WithCaps /\ IsMatch(Top.state) IN
             /\ visited' = visited \cup {State(Top.state).check_id}
                                  \cup (IF returns THEN PendingMarks ELSE {})
             /\ calls' = IF returns THEN <<>> ELSE Tail(calls)
             /\ IF returns /\ call = "match?"
                  THEN pc' = "returned" /\ result' = Found(empty_caps)
                  ELSE UNCHANGED <<pc, result>>
        /\ next_threads' = Append(next_threads, Thread(Top.state, Top.keep_pos, Top.caps))
        /\ UNCHANGED caps
  /\ UNCHANGED <<args, pos, threads, has_match_thread, full>>

Jump ==
  /\ Begins({"jump"}) /\ Goto(State(Top.state).next)
  /\ UNCHANGED <<args, loop, full, caps, next_threads, visited, result>>

Split ==
  /\ Begins({"split"})
  /\ LET fork == IF WithCaps THEN FreshId ELSE Top.caps IN
       /\ IF WithCaps THEN Unused # {} /\ Fork(Top.caps, fork) ELSE UNCHANGED caps
       /\ calls' = <<[Top EXCEPT !.state = State(Top.state).next, !.caps = fork],
                     [Top EXCEPT !.state = State(Top.state).split_next]>> \o Tail(calls)
  /\ UNCHANGED <<args, loop, full, next_threads, visited, result>>

CapBegin ==
  /\ Begins({"cap_begin"})
  /\ Goto(State(Top.state).next)
  /\ IF WithCaps THEN SetCapBegin(Top.caps, State(Top.state).cap_num, pos) ELSE UNCHANGED caps
  /\ UNCHANGED <<args, loop, full, next_threads, visited, result>>

CapEnd ==
  /\ Begins({"cap_end"})
  /\ Goto(State(Top.state).next)
  /\ IF WithCaps THEN SetCapEnd(Top.caps, State(Top.state).cap_num, pos) ELSE UNCHANGED caps
  /\ UNCHANGED <<args, loop, full, next_threads, visited, result>>

Keep ==
  /\ Begins({"keep"})
  /\ calls' = <<[Top EXCEPT !.state = State(Top.state).next, !.keep_pos = pos]>> \o Tail(calls)
  /\ UNCHANGED <<args, loop, full, caps, next_threads, visited, result>>

(* match_assertion_stream?                                                   *)
Holds(type, p) ==
  LET prev == CodeAt(p)
      curr == CodeAt(p + 1)
      next == CodeAt(p + 2)
      IsBoundary(word) == (prev \in word) # (curr \in word)
  IN  CASE type = "begin_of_line" -> p = 0 \/ (prev = Newline /\ curr # Nil)
        [] type = "end_of_line" -> curr \in {Nil, Newline}
        [] type = "begin_of_string" -> p = 0
        [] type = "end_of_string_strict" -> curr = Nil
        [] type = "end_of_string_loose" -> curr = Nil \/ (curr = Newline /\ next = Nil)
        [] type = "begin_of_matching" -> p = start_pos
        [] type = "word_boundary" -> IsBoundary(WordCodes)
        [] type = "non_word_boundary" -> ~IsBoundary(WordCodes)
        [] type = "ascii_word_boundary" -> IsBoundary(WordCodes \cap AsciiCodes)
        [] type = "non_ascii_word_boundary" -> ~IsBoundary(WordCodes \cap AsciiCodes)

Assertion ==
  /\ Begins({"assertion"})
  /\ \/ /\ Holds(State(Top.state).assertion_type, pos)
        /\ Goto(State(Top.state).next) /\ UNCHANGED caps
     \/ ~Holds(State(Top.state).assertion_type, pos) /\ EndPath
  /\ UNCHANGED <<args, loop, full, next_threads, visited, result>>

(* The mark is set after the call for the next state has returned.           *)
CheckVisited ==
  /\ Begins({"check_visited"})
  /\ \/ IsVisited(Top.state) /\ EndPath
     \/ /\ ~IsVisited(Top.state)
        /\ calls' = <<[Top EXCEPT !.state = State(Top.state).next],
                      Mark(State(Top.state).check_id)>> \o Tail(calls)
        /\ UNCHANGED caps
  /\ UNCHANGED <<args, loop, full, next_threads, visited, result>>

SetVisited ==
  /\ calls # <<>> /\ IsMark(Top)
  /\ visited' = visited \cup {Top.mark}
  /\ calls' = Tail(calls)
  /\ UNCHANGED <<args, loop, full, caps, next_threads, result>>

MarkEpsilon ==
  /\ Begins({"mark_epsilon"})
  /\ calls' = <<[Top EXCEPT !.state = State(Top.state).next,
                            !.bits = @ \cup {State(Top.state).check_id}]>> \o Tail(calls)
  /\ UNCHANGED <<args, loop, full, caps, next_threads, visited, result>>

CheckEpsilon ==
  /\ Begins({"check_epsilon"})
  /\ IF State(Top.state).check_id \in Top.bits
       THEN Goto(State(Top.state).split_next)
       ELSE Goto(State(Top.state).next)
  /\ UNCHANGED <<args, loop, full, caps, next_threads, visited, result>>

EpsilonClosure ==
  \/ Leaf \/ Jump \/ Split \/ CapBegin \/ CapEnd \/ Keep \/ Assertion
  \/ CheckVisited \/ SetVisited \/ MarkEpsilon \/ CheckEpsilon

-----------------------------------------------------------------------------
(* run_with_caps_* and run_without_caps_*.                                   *)

full_dfa_compatible ==
  \A s \in States : State(s).op \notin {"char_class", "dot", "assertion"}

has_dfa == dfa.sets # <<>>
IsBuilt == full_dfa /\ full_dfa_compatible => has_dfa

(* run_without_caps_ascii_no_assertion and the DFA do not look at the        *)
(* length; utf8_seek_byte_pos finds no position beyond it.                   *)
Rejects(name, t, start) ==
  /\ start > Len(t)
  /\ name = "match" \/ ~ascii_only(t) \/ (has_assertion /\ ~has_dfa)

StartClosure(name, keep) ==
  IF name = "match"
    THEN New(FreshId) /\ calls' = <<Visit(1, keep, FreshId, {})>>
    ELSE UNCHANGED caps /\ calls' = <<Visit(1, keep, 0, {})>>

Run(name) ==
  /\ pc = "idle" /\ IsBuilt
  /\ \E a \in Arguments :
       /\ call' = name /\ text' = a.text /\ start_pos' = a.start_pos /\ pos' = a.start_pos
       /\ \/ /\ Rejects(name, a.text, a.start_pos)
             /\ pc' = "returned" /\ UNCHANGED <<calls, state_index, caps>>
          \/ /\ ~Rejects(name, a.text, a.start_pos)
             /\ IF name = "match?" /\ has_dfa
                  THEN pc' = "full_dfa" /\ state_index' = 1 /\ UNCHANGED <<calls, caps>>
                  ELSE /\ pc' = "swap" /\ UNCHANGED state_index
                       /\ StartClosure(name, a.start_pos)
  /\ UNCHANGED <<program, threads, has_match_thread, next_threads, visited, dfa, result>>

match == Run("match")
match_p == Run("match?")

Swap ==
  /\ pc = "swap" /\ calls = <<>>
  /\ pc' = "while" /\ threads' = next_threads /\ next_threads' = <<>>
  /\ UNCHANGED <<args, pos, has_match_thread, full, caps, visited, calls, result>>

(* Variant: any thread that has matched ends the loop.                       *)
HasWonAnywhere == WithCaps /\ \E i \in DOMAIN threads : IsMatch(threads[i].state)

HasWon == WithCaps /\ threads # <<>> /\ IsMatch(Head(threads).state)

NextCode ==
  /\ pc = "while" /\ pos < Len(text) /\ ~HasWon
  /\ pc' = "threads" /\ pos' = pos + 1 /\ visited' = {} /\ has_match_thread' = FALSE
  /\ UNCHANGED <<args, threads, full, caps, next_threads, calls, result>>

Matching == {i \in DOMAIN threads : IsMatch(threads[i].state)}
First(S) == CHOOSE i \in S : \A j \in S : i <= j

Finish ==
  /\ pc = "while" /\ (pos >= Len(text) \/ HasWon)
  /\ pc' = "returned"
  /\ IF Matching # {} /\ WithCaps
       THEN LET best == threads[First(Matching)] IN
              /\ Materialize(best.caps, best.keep_pos)
              /\ result' = Found([Captures(best.caps) EXCEPT ![0].begin = best.keep_pos])
       ELSE /\ UNCHANGED caps
            /\ result' = IF Matching # {} THEN Found(empty_caps) ELSE NotFound
  /\ UNCHANGED <<args, pos, threads, has_match_thread, full, next_threads, visited, calls>>

InThreads == pc = "threads" /\ calls = <<>>

(* What waits behind a thread that has matched is given up.                  *)
KillThread ==
  /\ InThreads /\ threads # <<>>
  /\ LET t == Head(threads)
         state == State(t.state)
     IN  /\ \/ has_match_thread
            \/ IsMatch(t.state) /\ IsVisited(t.state)
            \/ state.op \in Consuming /\ text[pos] \notin state.codes
         /\ Drop({t.caps})
  /\ threads' = Tail(threads)
  /\ UNCHANGED <<args, pc, pos, has_match_thread, full, next_threads, visited, calls, result>>

CarryMatch ==
  /\ InThreads /\ WithCaps /\ threads # <<>> /\ ~has_match_thread
  /\ IsMatch(Head(threads).state) /\ ~IsVisited(Head(threads).state)
  /\ visited' = visited \cup {State(Head(threads).state).check_id}
  /\ next_threads' = Append(next_threads, Head(threads))
  /\ has_match_thread' = TRUE
  /\ threads' = Tail(threads)
  /\ UNCHANGED <<args, pc, pos, full, caps, calls, result>>

Consume ==
  /\ InThreads /\ threads # <<>> /\ ~has_match_thread
  /\ LET t == Head(threads)
         state == State(t.state)
     IN  /\ state.op \in Consuming /\ text[pos] \in state.codes
         /\ calls' = <<Visit(state.next, t.keep_pos, t.caps, {})>>
  /\ threads' = Tail(threads)
  /\ UNCHANGED <<args, pc, pos, has_match_thread, full, caps, next_threads, visited, result>>

(* A match may begin at the next position unless one has been found.         *)
Restart ==
  /\ InThreads /\ threads = <<>>
  /\ pc' = "swap"
  /\ IF has_match_thread
       THEN UNCHANGED <<calls, caps>>
       ELSE StartClosure(call, pos)
  /\ UNCHANGED <<args, pos, threads, has_match_thread, full, next_threads, visited, result>>

(* The caller takes the result, and the rest is garbage.                     *)
Return ==
  /\ pc = "returned" /\ pc' = "idle" /\ DropAll
  /\ call' = "none" /\ text' = <<>> /\ start_pos' = 0 /\ pos' = 0
  /\ threads' = <<>> /\ next_threads' = <<>> /\ visited' = {} /\ has_match_thread' = FALSE
  /\ calls' = <<>> /\ state_index' = 0 /\ result' = NotFound
  /\ UNCHANGED <<program, dfa>>

-----------------------------------------------------------------------------
(* build_full_dfa_without_caps and run_without_caps_full_dfa.                *)

CodesOf == UNION {State(s).codes : s \in States}
IsLiteral(code) == code \in CodesOf
columns == SelectSeq(Alphabet, IsLiteral)

Keys(set) == {set[i] : i \in DOMAIN set}
NextOn(s, code) ==
  IF State(s).op = "code" /\ code \in State(s).codes THEN State(s).next ELSE 0

(* Variant: a match does not begin at a later position.                      *)
AfterWithoutRestart(set, code) ==
  LET matching == {s \in Keys(set) : IsMatch(s)} IN
    IF matching # {} THEN <<CHOOSE s \in matching : TRUE>>
    ELSE [i \in DOMAIN set |-> NextOn(set[i], code)]

(* states_after_code and, for a code that is no column, states_after_other:  *)
(* where the states of a set go, the initial state last; a match stays.      *)
After(set, code) ==
  LET matching == {s \in Keys(set) : IsMatch(s)} IN
    IF matching # {} THEN <<CHOOSE s \in matching : TRUE>>
    ELSE Append([i \in DOMAIN set |-> NextOn(set[i], code)], 1)

BuildFullDfa ==
  /\ pc = "idle" /\ ~IsBuilt
  /\ call' = "new" /\ pc' = "build"
  /\ dfa' = [EmptyDfa EXCEPT !.entries = <<1>>]
  /\ UNCHANGED <<program, text, start_pos, pos, threads, has_match_thread, state_index,
                 caps, next_threads, visited, calls, result>>

CloseEntry ==
  /\ pc = "build" /\ calls = <<>> /\ dfa.entries # <<>>
  /\ calls' = IF Head(dfa.entries) = 0 THEN <<>> ELSE <<Visit(Head(dfa.entries), 0, 0, {})>>
  /\ dfa' = [dfa EXCEPT !.entries = Tail(@)]
  /\ UNCHANGED <<args, loop, state_index, caps, next_threads, visited, result>>

StatesOf(list) == [i \in DOMAIN list |-> list[i].state]
Same(list) == {i \in DOMAIN dfa.sets : Keys(dfa.sets[i]) = Keys(StatesOf(list))}

IsLastColumn(column) == column > Len(columns)

(* A set of states is added, or found among those there are, and the next    *)
(* transition is computed, of the next set when those of one are complete.   *)
AddState ==
  /\ pc = "build" /\ calls = <<>> /\ dfa.entries = <<>>
  /\ LET same == Same(next_threads)
         index == IF same = {} THEN Len(dfa.sets) + 1 ELSE First(same)
         sets == IF same = {} THEN Append(dfa.sets, StatesOf(next_threads)) ELSE dfa.sets
         moves == IF dfa.row = 0 THEN <<>>
                  ELSE [dfa.moves EXCEPT ![dfa.row] = Append(@, index)]
         isLast == dfa.row = 0 \/ IsLastColumn(dfa.column)
         row == IF isLast THEN dfa.row + 1 ELSE dfa.row
         column == IF isLast THEN 1 ELSE dfa.column + 1
     IN  IF row > Len(sets)
           THEN dfa' = [EmptyDfa EXCEPT !.sets = sets, !.moves = moves]
           ELSE dfa' = [sets |-> sets, row |-> row, column |-> column,
                        moves |-> IF isLast THEN Append(moves, <<>>) ELSE moves,
                        entries |-> After(sets[row], IF column > Len(columns) THEN Nil
                                                     ELSE columns[column])]
  /\ pc' = IF dfa'.row = 0 THEN "idle" ELSE "build"
  /\ call' = IF dfa'.row = 0 THEN "none" ELSE "new"
  /\ next_threads' = <<>> /\ visited' = {}
  /\ UNCHANGED <<program, text, start_pos, pos, threads, has_match_thread, state_index,
                 caps, calls, result>>

full_dfa_matching(index) == \E i \in DOMAIN dfa.sets[index] : IsMatch(dfa.sets[index][i])
Column(code) ==
  IF IsLiteral(code) THEN CHOOSE i \in DOMAIN columns : columns[i] = code ELSE Len(columns) + 1

(* Variant: the byte position stays where it is.                             *)
StepFullDfaStaying ==
  /\ pc = "full_dfa" /\ pos < Len(text) /\ ~full_dfa_matching(state_index)
  /\ state_index' = dfa.moves[state_index][Column(text[pos + 1])]
  /\ UNCHANGED <<args, loop, dfa, caps, next_threads, visited, calls, result>>

StepFullDfa ==
  /\ pc = "full_dfa" /\ pos < Len(text) /\ ~full_dfa_matching(state_index)
  /\ state_index' = dfa.moves[state_index][Column(text[pos + 1])]
  /\ pos' = pos + 1
  /\ UNCHANGED <<args, pc, threads, has_match_thread, dfa, caps, next_threads, visited,
                 calls, result>>

EndFullDfa ==
  /\ pc = "full_dfa" /\ (pos >= Len(text) \/ full_dfa_matching(state_index))
  /\ pc' = "returned"
  /\ result' = IF full_dfa_matching(state_index) THEN Found(empty_caps) ELSE NotFound
  /\ UNCHANGED <<args, pos, threads, has_match_thread, full, caps, next_threads, visited,
                 calls>>

FullDfa == BuildFullDfa \/ CloseEntry \/ AddState \/ StepFullDfa \/ EndFullDfa

-----------------------------------------------------------------------------
Loop ==
  Swap \/ NextCode \/ Finish \/ KillThread \/ CarryMatch \/ Consume \/ Restart

Step == EpsilonClosure \/ Loop \/ Return \/ FullDfa

Next == match \/ match_p \/ Step

Spec == Init /\ [][Next]_vars

(* A call runs until it returns.                                             *)
FairSpec == Spec /\ WF_vars(Step)

-----------------------------------------------------------------------------
(* Properties.                                                               *)

ThreadType(t) ==
  t \in [state : States, keep_pos : Positions, caps : Ids \cup {0}]
CallType(c) ==
  c \in [state : States \cup {0}, keep_pos : Positions, caps : Ids \cup {0},
         bits : SUBSET Nat, mark : Nat]
IsIndex(i) == i \in DOMAIN dfa.sets

(* The variables have the types of the code, and the DFA when it is built    *)
(* has a transition for every code, to a set that there is.                  *)
TypeOK ==
  /\ call \in {"none", "new", "match", "match?"}
  /\ pc \in {"idle", "swap", "while", "threads", "build", "full_dfa", "returned"}
  /\ start_pos \in Positions /\ pos \in Positions /\ has_match_thread \in BOOLEAN
  /\ visited \subseteq Nat
  /\ \A i \in DOMAIN threads : ThreadType(threads[i])
  /\ \A i \in DOMAIN next_threads : ThreadType(next_threads[i])
  /\ \A i \in DOMAIN calls : CallType(calls[i])
  /\ \A i \in DOMAIN dfa.moves : \A j \in DOMAIN dfa.moves[i] : IsIndex(dfa.moves[i][j])
  /\ pc # "build" => \A i \in DOMAIN dfa.sets : Len(dfa.moves[i]) = Len(columns) + 1
  /\ state_index # 0 => IsIndex(state_index)
  /\ CapsType

(* A list has one thread for a state at most, so a text is read in time      *)
(* proportional to its length, however many ways there are to match it.      *)
OneThreadPerState ==
  \A list \in {threads, next_threads} :
    \A i, j \in DOMAIN list : i # j => list[i].state # list[j].state

(* Every call returns: no loop of the program goes round without reading.    *)
MatchReturns == pc # "idle" ~> pc = "idle"
=============================================================================
