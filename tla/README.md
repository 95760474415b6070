# Naraku, modelled and verified

Naraku is a regular expression engine: a C library (`src/src`, `src/include`)
that parses a pattern into a tree of nodes, an mruby gem that binds it
(`src/mrbgems/mruby-naraku`), and a Ruby prototype that compiles the tree into a
virtual machine and a DFA (`src/ruby-prototype`). This directory holds TLA+
models of it, TLC configurations that check them on small instances, and proofs
for TLAPS of what must hold for every instance.

## Inventory

| Component | State it keeps | Operations | Interacts with | Status |
|---|---|---|---|---|
| Lexer (`parse.c` 82-2402) | position, `in_unicode_escape_brace`, number of captures, error span | `lex`, `lex_*` | called by the parser with a token it overwrites; scans and encodes bytes | modelled, proved |
| Recursive-descent parser (`parse.c` 2920-4338) | options, capture counters, `parse_depth`; locals of active functions | `nk_parser_parse` and `parse_*` | allocates nodes; takes name buffers over from tokens | modelled, proved |
| Character classes (`parse.c` 2387-3362) | arrays of items and of unions | `lex_in_char_class`, `parse_char_class_{item,union,intersection}` | its own lexer, recursion for `[...[...]...]` | modelled, proved |
| Post-processing (`postprocess.c` 234-798) | capture entries, name map | `nk_parser_postprocess` | rewrites the tree; warnings by callback | modelled, proved |
| Capture-name map (`postprocess.c` 10-221) | open-addressing hash table | `init`, `get`, `put`, rehash, `free` | used by post-processing only | modelled, proved |
| Pattern buffers and nodes (`node.c`) | owned or viewed bytes, children | `pbuf_append`, `nk_node_free`, `nk_node_to_owned` | every tree | partly: ownership, inside the parsers |
| Encodings (`src/src/encoding*`) | none | scan, encode, decode, adjust | called through a table of functions | partly: UTF-8 and Shift_JIS |
| Head cache (`adjust_mbc_head_context.c`, `naraku_encoding_internal.h`) | bitmap of character heads in a window of the text | ensure, check, set, fill, free | backward scans of the encodings | modelled, proved |
| mruby binding | ownership of parser and tree | `Parser._new`, `parse`, `postprocess` | garbage collector frees a root | left out, planned |
| Prototype compiler (`dfa/compiler.rb`) | program under construction | `compile` | node tree in, states out | modelled: `Compiler` |
| Prototype VM and DFA (`dfa/program.rb`) | thread lists, visited marks, captures, DFA states | `match?`, `match` | copy-on-write captures | partly: `Program`, `CapsCow`, proved |
| Character sets (`char_class.rb`, `char_class_builder.rb`) | sorted ranges | add, union, intersection, complement; `build` | compiler; iteration over foldings | partly: all of the builder, and of the ranges what it uses |
| Case folding and properties (`encoding_unicode.c`, `cprop.c`) | generated tables | fold, unfold, iterate; membership | encodings, prototype | partly: the functions, on a part of the tables |
| Error messages (`error.c`) | none | a table of wording | binding | left out |
| Prototype bridge (`mruby_bridge.rb`) | cached answers | runs the C parser in a process and reads its tree | compiler | left out |
| Tools, tests, benchmarks | generated data | - | - | left out |

The system is single-threaded: it has no concurrency, persistence or messages.
What is hard is *partial failure* (every `malloc`, every nested function and every
`lex` can fail, with half-built trees and name buffers owned by someone),
*scoped state* (options saved and restored across recursion), *protocols between
functions* (who has lexed the next token, who owns its name, what a lookahead
has promised), *bounds* (depth, captures, buckets, growing arrays), *state that
outlives a call* (a parser on which a second call is made, a tree processed
twice), and *shared representations* (copy-on-write captures, cached head bits).

What makes each component correct:

| Component | Properties |
|---|---|
| Lexer | tokens cover the pattern; a brace, a number, a name and an option mean what is written; a name's buffer has one owner; a call returns |
| Parser | the tree stands for the pattern; captures are numbered as they open; options never leave their group; each allocation has one owner on every path; depth is counted and bounded; internal errors are unreachable; a call returns |
| Character classes | the lookahead at hyphens and `&&` agrees with the parser; every part stands for its span; one owner per allocation; warnings once and where they belong; an error points at its cause |
| Capture-name map | it is a dictionary: what a put stored a get finds, across growth, collisions and failed allocations; every put returns |
| Post-processing | references mean the captures the pattern says; the first wrong node is reported; what a reference points at can always be read |
| Nodes and buffers | an owned copy shares nothing with the tree it was made from; a failed copy frees what it had made |
| Encodings, head cache | an adjusted position is the head of the character that contains it, whatever the cache holds |
| Case folding | unfolding is the inverse of folding under every flag; an iteration reports every folding; membership in a property is decided for every code |
| Binding | parser and tree are freed once, when nothing refers to them any more |
| Compiler, VM, DFA | a program accepts exactly what the tree means, with and without captures, as VM or DFA; captures are those of the thread with the highest priority; shared capture arrays are never written |
| Character sets | ranges stay sorted and apart; a class holds what its items, operators and foldings say |

## Modules

| Module | What it is |
|---|---|
| `Lexer` | `lex_impl` outside classes: a step per character read |
| `LexerEscapes` | its escapes, names and references; the next-state relation |
| `LexerTokens` | what the tokens say of the pattern, read off the text |
| `Lexer_proofs` | theorems about the lexer: bounds of reading, owners, the options and bounds its tokens carry, that tokens cover the pattern |
| `LexerNumbers_proofs` | theorems about its tokens that hold a number, references and code points |
| `Parser` | state machine of the recursive-descent parser |
| `ParserTree` | what a tree must say about its pattern (recursive over trees, so apart) |
| `Parser_proofs` | theorems about `Parser` |
| `CharClassParser`, `CharClassTree`, `CharClassParser_proofs` | the same three for bracketed classes |
| `CaptureNamesMap`, `CaptureNamesMap_proofs` | the hash table and theorems about it |
| `NameDictionary` | what is needed of the hash table: an abstract specification |
| `Postprocess`, `Postprocess_proofs` | the four walks of `nk_parser_postprocess`; theorems about them |
| `Utf8`, `ShiftJis` | width, encoding and decoding of a character |
| `MbcHeads` | backward scans and the cache of heads |
| `CaseFold` | folding, unfolding and the iteration over all foldings |
| `Encodings_proofs` | theorems about the cache of heads and the iteration over foldings |
| `CodeRange` | membership in the ranges of a property |
| `CharRanges` | the prototype's sets of codes as sorted ranges |
| `CharClassBuilder`, `CharClassMeaning` | the set a class stands for, as the prototype builds it; what it means |
| `Compiler` | the prototype's compiler, as functions from trees to states |
| `CapsCow` | captures copied when they are written |
| `CapsValues` | what is needed of captures: an abstract specification |
| `Program`, `Program_proofs` | the virtual machine, with and without captures, and its DFA; theorems about it and its captures |
| `Backtracking` | the match a backtracking engine finds first, against which `Program` is checked |
| `Stacks` | sequences used as call stacks |
| `MC*` | constants of the instances TLC checks |

`Parser` takes any tokens, `Lexer` makes them; `Parser` takes a bracketed class as one step,
which `CharClassParser` models in full. `Postprocess` takes trees as `Parser` builds them and a
`dict` variable in place of the hash table, which `IsDictionary` justifies. `Lexer` and `MbcHeads`
use the encodings. `CharClassBuilder` extends `CaseFold`, whose iteration it waits for, and
`CharRanges`; `CharClassMeaning` extends it. `Program` runs the states `Compiler` makes; its captures
are those of `CapsCow`, which it extends.

### Runs

| Run | Instance | Shows |
|---|---|---|
| `lexer` | about 28000 patterns: some sixty beginnings with every short continuation over the symbols that matter there | `NameBufferHasOneOwner`, `TokensCoverPattern`, `BoundsAreQuantifiers`, `ReferencesResolve`, `EscapedBytesAreCharacters`, `UnicodeCodesAsWritten`, `OptionsAsWritten`, `NamesAsWritten`, `LexReturns` |
| `parser_patterns` | up to 5 tokens of each of six vocabularies: groups; captures; options; conditionals; references; classes | `OptionsScoped`, `DepthMatchesStack`, `HeapHasOneOwner`, `NoInternalError`, `CapturesNumberedInOrder`, `TreeStandsForPattern`, `ResultUsesScopedOptions`, `ParseTerminates` |
| `parser_leak` | 2 tokens, 1 capture allowed | violates `NothingLeaks` (see Findings) |
| `names_map` | 3 names, every hash function with values up to 3, 2 to 8 buckets | `IsDictionary`, `PutReturns` |
| `postprocess` | trees of 3 nodes of every kind, of 4 with calls, of 5 with shared names; calls repeated | `RefsCanBeRead`, `TargetsFound`, `FirstWrongIsReported`, `WarnedOfLaterCaptures`, `PostprocessReturns` |
| `class_patterns` | classes of up to 4 to 6 symbols of five alphabets | `HeapHasOneOwner`, `NoInternalError`, `PartsStandForText`, `WarnedOnce`, `ErrorsPointAtCause`, `ParseTerminates` |
| `class_continued` | 3 symbols with an escaped newline | violates `InternalErrorUnreachable` |
| `head_cache` | Shift_JIS texts of up to 4 characters, UTF-8 and ISO-8859-1 of 2; words of 2 bits | `HeadBitsAreHeads`, `HeadIsRight`, no deadlock |
| `head_cache_shifted` | the same | violates `CachedHeadIsRight` |
| `case_fold` | 13 items of the tables, all flags, texts of 3 codes; 3000 classes and types under each set of flags, ignoring case or not, strict or not | `UnfoldInvertsFold`, `IterationReportsFolds`, `ClassStandsForNode` |
| `code_range_below` | codes up to 4, up to 2 ranges, a `size_t` of 3 bits | violates `MembershipIsRight` |
| `matcher` | 199 patterns, 11 texts and starts, with and without the DFA | `OneThreadPerState`, `MatchIsFirst`, `MatchPIsRight`, `CapturesAreValues`, `MatchReturns` |

The lexer, the parsers, case folding and the findings stop when they are done, so their runs have
`CHECK_DEADLOCK FALSE`; the other components can always be called again.

The type invariants of the proved modules are theorems and no run repeats them, nor
`ChainsUnbroken` of the name map.

## The lexer: `Lexer.tla`, `LexerEscapes.tla`

`pattern` is a sequence of symbols, one for a character or for a class of characters the
lexer does not tell apart: `WIDE` is one beyond ASCII, `BYTES` bytes that are no character. `pos` is
the position, `pc` where in the nest of `lex_*` functions the next character is read, `local` what they hold: the
number being read and where it goes on (`after`), where the construct began, the bytes of an
escape, the terminator of a name. A step reads one symbol and takes all exits the code has there.
`name` is the `nk_pbuf_t` of the name being read, a view of the pattern until an escape
in it makes the lexer copy it; `heap` is what is allocated, and any
allocation may fail. `Fail` is an error return with its span, `Emit` a token.
`in_unicode_escape_brace` survives the call, so that `\u{61 62}` is a token for each code.

Between two calls the parser does to the lexer what `Opens` and `Captures` say:
it counts the captures opened, and sets and restores extended mode (`parse_atom_impl`). Everything else it
does is in `Parser`.

`LexerTokens.tla` says what a token means without scanning from the left: a brace is a
quantifier exactly if one of four forms stands there; a relative reference counts back from the captures
opened before; an option group sets the last word on each option; a name in the token is the text with
its escapes taken; between two tokens stand only white space and comments.

Bounds. The patterns are chosen construct by construct: each beginning leads to a place where the lexer
decides, and the continuations, up to four symbols, hold the characters it asks for there and one it does not. Limits on
repetitions, references and depth are 100, 100 and 10, which three digits pass. Two addresses suffice: a name is
copied to a larger buffer before the old one is released.

Fairness. `LexReturns` assumes `WF_vars(Next)`: a C function runs on.

### Proofs: `Lexer_proofs.tla`

For every pattern over any symbols, all options and limits, any addresses:

* `LexerInvariant`: `Spec => []LexerInv`.
* `StaysInPattern`: the position never passes the end, also where the lexer goes back to a brace or skips a number.
* `NameBuffersAreOwned`: `Spec => []NameBufferHasOneOwner`.
* `OptionsAreRead`: `Spec => []OptionsAsWritten`.
* `BoundsAreRead`: `Spec => []BoundsAreQuantifiers`.
* `TokensCover`: `Spec => []TokensCoverPattern`.

`LexerInv == Located /\ Owned`. `Located` says of every place in the lexer where the position a
construct will return to is (`StandsAt`), and, while a number is read, that this holds of the place it
goes on to. `Owned` says at which places a name may have a buffer (`MayHold`); since a number is read by
one function for names, depths, escapes and quantifiers, it needs `after` as well. One lemma
per action shows that both parts are kept.

The theorems on what a token says compare a scan from the left with what the whole text says, so
their invariants say what has been understood of a construct read in part. In a group, `AsRead` does so
for the letters up to the position: an option is what its last letter says, before and after the place `m`
of the first minus, or the end if there is none yet; `LetterKeeps` is the step of one letter. In bounds, `BoundsAt` gives for each
place the digits read, their value, where the comma is and which locals hold what; `NumberAt` says so
in the middle of a number, where `ValueOfNext` is the step of one digit. That a brace which fails to
be a quantifier is one nowhere, however long the pattern, is `NoBoundsAfterDigits` and
`NoBoundsAfterComma`; that its end and its comma are the only ones, `BoundsUnique` and `CommaIs`. `StepElsewhere` shows that no step of another
construct comes near these locals: it also has the last word on `{` inside `\u{...}`, whose
code points begin where the previous token ended (`Pending`).

That the tokens cover the pattern needs to know of every place in the lexer that the text it has gone over since the
last token is either ignored or the beginning of the next token. `Covered` says so: the tokens so far have
only white space and comments between them (`AllIgnored`), what has a meaning begins at `lo` (`HasMeaning`), and
the places in `Openings`, where the lexer stands one to three characters into a construct, say which
these are (`OpeningAt`). Beyond them a token only grows; `Forward` is that step, and most actions
are one. `IgnoredIs` and the lemmas around it decide what is ignored from its first character or two.

### Proofs: `LexerNumbers_proofs.tla`

It extends `Lexer_proofs`; what a token says that holds a number:

* `ReferencesAreResolved`: `Spec => []ReferencesResolve`.
* `UnicodeCodesAreWritten`: `Spec => []UnicodeCodesAsWritten`.

A reference needs four invariants. `Counting`: `num_capture_groups` counts the groups opened by the tokens
returned, and is one token behind until `lex` is called again, which is why the counts of a reference are
those of the tokens before it. `Holds`: a name is held only at the places in `MayHold`, so none where a reference's own
number is read. `BareRead` follows `\12`: while its digits are read the value so far (`Counts`) is theirs and within the limit; then
either the token is a reference with all of them, or the rest is read as a byte (`ByteEscape`) and what was decided
stays true, because no group is opened in between (`IsGroup`). `ReferencesRead` follows the others from where the number or name begins: the locals
`name_lo`, `sign`, `num` and `has_num`, which depth, quotes and closing brackets come after, still say what
the text at `name_lo` does when the token is returned. Each kind of place keeps a part of it (`Numbered`,
`Targeted`, `Nameable`), and most actions only leave these locals alone (`Agrees`). That digits skipped one by one end where
`RunEnd` says is `RunEndIs`, that a value past the limit stays past it `ValueGrows`.

The value of a code point needs to know, between any two characters, whether a brace of `\u{...}` is open.
`BraceTracked` says that `in_unicode_escape_brace` is set exactly if a token opened a brace
(`OpensBrace`) and none was closed from there to the end of the last token. `UnicodeAt` says where the flag can be set
at all: only while a code is read. There `CodeAt` gives the digits read and their value (`HexRead`), and whether the code began
with `\u`, with `\u{` or where the last one ended; everywhere else no code stands at `lo` and the flag is off. `Stays` carries
both over the steps of other constructs. `CodeToken` is what the token returned says, and whether it leaves
the brace open.

What a name and the bytes of a character say, and `LexReturns`, are model-checked only.

## The parser: `Parser.tla`

The functions of `parse.c` are a machine with an explicit call stack.
`stack` holds one record per active C function (`fn`), with its program
counter (`pc`) and its locals: the nodes it holds (`kids`), the addresses of its
array or name (`mem`), the capacity of the array (`cap`), the saved options.
`control` says what happens next: a function is entered (`call`), the lexer runs
(`lex`, then `lexed`), the function on top runs (`run`), or a result comes back to
it (`ok`, `error`). Each action is the code between two such points, with every
exit it has. Memory is a set of addresses (`heap`): an allocation takes a fresh
one, and any allocation may fail, whether there is room or not. A node knows
what `nk_node_free` releases with it (`owns`).

The pattern is not fixed: `lex` returns any token of a vocabulary of `Vocabularies`,
or fails, until `length` tokens were read; so all patterns up to a length are
explored at once. `input` records the tokens. What a token's text is does not
matter to the parser and is left out, save that a name may be an owned buffer, and
that `\u{...}` makes the lexer return code points until the brace closes.

Abstracted: the values in nodes, the text of errors, and the way the lexer chooses
a token. A bracketed class is one step that builds a node with one array, or fails.

`ParserTree.tla` says what a tree stands for: `Unparse` gives the tokens of a tree,
and `TreeStandsForPattern` compares them with those its span covers whenever any function
returns a node, so a regrouped, lost or doubled child is caught where it happens.

Bounds. Three children fill an array of capacity 2 and make it grow; three nested
groups (or two and their contents) exceed `MaxParseDepth`, which is 12, at five
functions per group; three captures exceed `MaxCaptureNum`, 2, within five tokens. The 14
addresses are never all in use, so allocation fails only by choice. The run makes one call (`MaxCalls`): a call on a parser
whose last call failed doubles the states, and that it finds options and depth as they were is proved. One vocabulary per
pattern keeps five tokens in reach: each vocabulary holds the tokens that interact (a
capture and a quantifier around it; `(?i)` and the group it ends with; the two branches
of a conditional and an option in them).

Fairness. `ParseTerminates` assumes `WF_vars(Next)`: the parser is a plain C function,
which runs on once it is called.

### Proofs: `Parser_proofs.tla`

For all vocabularies, options, limits, lengths and addresses that satisfy
`ParserAssumption`:

* `TypeCorrect`: `Spec => []TypeOK`.
* `DepthIsBounded`: `parse_depth` is the number of active functions and at most
  the limit, so the recursion of the C stack is bounded.
* `OptionsAreScoped`: each function gives back the options it was called with.

The invariant is `IInv == StackInv /\ Scalars`. `OptionsScoped` relates
each frame to the one below; it is not inductive alone because a function other
than `parse_atom` could have opened an option group: `FrameShape` excludes that.
Three lemmas say that `Continue`, `Return` and `EnterFunction` keep the
stack's part; one lemma per C function shows that each of its actions is one of
these three with the right frame; `PTL` does the rest.

* `NoInternalErrors`: `Spec => []NoInternalError`.
* `HeapIsOwned`: `Spec => []HeapHasOneOwner`.

`NoInternalError` is not inductive: that a function is not called at a terminator
depends on where its caller stands, and that an alternation stops where its caller
expects depends on what called it. `FlowInv` adds both: `Chain` says that
each frame runs the function that the frame below called last (`Callee`) at a
program counter of that function, and `Flow` says at which tokens each function
may start and stop (`StopsAt`), and that inside `\u{...}` the token is a code point.

`HeapHasOneOwner` says who owns what but not what a frame holds at each point
of its function. `HeapInv` adds that (`Shape`: nothing when it is called, one node
when it is about to return it, an array from the first `|` on), that the children of
one frame own disjoint addresses (else appending one literal to another could free a
part of a sibling), that only tokens that can have a name have one, and that it has
been taken over before the next token is lexed (`Names`). Each branch of each action
is then one exchange, `Trade`: it frees a part of what the running function, the
returned node and the token hold, allocates fresh addresses, and what is left
is what the frame or the node holds afterwards. `HeapContinues` and `HeapReturns`
show that such an exchange keeps `HeapInv`; the lemmas on nodes (`AddKid`,
`MergeKid`, `NodeMade`, `NodeMerged`) compute what is owned. `AtomFails` needs
`Chain`: which addresses it frees depends on the program counter. The one leak of
the code stays visible: `leaked` is one of the owners, and `parser_leak` shows it.

The tree properties and termination are model-checked only.

## Bracketed classes: `CharClassParser.tla`

`lex_in_char_class` and the three functions above it, as the same kind of machine. Here
the pattern is a sequence of symbols and the lexer is modelled in full, because the
hard part is its lookahead: whether a hyphen is a literal, the operator of a range, or
cause for a warning depends on the state the lexer is called in
(`BEGIN` ... `WAIT_RANGE_END`) and on up to two characters that follow; whether `&` is an
operator depends on the next; and the parser relies on the promise a token makes about
the one after it. A symbol is a character or an escape the lexer reads as a whole: `ESC` is
`\-`, `UESC` opens `\u{` and `HEX` goes on inside it, `TYPE` is `\d`, `POSIX` is
`[:digit:]`, `NOCODE` an escape whose code the encoding cannot express, `CONTINUE` a
backslash before a newline, `BYTES` invalid bytes.

`tok` is the token shared by the functions, a frame holds `parts` (the array of items or
unions), `cap`, `begin` (`begin_tok`) and `item` (`begin_item`). `warnings` are the calls of
the callback, `error_span` what `error_bytes` delimits.
`control.op = "undefined"` is the step in which the code reads a type that was never set.

`CharClassTree.tla` states what a class says: `PartsStandForText` compares the text of every
item, union and class with the text its span covers when it is returned;
`WarnedOnce` computes from the finished class and the pattern which hyphens and brackets
could have been meant as operators, and demands exactly those warnings, though the lexer
gives some of them and the parser the others.

Bounds. Six symbols of `-`, `]`, `a`, `&` cover every state of the lexer followed by its
longest lookahead and another item; five with `b` give ranges in and out of
order; five with `[` and `^` nest classes deeper than `MaxParseDepth`, 6, which the third bracket exceeds
at three functions each; four escapes fill an array and grow it. 16
addresses are never all in use.

Fairness. `ParseTerminates` assumes `WF_vars(Next)`, as for the parser.

### Proofs: `CharClassParser_proofs.tla`

For classes of any length and nesting, every limit and every set of addresses:

* `TypeCorrect`; no array ever holds more than its capacity.
* `DepthIsBounded`: as for the parser.
* `ArraysAreNotEmptied`: no union shrinks its array to nothing, which `realloc` may
  answer with NULL after freeing it.
* `InternalErrorsNotReturned`: in a class without an escaped newline no internal error is
  returned, and a range hyphen always follows an item.
* `HeapIsOwned`: `HeapHasOneOwner`; nothing is leaked, freed twice or owned by two, whatever fails.
* `ErrorsAreLocated`: `ErrorsPointAtCause`; the span of an error names what is wrong in the pattern.

`NoInternalError` is not inductive: that `NK_ERR_PARSER_BUG` is not returned depends on what the token is
when a function looks at it, which depends on the state the lexer was called in and on
what it saw ahead. The strengthening, `Flow`, says for each kind of control what may be
expected: `CallFits` (the token a function is entered with), `LexFits` (the lexer is called in the state
that fits the frame), `TokenFits` (the token fits the state and the next symbol), `RunFits`.
`MovesKeep` reduces a step to one of: continue, call, return, fail; one lemma per C function
shows its actions to be such moves; `TokenKeeps` does so for the lexer. Where the pattern has an
escaped newline the promise is broken and the proof does not apply: that is the finding below.

`HeapHasOneOwner` needs `HeapInv`, which TLC has checked too: `Shape` says what a frame may own at each
point of its function (nothing when it starts; a union that waits for an item has none of its own; a class has
no array before its first union), and `Callers` that an item is only ever handed a class, since it takes the
unions over with the class. As in `Parser_proofs`, a step is a `Trade` of the running function: what it
frees was its own or the value handed to it, what it allocates is fresh, and the rest changes hands.
`HeapContinues` and `HeapReturns` prove once that a trade keeps all owners apart; `ItemHeap`,
`UnionHeap` and `IntersectionHeap` show each action to be one. The states after `NOCODE`, where the code reads
a type that is not set, are no exception to `HeapInv`: the property excepts what that read may free.

`ErrorsPointAtCause` speaks of the end of a parse, when tokens, items and frames are gone. `PointInv`, checked by
TLC before it was proved, says what they remember while they are there: a token the symbol it was read from
(`TokenPoints`), an item the symbols of its bounds (`ItemPoints`), a class that is still empty that only
backslashes before newlines and one `^` lie between its bracket and the lexer (`OnlyOpened`), a function that
returns which token stopped it (`ReturnPoints`, with `CallOrder`: who calls whom). No error is located before there is
one, so the span a step sets is the one that is reported, and callers hand it on unchanged.

Tree and warning properties and liveness are model-checked only: their definitions recurse over the class.

## The capture-name map: `CaptureNamesMap.tla`

The hash table of `postprocess.c`: `buckets` is the table, `len` its length (0 for NULL),
`used` the count of buckets in use; `old`, `oldLen`, `moved` are the locals of
`capture_names_map_rehash`, whose loop is one step per bucket; `put` is the call in
progress. `hash` is chosen in the initial state and never changes: any function from
names to numbers. `capture_names_map_init`, `_free`, `_get` and `_put` are the operations, and each allocation
may fail.

`NameDictionary.tla` is what the users of the map need: a put stores or refuses, a get
replies with what was stored last. The refinement maps `dict` to `Entry(n)`: the index
the name has in the table, or in the part of the old table not moved yet.

Bounds. The code starts with 16 buckets and the model with 2, so that the table grows twice
with three names; at 70% a table of 2 grows with its second name. Hash values up to 3
give every pattern of collisions in tables of 2 and 4, with a wrap-around at the end.
`MaxBuckets` is 8: growth beyond it is the overflow the code checks for and refuses.

Fairness. `PutReturns` assumes weak fairness of the steps inside a put: nothing interrupts it.

### Proofs: `CaptureNamesMap_proofs.tla`

For all names, indexes, hash functions, first sizes and limits:

* `ImplementsDictionary`: `Spec => IsDictionary`.
* `NoChainBreaks`, `NamesAreUnique`, `RoomIsLeft`, `TypeCorrect`.

The argument: probing from any start reaches every bucket once (`ProbeReachesAll`); the
threshold of a table is at most its length, so an insertion leaves a free bucket
(`ThresholdBelow`, `HasRoom`); hence a search ends (`SearchEnds`), at the name if it is there
because the chain to it has no gap (`ChainsUnbroken`) and it is there once (`NamesOnce`).
The refinement follows from `Entry` being a function of the contents of the two tables: a
move takes a name from one to the other and changes neither its index nor others
(`Restored`, `EntryStays`). `HasRoom` counts the names still to be moved, which is
what makes it inductive during a rehash.

`PutReturns` is model-checked only.

## Post-processing: `Postprocess.tla`

`nk_parser_postprocess` makes four walks over a tree: clear the references, number the
captures, collect the numbers of each name, resolve the references. A tree is the sequence of its
captures and references in the order they begin (`label`) with their `level`; nodes
that merely have children are left out. `todo` holds the nodes whose part of a walk has
not begun: visiting a node puts its children in front, so the order is that of the recursion.
`entries` and `cap` are `capture_entries` and its capacity, `seen` the counts
`named_seen_counts`, `ref` what a reference was resolved to. One step is one node of one walk, with
its allocations, each of which may fail; the warning callback may raise, which abandons
the call as `longjmp` does. The function may be called again after anything.

The properties say from the pattern alone what the result is: `NumberOf(c)` counts the
captures that begin before `c`, `Earlier(n)` are those of the name of `n` that begin before it, `Wrong(n)` is
what is wrong with a node. `RefsCanBeRead` is about what remains of a tree after a failed or
abandoned call: what a reference points at must still be there.

Bounds. Three nodes of all kinds (by name, by number, to the root) give every combination of a
reference with captures before, around and after it; four with calls find a name that two
captures have; five that share two names grow the arrays, whose first capacities are 1 here. A pattern is
processed any number of times.

Fairness. `PostprocessReturns` assumes weak fairness of the steps of a call.

Not modelled: a callback that calls `nk_parser_postprocess` on the same tree; the leak of
`named_seen_counts` when the callback raises (the memory of this function is not tracked).

### Proofs: `Postprocess_proofs.tla`

For every set of patterns (`PostprocessAssumption`: any tree in which a reference by name has a name
and only a call means the whole pattern), any names, any first capacities, whatever fails and however
often the tree is processed, the four safety properties of the run:

* `ReferencesAreReadable`: `RefsCanBeRead`, also after a call that failed or was abandoned.
* `ReferencesAreResolved`: `TargetsFound`.
* `ErrorsAreTheFirst`: `FirstWrongIsReported`.
* `WarningsAreRight`: `WarnedOfLaterCaptures`.

None of them is inductive: they speak of the end of a call and are true there because four separate walks
saw the same captures in the same order. The invariant `Inv`, checked by TLC before it was proved,
says where a walk stands and what is true of the nodes behind it:

* `Walking`: `todo` lists, in order, the nodes that begin at `Place` or later and are not inside another of
  those (`Ahead`). `WalkGoesOn` proves that putting the children of a node in its place keeps this, with the next
  node as the new place; so each walk visits the nodes in the order they begin, whatever the tree.
* `NumbersGiven`, `NamesCollected`, `NamesSeen`: the next number, the length of an entry and the count of names seen are
  the numbers of captures before `Place`, of any name or of one. `Ranks` and `Counts` are the facts
  about counting: a capture's number is its rank among the captures counted, its place in an entry the rank among those of its
  name. That the three walks count alike makes the prefix a reference reads the captures that begin before it.
* `RefsResolved`, `Warnings`: references behind `Place` are right, those ahead are cleared, and no node behind was wrong;
  hence `ErrorFound`: the node at which a walk fails is the first wrong one. `RightCanBeRead` shows that a
  reference resolved in this call can be read, and `FailKeeps` that it still can when the call ends early, because
  entries are dropped only by a call that clears the references first.

`PostprocessReturns` is model-checked only (fairness).

## Encodings and the head cache: `Utf8.tla`, `ShiftJis.tla`, `MbcHeads.tla`

`Utf8` and `ShiftJis` are the functions of `utf_8.c` and `shift_jis.c` on sequences of bytes; the transition
table of UTF-8 is the relation it encodes. `MbcHeads` is `nk_enc_adjust_mbc_head`:
given a byte, find the first byte of its character. UTF-8 goes back to a byte that is no
continuation. Shift_JIS cannot tell: it goes back over bytes that may be second bytes, to a place where a
character must begin, and then parity decides; a cache of heads found before shortens that. The cache is a window of the text,
`cache_start_offset` and `head_bits_capacity` words, with `head_bits` the bits that are set. `Ensure` grows it downwards, upwards or both, in whole words,
doubling at least, and may fail; `Moved` shifts the bits; `FillStep2` marks every other byte of a
run of two-byte characters. `FreeContext` gives the window up. A step is one call of a function or one byte of a scan; callers ask for any
byte in any order.

Bounds. Words have 2 bits instead of 64, so that a text of eight bytes spans four words and the
window grows in both directions, more than once. Characters are of one byte or two, with bytes that may be first, second or both.

### Proofs: `Encodings_proofs.tla`, the heads

For every valid text, every even size of a word and every order of calls and failures:

* `HeadsInvariant`: `Spec => []HeadsInv`.
* `BitsAreHeads`: `Spec => []HeadBitsAreHeads`.
* `HeadsAreRight`: `Spec => []HeadIsRight`.

`HeadsInv == Typed /\ Window /\ Scanning /\ HeadIsRight`. `Window`: the window begins and ends on whole words and its bits are heads.
`Scanning`: the bytes a scan has passed may be second bytes, so characters lie among them as
pairs from where it stands; at a cached head, or at a byte that can only be first, the parity
of the distance gives the head. That a text splits into characters in one way is well-founded induction
over its positions, as a lemma about a fixed predicate.

## Case folding: `CaseFold.tla`, `CodeRange.tla`

`CaseFold` translates `encoding_unicode.c` and the wrappers that choose it or the generated ASCII functions. The
tables are those `gen_case_map.rb` makes of `FoldItems`: an unfolding looks up all items with a
folding, for one, two or three codes; the rules for Turkish replace entries in all three functions. A text is
folded code by code, then unfolded; or all foldings are gone through with a callback that may raise.
`CodeRange` is the binary search of `code_in_code_range` with unsigned bounds.

Bounds. Thirteen items of the real tables: each kind of folding (simple, full, both, with a special one), three codes
that fold to one, two that fold to the same string, and I and its dotted form. Texts of three codes
reach the longest entries.

### Proofs: `Encodings_proofs.tla`, the foldings

* `FoldsAreReported`: `FoldSpec => []IterationReportsFolds`, for every table and all flags.

`FoldAssumption` says how the tables are made: items ascend by their codes, and none maps a code to itself
(`case_map.rb:23`, `gen_case_map.rb:125`). `IterationInv` relates what has been reported to the entries passed: every report
is the folding of one of them and every one that folds has its report, the last one before the entry the
iteration is at. `ReportIsFold` is why the two functions agree: the lookup of a code finds the entry the iteration is at
(`ItemFound`), and an entry that is not reported is one whose code stays as it is. The steps of `CharClassBuilder` leave the
iteration alone. `UnfoldInvertsFold` adds up a recursive function over the items of an entry and stays with TLC.

## Classes as sets: `CharRanges.tla`, `CharClassBuilder.tla`

`CharRanges` is the prototype's `CharClass`: `Add` finds with two binary searches the ranges a new one
touches and merges them; union, intersection and complement are made of it. `CharClassBuilder` is
`build` and what it calls, as functions from a node to a state: ranges, strings (what a
code folds to if that is several codes) and, for ASCII codes, whether expansion beyond ASCII is allowed
(`ascii_case_fold_tracking`). In strict mode every operand is folded before each operation and a class with strings cannot be negated;
in the other only the whole is folded. `BuildClass` follows an iteration of `CaseFold` and folds with what that reported,
as the code does by calling `iterate_case_fold`.

`CharClassMeaning` has no ranges and no steps: whether a code is in the class is a predicate over its items; in
strict mode a predicate over what codes fold to. `ClassStandsForNode` compares both at every code where an item, a folding or
the result can change, and so for all codes; it demands the strings, the error, and that ranges are sorted and apart.

Not strict and ignoring case, a code stands for those that share its folding, but across the end of ASCII only if an item
other than `\w` and its like holds it (`docs/ja/onigmo_bugs.md:183`). The builder asks differently
(see What the models show beyond the properties). `ClassStandsForNode` leaves open the codes for which that matters: it demands what holds in
both readings (`CertainlyStandsFor`) and excludes what holds in neither (`PossiblyStandsFor`). `[s]` must hold the long s, `[\w]` must not, `[S]` may.

Bounds. Items are single codes that fold, ranges that leave one out, `\w`, a property of all but ASCII, and POSIX
classes, within ASCII or not, negated or not; classes have one, two or three of them, united, intersected, nested
and negated, under each of the five sets of flags. The ranges of a property are few, and hold the codes that fold.

Nothing is proved about these two: the builder is recursive over nodes.

## The matcher: `Compiler.tla`, `Program.tla`, `CapsCow.tla`

**Compiler.** `compile_node` and what it calls, as functions. The code emits states in order
and patches holes left by earlier ones; a compilation here is the record of what it has
emitted, and each function returns it with the state where its node begins and the holes where it
ends. `PatchAll` is `patch_all`: several holes that meet get a common `check_visited`. Trees are those the
C parser builds, less options and references. A literal that ignores case becomes a graph of alternatives over
its folding (`Unfoldings`, from `encoding.rb`), compiled from its end; a class with strings becomes splits.

**Program.** One thread per state; `threads` is the list that runs, `next_threads` the one that
fills, `visited` the check ids whose mark equals the token (a new token is an empty set). The recursion of
`epsilon_closure_*` is the sequence `calls`, the next call first, so that a `split` puts two calls
in front, and a `Mark` stands for the assignment after a recursive call. One action is one case
of the closure. `call` tells `match`, which carries captures, from `match?`, which stops the closure at
the first match. `pc` says which loop runs; one action is one thread of an iteration, a new code, a restart at
the next position. The DFA of `full_dfa` is built by the same closure, one
set of states at a time (`BuildFullDfa`, `CloseEntry`, `AddState`), and then walked.

**Captures.** `Caps` objects refer to arrays and say whether theirs is shared: `Fork` marks both,
`Write` copies first if marked. An object that no thread or waiting call has is garbage.
`CapsValues` is what the matcher needs: captures are values of their own. The refinement maps each object to the
contents of its array, and `Program` is checked to use it so.

`Backtracking.tla` computes, from the tree and the text alone, the list of all ways to match, the
preferred one first, and takes the first of the leftmost start: `MatchIsFirst` compares position, `\K` and every capture. It
is what the test of the prototype compares with on its examples.

Abstracted: a text is a sequence of code points (the code has one loop for ASCII and one for UTF-8, which
differ in decoding); a class is the set of its code points; pools of `Thread` objects, and `Caps`
for the unused ones, are left to the garbage collector; a recursion deeper than Ruby's stack.

Bounds. 160 patterns are loops of five kinds over a pair, joined or alternative, of a letter, nothing, a
loop and an optional capture, in a capture of their own: every way for an iteration to match nothing, to
be entered twice in one closure, and to be left with another's captures. 30 others have each
assertion between dots and between loops, `\K`, classes, and a letter beyond ASCII that is a word character only where
the code says so. Nine ignore case, where one letter folds to two that unfold to it again. Texts of up to three letters, of which a start can be inside, at the end and beyond. Sixteen
capture objects are never all in use: a step that finds none would be a deadlock, which TLC would report.

Fairness. `MatchReturns` assumes `WF_vars(Step)`: a call runs on until it returns; calls themselves need not come.

### Proofs: `Program_proofs.tla`

For any number of objects, captures and positions, and whatever calls the operations in
whichever order:

* `SharedArraysAreMarked`: an array that two objects refer to is marked as shared in both.
* `CapsImplementsValues`: `CapsSpec => CapturesAreValues`. A write to an unmarked object changes
  an array nobody else has, a write to a marked one takes an array that is free.

For every program of the right type (`IsProgram`: no hole is left), every set of texts and starts within `Positions`:

* `ListsHaveOneThreadPerState`: so the work for a code point is bounded by the number of states.
* `ProgramUsesCaps`: `Spec => CapsSpec`; hence `PathsOwnTheirCaptures`: `Spec => CapturesAreValues`.

The invariant is `ProgramInv == CapsInv /\ Typed /\ Lists`. That states of a list differ is not inductive
alone: `Marked` says that each state of the next list has its mark in `visited`, and marks are only cleared
when that list is empty, which is why `Lists` says where in the loop it is. One lemma per action shows that it
`Moves`: keeps types and lists, and does one operation on the captures or none.
That `ProgramOf` yields programs of that type is an assumption TLC evaluates for the 199 patterns.

`MatchIsFirst`, `MatchPIsRight` and liveness are model-checked only.

## Findings

* `parser_leak`: a named group beyond the capture limit, or a named reference at the
  depth limit, loses the name buffer its token owns (`parse.c:3744`).
* `class_continued`: an escaped newline reads as nothing, but the lookahead after a hyphen
  does not skip it: `[a-\<newline>]` is answered with the internal error "BUG: parser"
  (`parse.c:3110`), `[a-]` is a valid class.
* `head_cache_shifted`: lookups index the bits of the head cache by the offset in the text (`naraku_encoding.h:619`), though they are
  counted from the start of its window (`naraku_encoding_internal.h:29`). When a first call far into a text has put
  the window elsewhere, a second byte is returned as a head.
* `code_range_below`: for a code below the first range of a property the binary search lets its unsigned right bound
  wrap around and reads outside the array (`cprop.c:55`). Where the first range begins with code 0 it cannot happen.

## What the models show beyond the properties

Met while modelling; no run is about them, each can be read off a model.

* When a code point cannot be encoded, as in `[\u{D800}]`, `char_class_item_free` is called on an item whose type was not
  set (`parse.c:2971`): `CharClassParser` ends in `control.op = "undefined"`.
* For a start beyond the end of an ASCII text, `match` returns nil (`program.rb:172`) and `match?` true if the pattern
  matches nothing (`program.rb:430`), where `dfa_test.rb:344` says the two "must be consistent". `MatchPIsRight` is about starts within the text.
* `{3,2x` is the error that numbers are out of order, although without a closing brace it is text (`docs/ja/spec.md:102`).
* `\C-` takes any character, also one beyond ASCII (`docs/ja/spec.md:201` allows ASCII only).
* `\k<n+>` is read as a depth of 0; `\k<-` at the end of a pattern is reported as an unexpected end.
* `naraku_encoding.h:63` gives `head_bits_capacity` in bytes; it counts words.
* The compiler unfolds folded text only. A code that is no folding, passed to `expand_case_unfold`, is outside what
  `naraku_encoding.h:341` promises.
* Not strict and ignoring case, whether a code beyond ASCII is added depends on its ASCII folding being among the codes
  written (`char_class_builder.rb:239`): `[s]` gets the long s and `[S]` does not, as `[k]` and `[K]` with the Kelvin sign, though no `\w` is
  there. Onigmo's rule asks for the code that is expanded (`docs/ja/onigmo_bugs.md:183`), and line 197 says that Naraku
  reproduces it faithfully. `ClassStandsForNode` is not about these codes, nor those of the next item.
* The builder tracks a nested class as a whole (`char_class_builder.rb:158`): `[[\w]]` holds the long s and
  `[\w]` does not. It asks nothing when a code is expanded to ASCII, or in Turkish from `I` to dotless i, where
  `docs/ja/onigmo_bugs.md:183` makes no such difference.
* Strict, ignoring case and with full folding, `[^a]` is always a compile error: its complement holds codes that fold to
  strings, which strict mode does not allow (`compiler.rb`, "multi-characters case folding is not allowed in strict mode").
* Ignoring case, a class that holds the ligature ffi does not match the ligature ff followed by i, because the strings of a
  class are compiled without full folding (`compiler.rb:241-244`); the ligature as a literal does.

## What is not modelled, and why

The Unicode tables and the tools that generate them (data), the benchmarks, the
inspection of nodes as text (formatting), the error messages. Bytes of names
and literals are abstracted to what tells them apart. Memory is not tracked in
`Postprocess` and `CaptureNamesMap`, only that allocations fail.

Of the C library: self-synchronizing substrings, one-byte encodings other than by their width, `nk_node_to_owned`. Of the binding,
who owns what: it is a matter of mruby's allocator and collector, which are not in the repository.

Of the prototype: `CharClass#delete`, `#case_fold` and negation within bounds, which only tests call; the errors for
possessive quantifiers, lookarounds and other nodes that are not supported; object pools; the generated Ruby of the DFA; the
bridge to the C parser.

Out of the provers' reach, so model-checked only: what every liveness property says (fairness); `TreeStandsForPattern`,
`CapturesNumberedInOrder`, `ResultUsesScopedOptions`, `PartsStandForText`, `WarnedOnce`, `MatchIsFirst`, `MatchPIsRight` and
`ClassStandsForNode` (by recursion over trees and programs); `UnfoldInvertsFold` (a computation over the tables).
`EscapedBytesAreCharacters` and `NamesAsWritten` are within reach, by invariants of the kind of `BareRead`, and not proved yet.

## Plan

Modelled and checked: lexer, parser, class parser, name map, post-processing, head cache, case folding, class builder,
compiler and matcher. What is left, in order:

1. `LexerNumbers_proofs`: the bytes of a character and the text of a name, as the value of a bound, a reference and a code point is proved.
2. `Program_proofs`: the answer of the DFA (each set reached is the list the VM without captures would have).
3. `CharRanges`: that `Add` keeps ranges sorted and apart. Its binary searches are recursive functions over a pair
   of bounds, so the lemma needed is one of well-founded induction over their distance, stated for a fixed predicate.
4. `Binding`: who owns parser, pattern and tree; failure of an allocation in `_new`
   and in `nk_node_to_owned`; the order in which the collector frees.

The proofs belong to `LexerNumbers_proofs`, `Program_proofs` and to a module for `CharRanges`; `Binding` takes a run of its own.
