# TLA+ models of YARA-X

A verification project for YARA-X: TLA+ modules translated from the Rust code,
TLC runs on small instances, and theorems that TLAPS proves for every instance.
`PROJECT.json` has the same information in a form for tools: which definition
models which lines, which run checks which property, the mutants that show that
each property can fail, and the list of hazards the properties are for.

## The system

YARA-X compiles rules (patterns and a condition) and scans data with them.

| Component | State it keeps | Operations |
|---|---|---|
| match store (`lib/src/scanner/matches.rs`) | per pattern a sorted vector of matches, total capacity, limit | `add`, `clear`, `matches_in_range`, `max_matches_per_pattern` |
| scan context (`lib/src/scanner/context.rs`, `wasm/`, `compiler/emit.rs`) | scan state, bitmaps of rules and patterns in WASM memory, matching rules per namespace, private counters, disabled patterns, unconfirmed matches, two deadlines | `reset`, `search_for_patterns`, `eval_conditions`, `track_match`, `track_rule_match`, `track_rule_no_match`, `verify_chain_of_matches`; the heartbeat thread |
| scanner (`lib/src/scanner/mod.rs`) | outputs of modules provided by the user, outputs of this scan | `set_timeout`, `set_module_output`, `scan` |
| block scanner (`lib/src/scanner/blocks.rs`, `capi/src/scanner.rs`) | `needs_reset`, context size, snippets by offset | `scan(base, block)`, `finish`, `match_context_size`, conversion from a `Scanner` |
| compiler (`lib/src/compiler/mod.rs`, `symbols/`) | tables of rules, patterns, sub-patterns, atoms, code, bounds; stack of symbol tables; namespaces, imports, includes; errors and ignored rules | `add_source`, `c_rule`, `c_import`, `c_include`, `define_global`, `new_namespace`, `take_snapshot`, `restore_snapshot`, `build` |
| parser (`parser/src/`) | tokenizer mode, buffered tokens, bookmarks, events, pending errors, cache of failures, fuel | an iterator of events; one method per construct of a PEG, one function per grammar rule, `recover` |
| command line scanner (`cli/src/walk.rs`, `commands/scan.rs`) | channels of paths and messages, counters, files in progress, buffered JSON | walker, workers, printer, abort, timeout |
| language server (`ls/src/`) | open documents, cache of the workspace's trees, configuration, spawned tasks, events | requests and notifications, watcher of files, diagnostics, searches over includes |
| pattern verification, regexp machines, Teddy | none between calls | bytes to ranges |
| IR, atoms, code generation, formatter | none between calls | |
| file format modules | none | `main(data)` |
| C API, Go, Python, JavaScript, macros, proto, site | wrappers | |

How they interact.  The parser hands the compiler one event after the other; the
compiler fills tables that only grow and rolls a failed rule back to a snapshot of
their lengths; the scanner reads the tables.  A scanner owns a WASM store whose
data is the scan context.  `scan` resets the context, runs the imported modules,
and calls the compiled conditions.  The conditions call back: `search_for_patterns`
the first time a pattern is needed, `rule_match` and `rule_no_match` for each rule.
Patterns are found through atoms; a confirmed match goes to the match store, a
match of a link of a chained pattern waits in the unconfirmed matches.  One thread
for the whole process ticks two clocks, the epoch of the WASM engine and
`HEARTBEAT_COUNTER`.  Everything is reused from scan to scan.  The command line
scanner runs one scanner per worker thread.  The language server keeps the
parser's trees of open documents and of the workspace.

What is hard.  (1) State that survives a scan, and scans that end in the middle:
a module fails, WASM is interrupted, the search is interrupted inside a call made
by WASM.  (2) Two clocks that a third thread advances in two steps.  (3) Results
that are taken back, when a global rule fails after others of its namespace
matched.  (4) Matches that arrive in any order, more than once, in overlapping
blocks.  (5) Snippets of data that must still fit matches that changed later.
(6) Limits: matches per pattern, capacity, ends of blocks.  (7) Rules that fail to
compile after half of their entries were made, and patterns that rules share.
(8) Threads that leave after an error while others wait for them.  (9) A server
whose tasks, events and messages overtake each other.  (10) A parser that looks
ahead, goes back and goes on after errors, over a tokenizer that cannot.

What makes each part correct.  The store: sorted, exact counts of ranges and of
memory, a bounded map from offset to match.  The context: after `reset` nothing of
the last scan is left, and counters and bitmaps always agree with the vectors of
rules.  The scanner: a result is a function of the rules, this data and the module
outputs of this call; no panic; a timeout is kept.  The block scanner: a result
is a function of the blocks since the last `finish`, and the data of every match
can be read.  Chained patterns: the matches are exactly the chains.  The compiler:
the tables are what the accepted rules alone would have made, and agree with each
other.  The command: every file is scanned and printed once, or an abort is
explained; it ends.  The server: once nothing is under way it agrees with the
editor.  The parser: no token is lost, the events are a tree, and it accepts its
grammar.

## The modules

| Module | Models | Extends |
|---|---|---|
| `MatchList` | `MatchList` as operators on sequences | |
| `OffsetMap` | what the store computes, call by call: for each pattern a map from offsets to ends, with a limit | |
| `PatternMatches` | `PatternMatches`, one action per arm of `add`, `clear`, the setter | `MatchList`, instance of `OffsetMap` |
| `ChainMatch` | chained patterns: `handle_sub_pattern_match`, `within_valid_distance`, `verify_chain_of_matches` | `MatchList` |
| `ScanContext` | state and steps common to both scanners, no `Next` | |
| `Scanner` | `Scanner` and `scan_impl` | `ScanContext` |
| `BlockScanner` | `blocks::Scanner` on the same context, from a used `Scanner` | `Scanner` |
| `BlockSnippets` | the snippets of `blocks::Scanner` and `Match::data` | `MatchList` |
| `PatternCompiler` | how one pattern becomes sub-patterns: `c_literal_pattern`, `c_regexp_pattern`, `c_alternation_literal`, `c_chain` | |
| `Compiler` | the compiler: sources, includes, imports, rules step by step, snapshots, namespaces, globals, `build` | `PatternCompiler` |
| `ParWalker` | `ParWalker::walk`: walker, workers, both channels, abort, joins | |
| `ScanCommand` | `exec_scan`: file and error handlers, counters, three formats of output with and without `--count`, timeout | `ParWalker` |
| `DocumentStorage` | `DocumentStorage` and `Document` | |
| `LanguageServer` | `YARALanguageServer`, its tasks and events, and the editor | `DocumentStorage` |
| `RuleSearch` | definition, occurrences and included rules across files | `LanguageServer` |
| `TokenStream` | `Tokenizer` modes and `TokenStream` | |
| `SyntaxStream` | `SyntaxStream` | |
| `Grammar` | the grammar rules, one definition per function | |
| `Parser` | `ParserImpl`: a machine that runs a grammar, one action per method | the three above |
| `ErrorMerger` | `ErrorMerger`, and when a stream of events is a tree | `SyntaxStream` |
| `ParserReference` | the textbook meaning of the grammar, and the properties stated with it | `Parser`, `ErrorMerger` |
| `MatchList_proofs` | lemmas about `MatchList` | `MatchList` |
| `PatternMatches_proofs` | theorems about `PatternMatches` and `BlockSnippets` | both, `MatchList_proofs` |
| `ChainMatch_proofs` | theorems | `ChainMatch`, `MatchList_proofs` |
| `Scanner_proofs` | theorems about `Scanner`, the results of its scans, and `BlockScanner` | `BlockScanner` |
| `ScanCommand_proofs`, `Compiler_proofs`, `LanguageServer_proofs`, `Parser_proofs` | theorems | their module |
| `MC...` | constants for TLC | their module |

**`ScanContext` and `Scanner`.**  `pc` says where the current call
is: `deadline` is between the two reads of the clocks in `reset`, `modules` the
loop over imports, `enter` the entry of a namespace's function in WASM, `eval` a
rule's condition, `search` the loop over atoms.  A step is as large as what no
other thread can observe: the heartbeat thread may tick between any two.  An
input is what a scan can tell of its data: the sequence of patterns its atoms
lead to, anchored patterns, patterns ruled out by file size or header, and which
modules find something or fail.  A condition is one of seven kinds (`Holds`); the
kind `loop` stands for conditions that run until interrupted.  Time is the number
of ticks left to each of the two deadlines; `Year` is no timeout.  A function
checks the epoch when it is entered, so `EnterNamespace` needs ticks left; a loop
may be interrupted whenever none are.

**`PatternMatches`** has one action per arm of `add` and a history variable `offered`, the
arguments of the last call.  Through it a step of the store is the same call on
`OffsetMap`, whose `Offer` is a function of the state and of these arguments: an end is
replaced only if the call asks for it, and then only by a later one, with one exception,
the greatest offset of a pattern, whose end `add` overwrites with any other.

**`Scanner`** also has two history variables.  `given` are the module outputs that wait for
this scan: those that the caller provided since the last one and, after a scan that a
module failed in, those it did not come to (`Left`).  `inherited` are the keys that the map
of namespaces had when the scan began, which decide the order of the results
(`Precedes`).

**`BlockScanner`** is composed with `Scanner`: in the mode `whole` every step of
`Scanner` may happen, then `FromScanner` hands the context over as it is.

**`ChainMatch`** replaces the `VecDeque` of `verify_chain_of_matches` by one sequence
per link (`ConfirmedBy`): the queue is first in first out, so all matches of a
link are popped before those of the link before it.  The environment finds links
in any order in which atoms can be found (`InOrder`): a match that ends before
another one begins is never found after it.  Without this the property fails, so
it is an assumption on both search algorithms; both report atoms by position.

**`BlockSnippets`** assumes what the documentation asks of callers, that overlapping
blocks agree on the data, so a snippet is its length and whether it is of this
scan.  The search of a block tracks the matches position by position (`Tracked`); a
search that times out stops at any position.  An occurrence may have several ends, of which a
block shows those that it contains: a greedy match grows when a later block shows more.

**`Compiler`.**  A source is chosen item by item while it is compiled.  `pc` follows
`c_rule`: the checks before anything is registered, the patterns, the condition,
then pattern by pattern the calls of `c_regexp` and `add_sub_pattern` that
`PatternCompiler` computes, then the commit or `restore_snapshot`.  `frames` is the
stack of sources being compiled, for `include`.  A rule is abstracted to what these
steps look at; the contents of atoms and of code are left out, their counts stay.
`accepted` and `declared` (how often a namespace met the name of a rule) are history variables, used by the
properties only.  `results` has for every call what it returned and how many errors there were when it did.  A pattern has at least
one piece and a text pattern exactly one (`AnyPattern`): only regular expressions and
hex patterns are split at their jumps.

**`ParWalker` and `ScanCommand`.**  A thread that has messages to send keeps them in an
outbox and does nothing else until they are sent, so that sends of two threads
interleave.  The channel of messages is unbounded, that of paths holds `Capacity`.
With `--count` (`format.count_only`) text prints one line for every file, JSON one for every path
that has matches, and text and ndjson count every file as included.
The receiver of paths that the scope of `walk` keeps is in `PathsReceived`: it is why
the channel never closes while the walk lasts.  `Expire` is time passing the
timeout, at any moment.

**`LanguageServer`.**  The server runs on one thread: a step is a handler, an event, or
a task from one await to the next.  The runtime is tokio's `current_thread` (`ls/src/main.rs:7`):
tasks that are ready run in the order in which they became ready.  Messages in each direction stay in order.
The editor, the user and other programs that write files are external: they do
anything, at most `MaxOps` times.  A text is a name and has one tree.

**The parser.**  A method of `ParserImpl` is an instruction, a closure is a program
inside an instruction, and `Grammar` writes the 34 grammar functions as such
programs; `Parser` runs them on a stack whose frames remember what the method does
after its closure.  Methods that return early after a failure are skipped (`Skip`).
The source is a sequence of lexemes; the three lexers are functions from lexemes to
tokens, and spans count lexemes.  The tokens expected at a place, which only make up
the text of a message, are left out: an error is its span.  `Parser` does not
depend on the grammar (`Rules` is a constant) and has no recursion.  `Bodies` are the
programs of the rules and of all closures in them, and `GrammarAssumption` says that each
ends the nodes it begins; TLC evaluates it for the grammar of YARA.
`ParserReference` defines what the grammar means with no machine at all (`Match`), which parts of a
node recovery may leave out (`Match` with `mend`), and which jumps the tokenizer misreads
(`MisreadJumps`).

## Runs

| Run | Configuration | Shows |
|---|---|---|
| `match_store` | `MCPatternMatches.cfg` | `AllSorted`, `CapacityIsSum`, `RangeCountIsExact`, `ListsGrowToTheLimit`, `MatchesOnlyGrow`, and the refinement `ImplementsOffsetMap` |
| `chain_match` | `ChainMatch.cfg` | `ChainsAreExact`: no chain missed, none made up or spanning blocks; `EndIsTheRightOne` for greedy and other patterns |
| `scanner` | `Scanner.cfg` | `ResultIsExact` (with the order of results and the count of private rules that did not match), `BitsAreTracked`, `PrivateCountIsExact`, `ResetIsComplete`, `NeverPanics` over any sequence of calls |
| `scanner_timeout` | `ScannerTimeout.cfg` | `TimedScanEnds`: a scan with a timeout ends although a condition loops |
| `block_scanner` | `BlockScanner.cfg` | `BlockResultIsExact`, `BlockPatternsAreCurrent`, `PanicsOnlyWithoutBlocks` |
| `block_snippets` | `BlockSnippets.cfg` | `MatchDataIsExact` for overlapping blocks, timeouts and matches that grow |
| `compiler` | `Compiler.cfg` | `TablesAreExact`: a failed rule leaves no trace; `CompilerIsConsistent`: the tables agree with each other, chains are whole, includes nest, no panic; `ReferencesResolve`; `FailuresAreTold`: each call returns its first error, every rule is accepted or listed as ignored, with a reason; `FastScanIsSafe` |
| `compiler_anchored` | `CompilerAnchored.cfg` | violation, see findings |
| `scan_command` | `ScanCommand.cfg` | `OutputIsComplete`, `CountersAreExact` (with the list of files in progress), `AbortIsExplained`, `PanicsOnlyAfterAbort`, and `WalkEndsUnlessStuck`: the one situation in which the command never ends |
| `language_server` | `LanguageServer.cfg` | `TextIsInSync`, `DiagnosticsAreCurrent`, `ConfigIsCurrent`, `WatcherFollowsConfig`, `SearchesAreExact`, and `Settles`: everything comes to rest |
| `language_server_tree` | `LanguageServerTree.cfg` | violation, see findings |
| `parser` | `Parser.cfg` | `BookmarksAreLive`, `Lossless`, `TreeIsWellFormed`, `AcceptsTheGrammar`, `NodesAreGrammatical`, `Ends` |

A property that has several parts (`CompilerIsConsistent`, `ResultIsExact`,
`TextIsInSync`, ...) is a conjunction of named definitions, each with its comment;
each part has its own mutant.  The type invariant of a module is such a part, or is
proved (`PatternMatches`, `Scanner`, and, as part of
their inductive invariants, the others with a module of proofs).

### Bounds

`match_store`: two patterns, offsets 0..2, lengths 1 and 2, bounds of ranges from -2 to 4, limits 1 and 3,
vectors that start with room for one match and a threshold of 3, so that vectors
grow, `clear` takes both branches and every arm of `add` is taken.
`chain_match`: three links, a bounded and an unbounded gap, tails of two lengths,
two adjacent blocks of four bytes, five matches of links, limit 2. That is enough
for two heads through two middle links, for a second, longer tail, and for links
that sit on both sides of the border of blocks.
`scanner`: five rules in two namespaces, with a private rule before a failing
global rule, a reference to an earlier rule, a rule on two modules, and patterns; five data
that hit limits, anchors, size bounds and a first module that fails while an output
provided for the second waits; timeouts of one tick
or none; any number of calls. The state space is finite because clocks count down.
`block_scanner`: three rules, four blocks and one datum, any number of calls.
`block_snippets`: seven bytes, four blocks with different bases that contain each other or
overlap, a pattern whose match in a later block is longer, context 0 or 2.

`compiler`: any three items (`MaxItems`) from 12 rules, an include and three
imports, over up to three calls of the user (`MaxCalls`), in two namespaces.  There
is a rule that fails at each step of `c_rule`, rules that share patterns with the
ones that fail, and patterns of every kind that `PatternCompiler` tells apart.
Three items are enough for a rule that registers something, one that fails half-way
and one that comes after the rollback.
`scan_command`: two workers, room for one path, seven entries (a filtered one, an
unreadable one, files that match, fail, log or occur twice, an error that ends the
walk), three formats, text and JSON also with `--count`, where ndjson does what text does, a timeout
at any moment.  The channel of 128 paths becomes
one of 1 so that it is full while files are left.
`language_server`: three kinds of editor (which differ in every capability the
server looks at), two documents, three files whose includes nest and either form a
cycle or lead through a file that has a rule without condition (and to no file once another program
deleted it),
three operations (`MaxOps`): enough to change, close and open again, or to toggle a
setting twice while the first change is still on its way.
`parser`: 20 programs, which use every grammar rule, two of them hex patterns with trivia and with
jumps of every form; each cut off at every place
and with every lexeme removed, replaced and preceded by one that the tokenizer does not
know, the hex patterns also with a comment; those of up to 13 lexemes also with the keyword `rule` put there, and with
fuel 0 to 20.  Otherwise the fuel is 1000 and does not run out.

`CHECK_DEADLOCK FALSE` is used where the system may stop: in `scanner_timeout` a
looping condition without timeout never ends, in `block_scanner` a panic ends the
program, in `chain_match` the data ends, in `compiler` and `language_server` the
user stops, the parser ends, and in `scan_command` the walker that waits for a
channel nobody reads is a deadlock of the program (`WalkerStuck`), of which
`WalkEndsUnlessStuck` says that it is the only one.

### Fairness

`FairSpec` of `Scanner` has weak fairness on the steps of the scan and on the two
steps of the heartbeat thread: the operating system starves neither thread, and
the engine compiles a check of the epoch into every loop and function. Calls by
the user need no fairness.  `FairSpec` of `ScanCommand` has weak fairness for each
worker, the walker and the main thread, which the operating system runs, and for
time passing.  `FairSpec` of `LanguageServer` has it for the main loop handling
messages and events, for the runtime that runs tasks, and for the editor reading
what it is sent; nothing is assumed of the user.  `Spec` of `Parser` has
`WF_vars(Next)`: one thread runs it, as long as somebody asks for events.

### What a result does not say

The two clocks are read and advanced separately. A search in a block may time out
on `HEARTBEAT_COUNTER` while the engine's epoch still has a tick left. If the
caller ignores that error and scans another block in which no atom matches, the
scan state is `Idle` again and `finish` returns results of a partial search.
`BlockResultIsExact` is therefore conditional on no block having timed out
(`interrupted`).  `ResultIsExact` needs no such condition.

Where the code does less than its documentation says, a property states what the code
does, exactly where that is possible, its comment names the line it disagrees with, and the
case is reached in the run:

| Property | Exception it states |
|---|---|
| `ImplementsOffsetMap` | the end of the greatest offset may become an earlier one; `MatchesOnlyGrow` leaves this match out |
| `ResultIsExact` | `Left`: after a module error, outputs for modules not yet run are used by the next scan; `Precedes`: namespaces that matched in an earlier scan come first; `Counted`: which private rules the count leaves out |
| `MatchDataIsExact` | `Covered`: a match can be read if a searched block with its base contains it, which is not so for a greedy match that another block made longer; data of an earlier scan is shown only after a `finish` that timed out (`disturbed`) |
| `CountersAreExact` | with JSON the count of matching files is only bounded, by the matching and the scanned files |
| `PanicsOnlyAfterAbort`, `WalkEndsUnlessStuck`, `PanicsOnlyWithoutBlocks` | what goes wrong, and that nothing else does |
| `SearchesAreExact` | `OccurrencesAreExact`: the files missed are exactly those in which a rule has no condition |
| `AcceptsTheGrammar` | the valid sources refused are exactly those with a misread jump |
| `NodesAreGrammatical` | a node may lack a part that recovery made good with nothing to discard; there is a message at the node then |

`TreeIsWellFormed` does not say where messages are among the events.

## Theorems

Eight modules with 37 theorems; 34 of them are listed in `PROJECT.json`, the others state
inductive invariants.  They hold for every value of the constants that satisfies the named
assumptions; TLC evaluates these assumptions on the runs, and checked the inductive
invariants on them before they were proved (except those of the language server and the
parser that quantify over sequences of any length).

| Module | Theorem | States |
|---|---|---|
| `PatternMatches_proofs` | `AlwaysSorted`, `AlwaysTyped` | `AllSorted`, `TypeOK` |
| | `AlwaysGrowsToTheLimit`, `MatchesAlwaysGrow` | `ListsGrowToTheLimit`, `MatchesOnlyGrow` (action properties) |
| | `RangeCountsAreExact` | `RangeCountIsExact` |
| | `StoreImplementsMap` | the refinement `ImplementsOffsetMap` |
| | `CapacityIsAlwaysTheSum` | `CapacityIsSum` |
| | `MatchDataIsAlwaysExact` | `MatchDataIsExact` (of `BlockSnippets`) |
| `ChainMatch_proofs` | `ChainsAlwaysExact`, `EndsAlwaysRight` | `ChainsAreExact`, `EndIsTheRightOne` |
| `Scanner_proofs` | `ResetAlwaysComplete`, `ScanNeverPanics`, `BitsAlwaysTracked`, `PrivateCountAlwaysExact`, `ScannerAlwaysTyped` | `ResetIsComplete`, `NeverPanics`, `BitsAreTracked`, `PrivateCountIsExact`, `TypeOK` |
| | `ResultIsAlwaysExact` | `ResultIsExact` |
| | `BlockPatternsAlwaysCurrent`, `PanicsAreOnlyWithoutBlocks`, `BlockResultIsAlwaysExact` | `BlockPatternsAreCurrent`, `PanicsOnlyWithoutBlocks`, `BlockResultIsExact` |
| `ScanCommand_proofs` | `AbortIsAlwaysExplained`, `PanicsAreExplained`, `OutputIsAlwaysComplete`, `CountersAreAlwaysExact` | `AbortIsExplained`, `PanicsOnlyAfterAbort`, `OutputIsComplete`, `CountersAreExact` |
| `LanguageServer_proofs` | `TextIsAlwaysInSync`, `DiagnosticsAreAlwaysCurrent`, `ConfigIsAlwaysCurrent`, `WatcherAlwaysFollowsConfig` | `TextIsInSync`, `DiagnosticsAreCurrent`, `ConfigIsCurrent`, `WatcherFollowsConfig` |
| `Compiler_proofs` | `ReferencesAlwaysResolve`, `FailuresAreAlwaysTold`, `FastScanIsAlwaysSafe` | `ReferencesResolve`, `FailuresAreTold`, `FastScanIsSafe` |
| | `TablesAlwaysExact`, `CompilerAlwaysConsistent` | `TablesAreExact`, `CompilerIsConsistent` |
| `Parser_proofs` | `BookmarksAlwaysLive`, `AlwaysLossless` | `BookmarksAreLive`, `Lossless` |

(`CompilerInvariant` and `TablesInvariant` state the inductive invariants of the compiler
themselves, `TablesAlwaysAgree` the part of `CompilerIsConsistent` that follows from the
first.)

**`PatternMatches_proofs`**, for any patterns, matches, limits and capacities.  The
inductive invariant is `TypeOK /\ AllSorted /\ VacantIsEmpty`: sortedness is needed
because the binary search is only specified on a sorted list, and a vacant entry must
be an empty list for the first match to be sorted.  The lemmas establish where
`SearchIndex` points in a sorted list and that an insertion there keeps it sorted.
The count in a range, for any set of integers as `Bounds`, is exact because the positions of a sorted list whose offset is
in the range are an interval, which maps one to one to the matches counted.  In the
refinement, a position of the list that has an offset is unique, so that a list is a
function from offsets to matches, the last position is that of the greatest offset, and each
arm of `add` is the `Offer` with the arguments of the call.  `AlwaysGrowsToTheLimit` and `StoreImplementsMap` assume that 0 is not a
limit: the arm for a vacant entry adds a first match without looking at it.
`CapacityIsAlwaysTheSum` is about the sum of the capacities of all vectors, which `add`
updates by the growth of one: that the sum of a function over a finite set changes by the
change of one of its values is shown from the definition of the fold, by the least
cardinality of a set for which it would not; hence the assumption `IsFiniteSet(Patterns)`.
The lemmas about the list itself are in `MatchList_proofs`.

The last part of the module is about `BlockSnippets`, for any data, blocks and context
sizes; blocks may overlap, repeat or come in any order, and an occurrence may have any
ends.  The invariant `DataInv` says that every list is sorted and has only matches that the
data contains (`ListsInv`), that snippets are left over only by a `finish` that timed out, that
within a scan every snippet is of this scan unless such leftovers were there, and that the
lists have a match for every occurrence found in a block which, if it has the base of this
block, is held by some snippet up to the end that the block shows (`AllHeld`, in
`SnippetsInv`).  Collecting never makes a snippet shorter, so a match found in an earlier
block keeps its snippet.  A `Covered` match is one whose block shows its end, hence it can be
read; no assumption on the lengths of matches is needed.

**`ChainMatch_proofs`**, for any number of links (at least two), gaps, lengths, limit and
blocks.  `IInv` relates the vectors of unconfirmed matches to the history of what was found
in the current block: they hold nothing else (`UnconfirmedFound`); every match that continues
a chain from a head is among them (`LinksKept`); what precedes a match that was pushed on
the queue was pushed too (`MarksClosed`), which is why skipping marked matches loses
nothing; and a head that was pushed is a match of the pattern, which happens to greedy
patterns never (`HeadsTracked`).  `Sound` and `Complete` are the two directions of
`ChainsAreExact`.  The heads that `ConfirmedBy` reaches from a tail are shown to be the
starts of the chains that end there, by induction along the links, for which a recursive
function is first shown to exist.  The order in which links are found (`InOrder`) is needed: a middle
link is only kept if the link before it is there.

**`Scanner_proofs`**, for any rules, namespaces, patterns, modules, data and timeouts.
The inductive invariant `IInv` has three parts.  `RulesInv`: vectors hold only
rules of their namespace (so that taking one namespace back leaves the others), a
vector that is not empty has its key in the `IndexMap` (so that nothing is lost
when the vectors are moved), nothing is reported while a scan runs, and bits and
vectors agree.  `ControlInv`: which scan state goes with which point of the scan,
so that a search always has data.  `PatternsInv`: every bit and match of a pattern
has an entry in the store, which is what `reset` looks at; this is why the
condition under which `reset` clears is sufficient.  The count of private rules
needs in addition that rules are evaluated in increasing order (`CountInv`), so
that none is counted twice, and cardinalities of finite sets.  `ScannerAlwaysTyped`
follows from all of these and `TypeInv`.  The assumptions are
`ScanContextAssumption` and `ScannerAssumption`: rules are numbered namespace by
namespace, as the compiler emits them, and inputs are well formed.

**The results of a scan** (in `Scanner_proofs`) add to that invariant what has been evaluated and found so
far: `EvalInv` (the bits are those of the rules before the current one that are true and
whose namespace is not lost, `Matching`), `SearchInv` (the bits of patterns are those of
the anchored patterns and the atoms verified so far, without those ruled out), `OutputsInv` (which module outputs this
scan has), `Ordered`, `KeysInv` (the keys of the map of namespaces are those it had when the
scan began and after them new ones in increasing order, because conditions are evaluated
namespace by namespace) and `NonMatchingInv` (the count is that of the rules that evaluation
has passed and that are counted, `PassedBy`).  `Raw`, the reference, is a recursive function
over the rules; that such a function exists follows from rules naming only earlier
rules (`ConditionAssumption`), by the least rule at which it would not, and that the
evaluation agrees with it is shown rule by rule along the scan.  `WholeDataAssumption`
says that a module is imported once and that data in one piece starts at 0.  Any module may
fail: a `ModuleError` returns through the `?` at `scanner/mod.rs:654-665`, before
`user_provided_module_outputs.clear()` (`mod.rs:729`), so that outputs provided for later modules
are used by the next scan, whereas the comment at `mod.rs:439-442` has them consumed by one
scan; `Left` is what remains of them, and `OutputsInv` says that exactly these wait.  (In the
repository `cuckoo` can fail, `modules/cuckoo/mod.rs:43`.)

**The block scanner** (in `Scanner_proofs`), for any sequence of calls of the two scanners that pass the
context to each other.  `BlockInv`: the parts of the scanner's invariant that speak of
rules, patterns and counts hold in both modes, the others while a `Scanner` owns the
context; within a scan in blocks, the bits of patterns are within what its blocks contain
(`BlockPatterns`).  `BlockSearch` and `BlockEval` say that all that the blocks contain has
been found and how far the rules are evaluated.  `BlockResultIsAlwaysExact` supposes
`OnlyPatternsDecide`: conditions on modules or on `filesize` are left out, because the
block scanner runs no module and sets no `filesize`, so that they see what a `Scanner` left
in the context; and so are patterns that a header rules out, which depend on the block
in which they are found.

**`ScanCommand_proofs`**, for any number of workers, capacity of the channel, entries,
format and set of fatal errors.  `Explained` follows an `Abort` from the outbox of a
thread through the channel to the console; a message about a fatal error is always
before it.  For `OutputIsComplete`, `CommandInv` says of every message that
the steps so far must have produced (`Emitted`) that it is in exactly one of an outbox, the
channel, the buffer of the JSON handler and the console, as long as no fatal error is
on its way.  `Counting` says which files the counters have counted: those taken from the
channel whose worker is past that step; each file is with one worker at most
(`Distinct`), so the cardinality grows by one.  In JSON all results are in the buffer until the end
(`HeldBack`); with `--count` they are then replaced by the totals of their paths (`Summed`).  As long
as no file matches the buffer is empty and JSON counts none (`Unmatched`).

**`LanguageServer_proofs`**, for any files, texts, editors and length of a session.  The
properties speak of moments at which nothing is under way; inductive is what the
messages, tasks and events under way will lead to.  `Leads(F, q, a, b)` says that taking
the elements of the queue `q`, each with its effect `F`, leads from `a` to `b`; it is
stated with the history of values, so that appending to a queue and taking its head are
lemmas.  `TextInv`: the messages to the server lead from the text it has to the text in the
editor.  `DiagInv`, `ConfigInv`, `WatchInv`: the same for the diagnostics shown, the
configuration (through three queues), and the registration of the watcher.  They rest on ready tasks being
run in the order in which they became ready.  `Phase`: what
may be in the queues before the handshake is over.

**`Compiler_proofs`**, for any rules, patterns, modules and files (`Decls` may be infinite,
`MaxItems` and `MaxCalls` anything), however rules fail.  `IInv` has one part per table
or stack: what the whole table holds, what its part below the snapshot of the current rule
holds by itself (so that truncating to it is safe), and how far the current rule has come.
All ways to fail are shown to be one `Rollback`, for which each part is shown once.
`RuleInv` and `PatternInv` give `FastScanIsSafe`: a pattern that some accepted rule
cannot use with fast scan has its bit cleared, also if a failed rule shares it; `NameInv`
gives `ReferencesResolve`; `ErrorInv` (the results so far tell the errors up to the call under way), `DeclaredInv` (a name was
declared as often as it was accepted, ignored or is being compiled) and `IgnoredInv` give `FailuresAreTold`; `SubInv`
says that every sub-pattern belongs to a pattern and is reached by an atom or is
anchored.  That the calls of `add_sub_pattern` for a pattern are well formed is shown for
every arm of `PatternCompiler`, with a lemma about `FlattenSeq` proved by the least prefix
that would break it.  While proving this, two `CASE`s of `PatternCompiler` turned out to
have overlapping guards, which in TLA+ leave open which arm is taken; they are now `IF`,
in the order of the code's `else if`.

`TInv`, on top of `IInv`, says what the tables hold in every state.  There are a list `ps` of
the patterns that have an id, in the order of their ids, of which the first `c` are compiled;
the places `at` and `ct` where the sub-patterns and the code of each begin; and the number
`m` of calls of `PatternCompiler` made for the one being compiled.  `Listing`, `RuleIds`
and `CurIds` relate the ids in `patterns`, in the rules and in the current rule to `ps`;
`Order` says that `ps` is the list of first uses by the accepted rules and the current
one; `Subs`, `Codes` and `AtomCodes` say what each segment of the tables holds, and
`MadeSubs` and `MadeCode` the same for the segment under construction.  `Left` says that the
calls still to be made are the rest of the calls of the pattern.  A `Rollback` cuts
`ps` to the length in the snapshot.  At rest every pattern is compiled and `ps` is
`Distinct`, so that the concatenation of the segments is the reference of
`TablesAreExact`, and the segment of each pattern gives `ChainsAreWhole`.  That segments
laid end to end are `FlattenSeq` is shown by the least prefix for which it fails.  The
references are written with `FlattenSeq` alone (`Firsts`, `Select`), of which lemmas could
be proved.  TLC checked `TInv` on the run `compiler` with fewer rules.

**`Parser_proofs`**, for any grammar whose programs are balanced, any source and any fuel.
`IInv` has a `Core` about the stack of frames and the two streams: the bookmarks in the
frames are those of the streams, in the same order and each not after the next (`Marks`);
the open nodes are those of the frames, each program on the stack still ends exactly the
nodes it has begun (`Opens`, `Closes`); a bookmark lies after the `Begin` of every node that
is open where it was taken (`Points`), so that going back to it cuts off no open node;
and the token events, emitted or not, are the tokens consumed in order (`Ledger`), also up
to each bookmark.  Each operation on stack and streams (mark, restore, unmark, advance,
begin, end, recover) keeps `Core`, and each action is one or more of them.
`GrammarAssumption` is what the code's closures satisfy.

**Only model-checked**, and why:

- `TimedScanEnds`, `WalkEndsUnlessStuck`, `Settles`, `Ends`: liveness under fairness;
- `SearchesAreExact`: the searches follow includes from file to file with `RECURSIVE`
  operators, a closure whose result could only be proved by induction over the files;
- `TreeIsWellFormed`: it does not hold for every grammar that the theorems are about.
  `truncate` takes 0 for the end of the last token when no token is left in the buffer, so a
  node that begins right after a failed branch at the start of an item would get a wrong
  span; in the grammar of the repository a token always comes first;
- `AcceptsTheGrammar` and `NodesAreGrammatical`: the textbook meaning of a grammar is a
  `RECURSIVE` operator, which the prover does not accept.

## Findings

Each is a run of kind violation, with the quoted line in `PROJECT.json`.

- `compiler_anchored`: `restore_snapshot` truncates every table but
  `anchored_sub_patterns`.  After a rule with an anchored literal failed at a later
  pattern, the list has an id that is out of range or that belongs to a
  sub-pattern of a later rule which is not anchored.
- `language_server_tree`: a document that is opened is given the tree in the cache,
  whatever text it was of; a document closed with unsaved changes and opened again
  has the tree of the changes until its next change.

Seen while modelling.  The project keeps no run of kind violation for them; the properties state those that
the table of exceptions above names:

- Scanner.  `num_non_matching_private_rules` is only counted for global rules or
  with the feature `rules-profiling` (`wasm/builder.rs:290-312`), so it is lower
  than the comment at `context.rs:149` says.  The order of namespaces in results is
  that of their first match in any scan (`context.rs:530`), not of their
  declaration.  After a module error, outputs provided for later modules stay for
  the next scan (`scanner/mod.rs:660`).
- Match store.  The last-match arm of `MatchList::add` overwrites the end of a match
  without comparing lengths (`matches.rs:89`); a limit of 0 still lets the first
  match in.
- Block scanner.  `finish()` without blocks panics if a rule uses a pattern
  (`context.rs:1131`).  A greedy match that grows in an overlapping block may have no
  snippet of its new length, and `Match::data` panics (`blocks.rs:179`, `models.rs:441-447`).  After a `finish` that timed
  out the snippets compete with those of the next scan (`blocks.rs:229`).  A
  block scanner made from a used `Scanner` keeps its `filesize` and module
  structures; a shorter block with the base of an earlier one reaches a
  `debug_assert!(false)`.
- Command line scanner.  "In case of timeout walk is aborted" (`scan.rs:447`), but
  workers that leave do not close the channel of paths, whose receiver is kept by the
  scope (`walk.rs:450`): with more than 128 paths left the walker waits for room, the
  join at `walk.rs:563` waits for the walker, and the command hangs.  A worker that
  prints after the printer left panics (`scan.rs:906` and others).  With JSON output
  every file from the first match on counts as matching (`scan.rs:1140`), and with `--count` text and
  ndjson count every file (`scan.rs:742-751`, `936-945`).
- Compiler.  The fast-scan bit of a shared pattern that a failing rule cleared is not
  set again (costs time only).  An included file clears the suppressed warnings of
  the file that includes it.  `define_global` with a known name fails after it
  replaced the field (`variables.rs:34`).
- Language server.  A report of the watcher handled after the cache was turned off
  fills it again (`server.rs:693`); a file changed between the reading of the
  workspace and the registration of the watcher is not read again; `rule_usages` gives
  nothing for a whole file in which one rule has no condition, so a rename skips it.
- Parser.  `recover` with nothing to discard leaves a node without ERROR node that
  does not match the grammar (`rule a { condition: }`), while `parser/mod.rs:8-12`
  says that anything outside ERROR nodes is valid; messages come after the top-level
  item and not under the node they are about (`cst/mod.rs:72-74`); a comment inside
  a hex jump ends the mode of the tokenizer (`tokenizer/mod.rs:123-144`), so that most such jumps are
  rejected; `import foo`
  gives two messages for one place.

## Not modelled

IR and code generation: the compiler's model ends where a condition is turned
into IR, and the scanner's model begins with what the code does.  Verification of
atoms (literals, xor, base64, full words), Teddy, the extraction of atoms and the
regexp machines are pure functions of bytes; the models take their results as
input.  File format modules are parsers; a module is what it finds or that it
fails.  In the parser, the lexers' regular expressions (lexemes are given), the texts
of messages, the construction of the AST and the formatter.  In the compiler, the
warnings with their suppression, the pools of strings, and switches that are set
before compiling.  In the language server, the features that are pure functions of
one document and the pull model of diagnostics.  In the scanner, the XOR key of a match,
profiling times, console output and the iterators over results; setters that only
store a field are constants; loading and mapping files is I/O.  The other commands
and the bindings are wrappers without protocols of their own.

Most of the repository's lines are code generated from protobuf definitions, parsers
of executable formats and the IR of conditions: data without states that change or
steps that interleave, for which a model would only be a second copy.  The modules
cover the parts whose state outlives a call.

## Plan

1. Proofs: `SearchesAreExact`, with the closure as a least fixed point; for any grammar the
   part of `TreeIsWellFormed` that leaves out spans, from the invariant of `Parser_proofs`.
2. The verification functions, `FastVM` and `PikeVM` as operators against reference
   definitions over bounded inputs.
3. Warnings and their suppression in the compiler; the startup of the language
   server with documents already open.
