# A formal model of m64th

m64th (in `src/`) is a 64-bit Forth: a compiler to 16-bit tokens, an interpreter
written in assembly for amd64 and arm64, an optimizer and a native code compiler
written in Forth, and a small C library that owns the memory. This directory
holds TLA+ modules that model its parts, the TLC configurations that check them
on small instances, and TLAPS proofs about them. `PROJECT.json` lists the runs,
the theorems, the source lines each definition stands for, the hazards of the
code and what covers each of them, and mutations that each property rejects.

Check a run with `tlc -workers 2 -config MCLocals.cfg MCLocals`, the proofs with
`tlapm CatchThrowProofs.tla` or `tlapm OutBufProofs.tla`.

## 1. The system

There are no threads. A program is one `struct m64th` (`include/m64th.h`) and the
registers of the virtual machine: IP, DSTK/DTOP, RSTK/RTOP, LSTK ("LOCL"), HERE,
VM. What makes the code hard is state that outlives a step: stacks whose top is
in a register, pointers saved on them by one word and read by another, buffers
refilled under a parser, jump offsets compiled now and resolved later. Several
actors take turns on that state: the running word, the words it calls or
catches, the C host that enters and leaves the VM, and devices that take or
deliver as much as they like.

| Component | Source | State | Operations | Correct when |
|---|---|---|---|---|
| Exceptions | `generic_asm/call.S` | both stacks, `handler`, `ex`, IP | `(catch-beg)`, `(catch-end)`, `throw`, `execute`, `exit` | a throw resumes at the innermost live catch with its stacks and locals |
| VM entry and exit | `amd64/call.S`, `m64th.c` | stacks, `handler`, LOCL across runs | `m64th_run`, `bye`, `m64th_execute_word`, `m64th_clear` | the scopes of a run nest on what an earlier one left, and are closed with it |
| Locals at run time | `generic_asm/local.S` | local registers, frames on the return stack, LOCL | `(lenter-*)`, `(lexit-*)`, `(l*)`, `(>l*)`, `(c-locals-save)` | every activation owns its variables, return addresses survive |
| Locals table | `m64th.c`, `impl.S`, `locals.S` | names of the locals being compiled | `(local)`, `{:`, find | names map to the slots declared |
| Loops, conditionals | `amd64/loop.S`, `generic_asm/loop.S` | return stack, IP | `do` `loop` `+loop` `leave`, `(if*)` | they end where Forth says, at cell overflow too |
| Control structures | `compile.S`, `core.S`, `core_ext.S`, `impl.S` | code, HERE, control stack | `if` .. `endcase`, `;`, `[recompile]` | every jump reaches the partner of its word |
| Optimizer | `opt_rules.mh`, `impl.forth` | code being compiled | `[optimize]` | code keeps its meaning, jumps resolve again |
| Hash maps | `c/hashmap_*`, `user.S` | `vec`, `size` | new, clear, find, insert; Forth find | find is the map that was inserted |
| Output buffer | `io.S`, `core.S`, `c_std.c` | `pos`, `end`, `addr[]`, `err` | write char, write string, flush, overflow | characters leave once, in order, or an error returns |
| Input buffer, REPL | `core.S`, `user.S`, `io.S`, `c_std.c` | the same, and what is left of the input | refill, skip, find, `parse`, `\`, `key`, `interpret`, `repl`, `compiler-abort` | every character is read once, or given up with the line of a failed compile |
| Numbers in text | `io.S`, `impl.S`, `user.S`, `mem.S` | base, hold pointer | `<#` `#` `sign` `#>` `.` `u.`, `string>number` | what is printed in a base is read back as the same number; never out of its area |
| Dictionary, search order | `core.S`, `m64th.c`, `searchorder.S` | headers in data space, wordlists, order | `:` `create` `immediate` `also` `previous`, find, add, forget | latest definition wins, words never overlap, limits are reported |
| Word compiler | `m64th.c`, `compile.S`, `impl.S` | HERE, XT, `lastw`, control stack | `(eval)`, `literal`, `:` `;` `[` `]` | an aborted definition leaves no trace; code means what the source says |
| ASM code buffer | `m64th.c`, `native.S` | `asm_`, code pages | `asm-reserve`, `asm-make-func` | code is complete and protected before it runs |
| Native code compiler | `asm.S`, `asm_native.S` | bytes emitted | one emitter per token | machine code does what the token does |
| Stack and arithmetic tokens | `arith.S`, `double.S`, `mem.S`, `loop.S` | the two stacks | one token each | arithmetic modulo the cell, exceptions for division |
| CRC | `m64th.c`, `mem.S` | none | `crc+` | pure function |
| Printing, completion | `m64th.c`, `c_liblinenoise.c` | none | `words`, `see`, completion of a word | completions are the names that begin so, each once |
| linenoise | `linenoise/linenoise.c` | line, cursor, completions, history, what the screen shows | a key, up and down, TAB, ENTER, Ctrl-C, Ctrl-D | the screen shows the line, keys edit at the cursor, history is kept |
| Tests, examples | `t/`, `example/` | | | |

**How they interact.** `repl` catches exceptions around `interpret`, so that the
input buffer is read on after a throw, or after the line that `compiler-abort` gives
up with the word being compiled. `interpret` finds a name by the search
order and the locals table and runs or compiles its token. Compiling words keep
jump locations on the data stack. `;` runs the optimizer, which looks its rules
up in hash maps and executes the control words again. The VM calls C functions
(I/O, hashing) with `(c-call)`, around which local registers are saved. Words with
locals and CATCH share the return stack and link their frames through it.

**Hard behaviours.** Unwinding over frames of other kinds; handlers left by a run
that ended; register variables that callees spill; lists that share entries; short
writes and errors in the middle of a flush; a buffer that moves under positions;
LEAVE among nested control words; re-resolution of jumps over old code;
liveness of loops driven by a device. `PROJECT.json` lists each at its line.

## 2. The modules

### CatchThrow, ExceptionScopes, MCCatchThrow, CatchThrowProofs

`CatchThrow` is the machine of `call.S` with the tokens that move the return stack
below it. Cell *k* of a stack is the word at `end - 8k`; `dsp`, `rsp` are the
pointers, `dtop`, `rtop` the registers that cache the top. One action is one
token: `Push`, `Drop`, `ToR`, `RFrom`, `Call`, `Execute`, `Exit`, `LocalsEnter`
(`(lenter-1)`), `LocalsExit`, `CatchBeg`, `CatchEnd`, `ThrowToken`, and `Throw` for
the unwinding that starts in any token. `Bye`, `Uncaught`, `Run`, `ClearAndRun` are
the host. The variable `tag` is a history: why each return-stack cell was pushed.
A word's body is one address, because programs may be any sequence of tokens, and
the `(catch-end)` after a `(catch-beg)` is a second one. Where the code destroys
its own registers (CATCH with locals; CATCH on an empty data stack) the machine
goes to status "lost" and stays there.

`ExceptionScopes` is what Forth promises: a stack of activations, CATCH opens a
scope that remembers depth and locals, THROW closes the innermost scope.
`ImplementsScopes` (in `CatchThrow`) is the refinement, with the activations read
off the machine's stack: `Begun` takes the live cells in order and leaves out what
was saved on behalf of another. The run `catch_throw` checks it. `ThrowResumesInnermost` is the same promise for one step
of the machine.

BYE leaves the VM from anywhere, and `m64th.handler` and LOCL stay as they are.
`main.c:65` then runs `repl` for the next file without `m64th_clear`, so `Run` enters with
what the run before left, on a new return stack. `entry`, a history, keeps the two
values: the chains of a run end in them (`Innermost`), and its outermost frames give them
back. A throw for which the run has no CATCH of its own, while `handler` is that of an
earlier run, moves RSTK to a frame that is gone: `ThrowLosesFrame`, status "lost". In
`ExceptionScopes` the host only learns that some scope was `abandoned`.

One assumption about programs: a cell that looks like an XT is one
(`LiteralsAssumption`, Forth does not check it).

### Locals, LocalVars, MCLocals, LocalsProofs

`Locals` has the register variables, frames and the C call protocol of `local.S`.
A word that declares *n* variables spills min(*n*, Ln) registers below RTOP for
its callers, keeps its first Ln variables in the registers and the rest in its
frame. Code is well formed: `(lexit)` before each exit, and what a word pushed on
the return stack it takes back. `LocalVars` gives every activation a function of its own
variables; `MCLocals` maps variable *j* of activation *a* to the frame of the
innermost later word that spilled it, or to the register.

### HashMap, PartialMap, MCHashMap, HashMapProofs

One module for the three C instances of the same algorithm and the Forth search.
The hash and its folding are one function from keys to naturals, chosen at the
start among all that are given. `Probe`/`Step` is the probe of the collision half;
`IndexOf` masks a hash by capacity. `PartialMap`: insert adds a key that is absent, or fails; clear
empties. When a map may be full is left open by `PartialMap` and settled by
`InsertFailsOnlyWhenFull`.

### OutBuf, MCOutBuf, OutBufProofs

A character is its place in what the program wrote, so that loss, repetition and
reordering are visible in `sent`. A step is one call of the I/O function or the
code between two. The device (`Device`, from `m64th_c_fwrite_fflush`) takes any
part of what it is given, and fails or not.

### InBuf, MCInBuf, InBufProofs

A character is its place in a text. The device is a file (`FromFile`: as much as
fits) or typed lines (`FromLine`: a line without its newline). `Repl`, `Interpret`
and `Finish` are the loop; a word that is executed may parse up to a quote or to the
end of the line (`Parse`), take a key, refill, and start or end the compilation of a
definition (`SetState`) before it finishes. `Return` is its normal end. `Throw` is the
other one: `repl` skips blanks in both cases (`user.S:532`), then `compiler-abort` runs, and
if a word is being compiled it ends with `\` (`core.S:99`), which discards the rest of
the line (`RestOfLine`). The names of the input are not told apart: whether a word
throws is open. `NothingSkipped` says that what is passed over was blank, a delimiter, or
so given up, and then on one line only.

### ControlFlow, MCControlFlow

The control words as operators on the compiler's state `[code, here, cs, ok]`, as
they are executed twice: by `Write` while a definition is compiled and by
`RecompileToken` after the optimizer. `Rewrite` replaces the tokens of a rule
anywhere and leaves all operands stale, as `(optimize-tokens,)` does. Then the
word runs with every condition free. `source` is a history of the tokens without
operands, over which the properties define nesting and destinations without a
control stack. `[cs-find]` + `-cs-roll` is one operator: the jump of LEAVE is put
under all that is inside its loop. ELSE and THEN do not check what they resolve;
definitions that misuse them are outside the model. Offsets are 16 bits in the
code: bodies over 32767 tokens are outside too.

### Tokens, OptRules, Machine, TestVectors, MCMachine

`Tokens` is what each token computes: one entry per `FUNC` of `arith.S`, `double.S`
and `loop.S`, grouped by how it uses the stacks (`Moves`, unary and binary
functions, comparisons). Cells have `CellBits` bits and wrap; shifts, division and
comparison are those of that width, so that overflow and the two ends of the cell
are reached with 16 bits as with 64. `Machine` interprets them: IP, the two
stacks, the jumps and loops of both architectures (`Amd64`). `OptRules` has the rules of
`opt_rules.mh` and the low-priority ones of `impl.S`, rule by rule. The optimizer is
`Machine`'s `OptimizeOnce`: the passes of `(optimize-tokens)`, which takes at each
place the shortest tokens that a rule replaces and goes on after them.
`TestVectors` is `t/testexecute.c`, as data: the tests of the repository are jobs of
the machine, and `AllTestsPass` says that they pass in the model. This is what ties the
many small definitions to the code.

### ControlWords, Numbers, Compile, TextVectors, CompileVectors, MCCompile

`ControlWords` are the compiling words on `[code, here, cs, ok]`; `ControlFlow` and
`Compile` both use it. `Numbers` has `string>number` with all it calls and pictured
output. `Compile` extends `Machine` with the input, the output, the base and the word
being compiled: `(eval)` takes a name (`CompileName`), a number (`CompileNumber`), or
`literal`, `;` runs `[optimize]` (`HighWordPass`, `LowWordPass`) and resolves the jumps again
one token at a time (`RecompileToken`). `TextVectors` and `CompileVectors` are `t/testio.c`
and `t/testcompile.c` as data.

### Dictionary, WordLists, MCDictionary, DictionaryProofs

`Dictionary` is data space as bytes: a header is at an address, with offsets to its
name and to the previous word, as `name,` and `m6wordlist_add_word` lay it out; `here`,
`latest` and `state` are HERE, `lastw` and `xt`. One action is one defining word, one
immediate word, one throw inside a definition, one search-order word or one call of
the host. Writing over a header removes it from `mem` (`Overwritten`), so a link to
memory that was given back is seen at once. `Chain` follows `prev_off` from a header, as
every loop over a wordlist does, and goes only down: that links never lead up is part of
`WordsApart`, for built-in words it is the assumption `BuiltInsAssumption`. `WordLists` is the promise: each wordlist
is a pile of names, a definition adds one on top, nothing else changes it but the host
that forgets all.

### LineEdit, EditedLine, Terminal, MCLineEdit

`LineEdit` is `linenoiseEdit` with its callers: one action is one key, with the
refresh it does. The line is a buffer of bytes with `len` and `pos` kept apart, as in
`linenoiseState`; the history holds the line being edited as its last entry.
`Terminal` is what the escape sequences of `refreshMultiLine` do to a screen of
`Cols` columns that wraps, tall enough for a full line and the row
below it (`TallAssumption`), so that it never scrolls; it is external to the code. `EditedLine` is an
editor: text before the cursor, text after it, and what any key may do to the two.

## 3. The runs

| Run | Shows | Bounds |
|---|---|---|
| `catch_throw` | types, handler and locals chains, `ThrowResumesInnermost`, refinement of `ExceptionScopes`, for first runs and for runs that follow one left in a CATCH or below locals | 1 body, 1 datum, return stack of 9 cells, 3 data cells |
| `catch_below_locals` | **violation**: CATCH below a word with locals loses VM and IP | same |
| `locals` | LOCL and return addresses, refinement of `LocalVars` | 3 words, 1/2/4 variables on 3 registers |
| `hashmap` | chains, agreement of the two searches, full maps, stable entries, refinement of `PartialMap` | 6 keys, capacities 1, 2, 4 |
| `outbuf` | order and completeness of output, errors, termination | buffer of 3, strings of 0, 2, 4 |
| `inbuf` | buffer holds the next characters, nothing is skipped but what a failed compile gives up, REPL reads all | buffer of 3, every file of up to 5 characters and of 6 without spaces, typed text of up to 5 |
| `control_flow` | destinations of all jumps, acceptance of nested words, recompilation, balanced stacks | all definitions of up to 7 control words |
| `line_edit` | types, the line is a string, screen, keys edit at the cursor, recall, history | line buffer of 4, 2 columns, 2 completions, history of 3 lines and 2 characters |
| `dictionary` | types and limits, words apart, lookup, completion, bodies stay, refinement of `WordLists` | 2 words of 20 bytes of data space, 3 wordlists and a new one, order of 2 |
| `tokens` | the tests of the repository, rules, words and programs keep meaning, `+loop`, numbers, termination of the optimizer | 16-bit cells; jobs below |
| `if_more` | **violation**: amd64 `(if>)` and `(if>=)` swap equality | words of comparing tokens |
| `literals` | **violation**: `literal` compiles a wrong token for 53 | one number |

**Why the bounds are enough.**
- `catch_throw`: 9 cells hold two nested catches (4 cells each), which is what
  the innermost/next-outer chain needs, with another activation between or around
  them. `FewActivations` allows three activations besides catches, one of them
  data, and two in a run that follows one left in a CATCH or below locals.
  `FewLeftBehind` lets such a run begin with handler 5 or LOCL 3, pointers that are
  less than, equal to or greater than those of its own frames. With three data cells a caught word can be entered with data, drop it and
  throw from a depth that still has data, so that THROW must invent cells.
  `VIEW LiveState` merges states that differ only in cells that are never read:
  above the return stack pointer, below the data stack, and above the data stack
  pointer unless a live CATCH saved a depth that includes them, and in the history
  `entry` while C has control. Whatever the
  sizes, the theorems hold.
- `locals`: 1, 2, 4 variables over 3 registers are "some", "fewer than Ln" and
  "more than Ln", and three activations make a callee of a callee. Values are only
  copied, so few copies of one value (`Copies`) tell variables apart.
- `hashmap`: six keys fill capacity 1 (2 entries), 2 (4) and overflow a bucket of
  4 (5 of 8 entries). Ordered hashes and `KeysInOrder` remove symmetric keys.
- `outbuf`: strings below and above a buffer of 3 reach the fits-exactly,
  flush-first and bypass branches, with every split by the device.
- `inbuf`: six characters are two buffers: every alignment of blanks, quotes and
  names with the end of a buffer. Spaces and newlines are both blank and differ for `\`
  alone, so that texts of six characters have newlines only.
- `control_flow`: seven words nest three structures (`begin do if leave then loop
  again`), or CASE with two OFs. One plain token is enough for offsets to matter;
  `FewCases` stops words that leak a cell per turn of a loop; a state out of the
  bound is still checked, only not continued.
- `line_edit`: four bytes on two columns after a prompt of one make a line of one,
  two and three rows, full and not; a completion of three letters fills the buffer.
  A third history line drops the oldest. The terminal scrolls after five rows.
- `dictionary`: headers of 2 bytes, cells of 2 and tokens of 1 keep every alignment
  case. Two headers are what shadowing, hiding and giving back need.
- `tokens`: 16 bits are the least for which every constant of the tests and of
  `(lit) 255`, `256` is a number; edge values are both ends, their neighbours, zero and
  its neighbours. Rules run from all pairs of edges, over cells that all differ; all
  words of three of the 21 tokens with most rules cover rules that meet. Texts of
  three characters have a prefix, a sign and a digit in any order. Programs are the
  lines of `t/testcompile.c` that end with `;` and 24 longer ones.

**Fairness.** Only where something must end. `OutBuf`: weak fairness of the buffer's
own steps (`Iobuf`): the code runs until it returns. That the device takes at
least one character or fails is part of `Device`: `fwrite` blocks or returns so.
`InBuf`: weak fairness of `Repl`, `Interpret` and `Finish`, each enabled until taken; `Finish` says that a word ends,
which Forth words need not do, and `ReadsAll` is meaningless without.
`Machine` and `Compile`: weak fairness of the passes of the optimizer, which is one
loop that does not wait for anything; without it `OptimizerEnds` would say nothing.
The other modules check safety only and have none. Deadlock is checked
everywhere but in `line_edit`, where a key past the end of the buffer (section 6)
ends the model; a machine that stopped for good ("lost", "done", returned) stutters
by an explicit action.

## 4. What is proved

Seven modules hold proofs about a component, `Induction` two facts they share. In each,
`Inductive` is `Spec => []IInv` and `TypeCorrect` is `Spec => []TypeOK`; the other theorems are
the properties that the component's run checks, named `<property>Holds`. All are for every
value of the constants that satisfies the assumptions of the component's module.

### CatchThrowProofs

For every set of words and literals, every stack size and every bound on plausible XTs:
`HandlerChainHolds` and `LoclChainHolds`, the invariants the run checks, for first runs and for
those entered after BYE or an uncaught throw with whatever handler and LOCL was left;
`ExTellsHowHolds`: `(catch-end)` finds `ex` zero exactly if the caught word returned, which the
chain rests on; `ThrowResumesInnermostHolds`, the action property; and
`ImplementsScopesHolds`: the machine implements `ExceptionScopes`.

`HandlerChain` is not inductive: that the frame uncovered by a throw or a
return holds the next outer handler depends on what cells below it hold, and the
cells below are changed by `>r`, calls and locals in any order. `IInv` therefore
describes every live cell by its tag (`WellFormed`): what a return address, a datum,
a saved LOCL and the five cells of a catch are, and what they lie on; the two
chains at every frame (`Innermost`); and what each kind of IP implies
(`Control`): inside a body a set handler means `ex = 0`, at `(catch-end)` `ex`
tells whether the frame is still there. That a run may find a handler it did not set
costs two facts more: `ex` is zero whenever a handler is set and C has control, and a run
without a live CATCH has the handler it was entered with (`NoHandler`, `NoLiveCatch`). Pushing lemmas (`PushedCell`, `WellFormedStable`,
`InnermostStep`) say a cell stays well formed while nothing at or below it changes;
`InnermostPop`, `Unwound` and `FrameBelow` say what is on top after a frame is
dropped. Then there is one lemma per action, and `NextStep` combines them.

The refinement needs no more invariant. `Begun` is a recursive function on the live cells;
its equation (`BegunRule`), that it depends on no cell above, that saved cells add nothing
(`BegunSkip`) and that the innermost "catch" cell is the last CATCH of the sequence
(`BegunCatch`) are proved first. `PushedOn`, `PoppedTo`, `PoppedSaved` and `Unwinding` then say what a
change of pointer, cached top and cells does to the activations, for constants; one lemma
per action (`SPushStep` .. `SLostStep`) applies them, and `ScopesNext` combines these.

### LocalsProofs

For every number of register variables, every assignment of registers and every nesting of
words: `LoclIsInnermostHolds`, `ReturnAddressesKeptHolds` and, when no two variables share a
register, `ImplementsLocalVarsHolds`. The hypothesis `RegistersApart` is part of the last
theorem because amd64 does not meet it: variables 4 and 6 are both in `%xmm6`
(`amd64/asm.mh:157,159`). The run has three registers, all different.

`IInv` is `TypeOK`, the two invariants and `Layout`: the areas of the active words, frame and
return address, lie one above the other on the return stack, and the frame of a C call above
all. Without it a spill or `>r` could write into the frame of a caller. For the refinement,
`Variables` reads the variables of each activation off the frames of later words, and a lemma
per action says that what it spills, reloads or writes is exactly what `LocalVars` lets change.

### HashMapProofs

For every set of keys, every hash function and every capacity that doubling makes of 1:
`EachEntryInItsChainHolds`, `FindsAgreeHolds` (C and Forth find the same entry),
`InsertFailsOnlyWhenFullHolds`, `EntriesStayHolds`, and `ImplementsMapHolds`: the map implements `PartialMap`.

The lists are recursive to follow and cannot be in the invariant as sequences. `IInv` says
the same of sets: entries hold a key nobody else holds and link within their index
(`EntriesInPlace`, `KeysOnce`), every set of entries has one whose link leads out of it
(`ListsEnd`, no circle), every set that has a bucket and is closed under links has all entries of
its index (`AllReached`), and `size` counts the entries in use (`Counted`).

### OutBufProofs

For every size of the buffer, all strings and errors: `OutputInOrderHolds`, and
`SuccessSendsAllHolds` as an action property. `IInv` adds `AtRest` to `OutputInOrder`: between two
operations nothing is left to write, and the bypass for long strings begins with an empty buffer.

### InBufProofs

For every text and size of the buffer, files and lines, also with exceptions inside a
definition: `DataIsNextHolds` and `NothingSkippedHolds`. `TypeOK /\ DataIsNext` is inductive. `DataIsNext` relates
three positions: what the program consumed, what the buffer holds and what the I/O function has not
returned yet. For what a failed compile gives up, the proof shows that the first newline after the
next name ends it.

### DictionaryProofs

For all names, wordlists, sizes of cells, tokens, headers and data space, and every built-in
dictionary whose links lead down: `WordsApartHolds`, `FindsNewestHolds`, `BodiesStayHolds`
and `ImplementsWordListsHolds`: wordlists implement the piles of `WordLists`.

`WordsApart` is not inductive: what `ForgetAll` takes out of a wordlist others may still
refer to, `compiler-abort` gives back the memory of `latest` whatever it is, and a new definition is
laid out from HERE. `IInv` says that there is a set `L` of headers that has the first word of every
wordlist and every word that a word of `L` refers to (`Closed`), whose words have their bytes to
themselves below HERE (`Apart`), and that `latest` begins after all of `L` or is its last word
and not being compiled (`OnTop`). Each action keeps `L`, puts one word on top of it, or clears
it (`Outcome`). From there `ChainFacts` has what wordlists chain: words of `L` and built-in ones,
with falling addresses, so that the first match is the newest; `SameChain` that a step which
keeps the headers of `L` keeps every wordlist.

### LineEditProofs

For every character set, dictionary, prompt, and size of buffer, screen and history:
`TypeCorrect`, `EditsAtCursorHolds` (the line editor implements `EditedLine`: any key changes
the line at the cursor only), `RecallsTypedHolds`, `HistoryKeptHolds` and
`ScreenShowsLineHolds`. The names of keys
must not be characters (`KeysAssumption`), nor the byte 0 (`CharsAssumption`).

`IInv` is what every key finds and leaves: the buffer holds a C string of `len` characters
with the cursor in it, the entry edited is in the history, no line of it is longer than the
buffer, and the completions offered are words of the dictionary. That a completion puts
the cursor at most at the end of the line it makes is not part of it, as it is false when the line is cut
(section 6). There is one lemma per key that says what the `memmove` of its handler does to
the text before and after the cursor (`EditedTo`, `AcceptedTo`, `Recalled`), from which types and
the refinement follow.

`RecallsTyped` needs that the line typed waits in the history while an older one is edited
(`TypedSaved`): `HistoryNext` saves the line it leaves, and no key writes to another. `HistoryKept`
needs that the history is the one the line began with and one entry more
(`HistoryBegan`). Then `ScratchAdded`, `AddKeeps` and `EndKeeps` say what adding an entry and
taking it away keep of the lines that are not empty, with the oldest line dropped or not.

`ScreenShowsLine` speaks of a line until a completion takes more or fewer rows than the line
(`spilled`, section 6), which the code does not count. It needs `ScreenKept`, which says what linenoise must know of the screen between two
keys (`Clearable`: the text is within the `maxrows` rows it counts, and the cursor in the row
that `oldpos` gives) and what is on it (`Shows`: the prompt and the line, with the completion
offered). The proof adds the rows up: what a text written from the left
looks like in rows of `Cols` (`Drawn`), that the rows a refresh goes down to and erases upwards
are all those the last one wrote (`Cleared`, `Erasable`), that it then
shows the line whatever was there (`RefreshShows`), also when the line ends at the right
edge and the code adds a row, and that the keys that do not refresh leave nothing to draw
(`AcceptSeen` and one lemma per group of keys). It assumes that a full line and the row below
it fit on the screen (`TallAssumption`); on a smaller terminal the text scrolls and
`refreshMultiLine` loses the first rows, which the model leaves out.

### Recursive functions

The provers cannot instantiate induction theorems that take an operator. What the recursive
functions of these modules compute is proved from `LeastNat` and `LeastInt` (`Induction`: a set of numbers that is
not empty has a smallest one): take the smallest address, index or number for which the claim fails and find a
smaller one. For a function that is not defined on the natural numbers alone, like `Chain` and `Begun`, that a solution of
its equation exists is proved the same way (`SolutionsAgree`, `SolutionBelow`, `ChainStep`;
`BegunAgree`, `BegunExists`, `BegunRule`). `Selected` of `LineEdit` is treated likewise (`SelectedIs`,
`SelectedAgree`, `SelectedLast`): what it selects, in order, from a sequence and from its ends;
and so is `Write` of `Terminal`.

## 5. What is only model-checked

- Liveness: `Returns`, `ReadsAll`, `OptimizerEnds`. TLAPS does not reason about fairness.
- `JumpsMatchSource`, `NestedWordsCompile`, `StacksBalanced` of `ControlFlow`: what source words
  mean to each other is defined over the whole history of a definition.
- `CompletionsFound` of `Dictionary`: it sorts with `SortSeq`, which TLC computes and the
  community modules define by a choice of permutations.
- `Machine` and `Compile`: their tests and rules are data, which TLC runs; what one token
  computes uses `Bitwise`, whose recursive operators the SMT backend does not take.

## 6. Disagreements found

Three are runs that expect a violation, confirmed by running the program.

1. `call.S:55`: CATCH while a caller has locals pops VM from the wrong cell.
2. `amd64/loop.S:220`: `(if>)` and `(if>=)` swap their answers for equal cells.
3. `impl.S:1598`: `(optimize-literal)` steps one token over a table of pairs: 53 and
   858 .. 869 compile other tokens.

The models contain these, and the properties leave them out or say what they do:

- `call.S:243` says of the return stack of a throw "it must contain *more* items". After BYE
  in a CATCH `m64th.handler` stays set; a host that then runs a word without `m64th_clear`, and
  has no CATCH around what it throws, moves RSTK to a frame that is gone (`ThrowLosesFrame`).
  `main.c` is safe there, as all of `repl` is inside a CATCH.
- LOCL stays set in the same way: after BYE in a word with local variables, the CATCH of
  `repl` in the next file takes the path of 1. and loses VM (`CatchLosesVM`).
- `core.S:67` says that `compiler-abort` skips to the end of the input line. `repl` skips
  blanks before it (`user.S:532`), newlines too: if the failing name is the last of its line, the
  next line with a name on it is discarded. Of `: foo nonexistent`, `1 .`, `2 .` only 2 is printed. And
  only the part of the line that is in the buffer is discarded. `RestOfLine` does both.
- `core_ext.S:291`: `\` directly before a newline skips that newline as the blank after
  `\`, and discards the next line (`Parse`).
- `core.S:455`: `(obuf-flush-write-char)` drops its return address on an error
  (status "lost" of `OutBuf`).
- `user.S:528`: a source name is split at a multiple of 1024 characters. `InBuf` reads
  names like the code; `NothingSkipped` is about characters, not names.
- `linenoise.c:466`: a completion as long as the buffer leaves the cursor past the
  end; keys then read past it. Such a key ends the model (`overrun`, `KeyPastEnd`): no
  property speaks of what it does.
- `user.S:692` says that `string>number` leaves `( 0 false )` without digits; after a prefix or
  a sign alone it leaves the base (`user.S:711`). `StringToNumber` does so too; nothing reads it.
- `linenoise.c:644`: rows are not counted for a completion being shown (`spilled`).
- 14 rules of the optimizer change what a word does, listed in `Machine` as
  `KnownWrong`: `swap >` (equal cells), `tuck -rot`, `1 mod`, `1 /mod`, `-1 /mod`, `4/ 2/` and
  `4sm/ 2sm/`, `0<= 0<>`, and `0<=`, `0<>`, `0=`, `0>`, `0>=` before `0<`, `/ negate`.
  `RewritesKeepMeaning` is for words that meet none of them.
- `core_ext.S:196`: the last FALLTHROUGH of a CASE runs into ENDCASE, which drops
  one cell too many; `t/testcompile.c:301` expects the offset 0. `StacksBalanced`
  excludes such words.

Met while reading, not (yet) in a model:

- BREAK and CONTINUE compile jumps that nothing resolves, so `;` refuses them.
- `call.S:149`: CATCH on an empty data stack restores a depth that was never set.
- `amd64/asm.mh:157,159`: locals 4 and 6 are one register, `%xmm6`.
- `impl.S:788`: `(locals-add)` compares free space the wrong way round.
- `m64th.c:1550`: `asm-reserve` loses bytes already emitted.
- `m64th.c:1615`: `m64th_colon` computes the name offset from the wrong base.
- `generic_asm/core.S:283`: `previous` until the order is empty and `also` reads below it;
  dropping from an empty order reports overflow. `set-order` does not check how many it gets.
- `compile.S:221`: `immediate` after an aborted definition marks memory that was given back.
- `core.S:68`: `abort` in a definition leaves its colon-sys on the data stack.
- `c_liblinenoise.c:46`: the end of the input is told from errno, which is not cleared before.

## 7. What is not modelled, and why

- Encoding of machine code, printing, `see`: formatting without state of its own.
- Memory tokens, double cells, `holds`; CRC: one instruction each, or pure functions.
- The locals table of the compiler and `{: :}`; local variables, strings, calls and
  defining words inside the definitions of `Compile`; rules of the optimizer whose tokens
  touch memory, HERE or local variables.
- BREAK, CONTINUE and the 0 and ? variants of IF, WHILE, UNTIL in `ControlWords`; a `]` that does
  not directly follow its `[` in `Dictionary`.
- The ASM buffer and native code.
- Of linenoise: hints, single-line refresh, the history file and its maximum set at
  run time, printing key codes, measuring the terminal. The check of a prefix is with
  case in `LineEdit`; keys outside ASCII are in the model (`NonAscii`) but not in the run.
- Of `string>number` in `Compile`: characters below `!`.
- Text of exceptions (`ex-message`). What BYE leaves unread in the input buffer: `InBuf` begins
  each input with an empty one.
- `CatchThrow` has the return stack on the C stack, as `m64th_run` is built, and
  one-variable frames; `Locals` has the others. A nested `m64th_run` from a C
  callback is not modelled: nothing in the repository does it.
- `ControlFlow`: +LOOP compiles as LOOP; bodies over 32767 tokens.

## 8. Plan

1. `LocalsTable`: the compile-time table, composed with the layout of `Locals`; locals
   and calls in the programs of `Compile`.
2. `AsmBuffer`: reserve, emit, grow, protect.
3. Memory tokens in `Tokens`, with the rules that use them.
4. `NestedRuns`: C callbacks that enter the VM again, extending `CatchThrow`.

Proofs: `StacksBalanced` of `ControlFlow`.
