# Verification of the Potato-16 C compiler

The repository is 8cc, a small C11 compiler, ported to the EX_ISA of a 16-bit
processor, with a shell script that links at the level of assembly sources.
This directory holds TLA+ models of its parts, the TLC runs that check them on
small instances, and TLAPS proofs of what matters most for every instance.

The compiler is sequential: one process, one thread, no signal handlers, no
retries. What makes it hard is elsewhere: long sequences of legal calls that
bring a table into a state nobody tested (tombstones in the hash map), state
that is kept in globals and saved and restored around recursion (token buffers,
jump labels, the stack of conditionals), values that are read before they are
final (the alignment of a record that is still open, a goto before its label),
look-ahead that has to be put back (splices, the end of a file), and arithmetic
at a boundary (bit-fields, probing modulo the table's size). Around it is a
shell script that runs it once for each source, where a compilation may fail
half-way, the compiler may abort when it is done, and a signal may come at any
step.

## 1. Inventory

| part | source | state | operations | talks to |
|---|---|---|---|---|
| hash map | `map.c` | `key`, `val`, `size`, `nelem`, `nused`, `parent` of each map | `map_put`, `map_get`, `map_remove`, `maybe_rehash`, `make_map_parent` | symbol tables, keywords, tags, macros, include guards |
| vector, buffer, dict, set | `vector.c` ... | growable arrays, immutable lists | push, pop, get, union, intersection | everything |
| character stream | `file.c` | stack of open files, 3 characters of pushback, line and column | `readc`, `unreadc`, `stream_push`, `stream_stash` | tokenizer |
| tokenizer | `lex.c` | stack of token buffers, the token being read | `lex`, `lex_string`, `unget_token`, `token_buffer_stash`, `skip_cond_incl`, `read_header_file_name` | stream, preprocessor |
| macro expander | `cpp.c` | macro table, hide sets in tokens | `read_token`, `peek_token`, `read_expand`, `subst`, `#define`, `#undef` | tokenizer, hash map |
| conditionals, includes | `cpp.c` | `cond_incl_stack`, `include_guard`, `once` | `#if` and its kin, `#include`, `#import`, `#pragma once`, `#line` | tokenizer, stream |
| expressions, types | `parse.c` | scopes (maps with parents) | one function per precedence level | preprocessor |
| declarations, records | `parse.c` | `tags`, the type being made; `globalenv`, `localenv`, the counters of labels | `read_decl`, `read_static_local_var`, `read_rectype_def`, `update_struct_offset` | code generator (offsets, sizes, labels) |
| initializers | `parse.c` | the list `inits`, the depth of braces | `read_decl_init`, `read_initializer_list` and the functions below it | code generator (`emit_decl_init`, `do_emit_data`) |
| statements | `parse.c` | `lcontinue`, `lbreak`, `cases`, `defaultcase`, `labels`, `gotos`, `localvars` | one function per statement, `backfill_labels` | code generator (labels, jumps) |
| EX_ISA back end | `gen_ex_isa_rebuild.c`, `gen_dispatch.c`, `target.h` | `stackpos`, the machine's stack and frame | `emit_expr`, `emit_func_call`, `emit_func_prologue`, data | assembler |
| x86-64 back end | `gen.c` | the same | the same | `as` |
| driver | `main.c` | options, the output file, the temporary file, exit status | a fixed sequence of calls | all |
| source-level linker | `compile-ex-isa.sh`, `.bat` | per-module files, merged file, kept file, exit status | compile each, merge, add the start-up, assemble | compiler, assembler |
| text conversions | `encoding.c`, `path.c`, `error.c`, `debug.c` | none (counters of warnings) | UTF-8, paths, messages, AST dump | tokenizer, driver |

What makes each of them correct:

- **hash map**: a key that was put is found with its last value, a key that was
  removed is not; the counters that decide about a rehash are right; no probe
  goes round for ever; maps with parents are nested scopes.
- **character stream, tokenizer**: the three characters of pushback suffice; the
  tokens and their lines are those of the translation phases of C; the files
  come back when a pasted string has been read; reading ends.
- **macro expander, token buffers**: the result of a text is that of the
  algorithm the source names; buffers, stashes and pushed-back tokens stay
  paired with the calls that own them; expansion ends.
- **conditionals, includes**: of each conditional the lines of one group are
  read, in whatever file; a file is skipped as "already included" only if
  reading it again would be in vain; reading ends.
- **statements**: what C allows is accepted and the rest is not; `break`,
  `continue`, `case` and `goto` go where they must; the jumps and labels that
  replace the statements do what the statements mean.
- **records**: members do not overlap and are inside of the record; each is
  where the rules of the ABI put it.
- **back end**: what is pushed is popped; the generator's count of the stack is
  the stack of the machine; arguments are found where the prologue looks for
  them; a return finds its caller, with the caller's stack and frame; a call's
  result survives it.
- **initializers**: every scalar of an object gets the value C gives it, whatever
  mix of braces, designators and strings it is given by, the others are zero,
  and an array without a length gets the right one.
- **names, driver, linker**: labels of different modules or blocks meet just where
  C says that names are the same; no output of a failed compilation is kept or
  assembled; the exit status tells whether the output is there and whole;
  temporary files go, whatever happens.

`PROJECT.json` lists the hazards behind these, each at the line where it bites.

## 2. Plan

Done, in this order: `HashMap` (everything else rests on it), `MacroExpand`,
`CondIncl`, `Statements` with `Lowered`, `Records`, each with its reference
definition; `CodeGen` with the machine `Potato`, composed in `Calls`; then
`CharStream` under `Tokenizer`, `Compiler` composed with `LinkWrapper`, and
`Initializers`. There are proofs about all of them but `Initializers`: see section 5.

To do:

1. Constant expressions with their widths, and the types of expressions
   (`parse.c` 470-1330).
2. `CodeGen` extended to struct members, bit-fields and variable arguments; for
   `Calls`, a proof of `DepthAgrees`, for programs that store only into their own
   objects, from the invariant that `CodeGenProofs` has for the generator.
3. `Initializers` with bit-fields and with expressions of a record's type.

## 3. Modules

A module of the first column is translated from the source; the reference beside
it states what has to come out, with no step in common with it.

| module | models | reference | model checking | proofs |
|---|---|---|---|---|
| `HashMap` | `map.c` | `Dictionary` (refinement) | `MCHashMap` | `HashMapProofs` |
| `CharStream`, `Tokenizer` | `file.c`, `lex.c` | `Phases` (translation phases, recursive definition) | `MCTokenizer` | `TokenizerProofs` |
| `MacroExpand` | `cpp.c` 110-480, 1000-1020, `lex.c` token buffers | `Prosser` (recursive definition) | `MCMacroExpand` | `MacroExpandProofs` |
| `CondIncl` | `cpp.c` 480-830, `lex.c` 180-240, `file.c` file stack | `Groups` (recursive definition) | `MCCondIncl` | `CondInclProofs` |
| `Statements` | `parse.c` 2300-2720 | `Structured` (abstract machine) | `MCStatements` | `StatementsProofs` |
| `Lowered` | control flow of `emit_expr`, its execution; composes `Statements` and `Structured` | | `MCStatements` | |
| `Records` | `parse.c` 340-395, 1353-1557 | `Abi` (recursive definition) | `MCRecords` | `RecordsProofs` |
| `Initializers` | `parse.c` 1615-1820, `gen_ex_isa_rebuild.c` 1210-1290, 1380-1412, 2266-2425 | `Initialized` (recursive definition) | `MCInitializers` | |
| `Compiler` | `main.c`, names and labels of `parse.c`, `gen_dispatch.c` | | `MCLink` | `LinkProofs` |
| `LinkWrapper` | `compile-ex-isa.sh`; composes with `Compiler` | `Linkage` (linkage and success, from the sources alone) | `MCLink` | `LinkProofs` |
| `CodeGen` | `gen_ex_isa_rebuild.c` 500-580, 640-870, 1000-1440, 1770-2265, 2500-2610 | the machine's stack and frame | `MCCalls` | `CodeGenProofs` |
| `Potato` | the machine, `gen_ex_isa_rebuild.c` 9-135 | | `MCCalls` | |
| `Calls` | `CodeGen`, then `Potato` running its code | | `MCCalls` | |

### HashMap

One action per slot a loop looks at. A call (`PutAllocates`, `PutFits`,
`PutRehashes`, `CallGet`, `CallRemove`) sets the probe index `i`; `PutAdvances`,
`GetAdvances`, `RemoveAdvances` are `i = (i + 1) & mask`; `PutInserts`,
`PutOverwrites`, `GetHits`, `GetMisses`, `RemoveHits`, `RemoveMisses` are the
exits. A rehash is the two nested loops (`CopySkips`, `CopyPicks`,
`PlaceCollides`, `PlaceStores`, `CopySwaps`). `maps` is the chain of parents;
a get that misses goes on with the parent. A behaviour has one of the two kinds
of table the compiler has: environments, which nest and from which nothing is
removed, and the macro table, which does not nest.

`Dictionary` is a stack of functions with put, get and remove in one step.
`EnvIsDictionary` is the refinement: every probe step and every step of a rehash
maps to a stutter.

Abstracted: keys are model values with a given hash; FNV itself is not computed.
`map_iter` and `map_len` are not modelled (reading only).

### CharStream, Tokenizer, Phases

`CharStream` is `file.c`: `files` is the stack of open files with their pushback
`buf`, line and column, `stashed` the stacks put away by `stream_stash`. `Readc` is
one turn of `readc`: a plain character, the end of a file (the file is popped), a
backslash that is taken out to look at the next (`slash`), then either `Splice` or
`ReadNoSplice`. What was read is in `got` until the tokenizer uses it.

`Tokenizer` has one action for each thing `lex.c` may do with a character,
selected by `mode`: `Gap...` for spaces and comments, `First...` for
`do_read_token`'s switch, `Punct...` for `read_rep` and its kin, `Prefix...` for
`u8"`, `Ident...`, `Number...`, `String...`, `Char...`, the escapes, `Unstash` for
`lex_string`, `Skip...` for `skip_cond_incl` and its `skip_char` and `skip_string`,
`Header...` for `read_header_file_name`. A look-ahead that fails is `PutBack`: the
characters go back into `buf`, as `unreadc` puts them, with the line taken back.
`Phases` never reads a character: it translates the line ends and splices of the
whole text and then finds the longest token at each place.

Abstracted: the alphabet is the constant `Chars`; a token's `space` and `bol` are
kept, its column is not (only whether it is 1); `read_number` and the others give a
spelling. A `FILE` and a string are both sequences of characters. `\v` is left
out of the white space.

### Compiler, LinkWrapper, Linkage

`Compiler` is one run of `8cc`, a phase after the other: options, input, output,
preprocessing only (`-E`), parsing (one declaration or one part of a body a step),
emitting (one element a step), the two `fclose`s. Of a source it keeps what has to
do with names: declarations with their storage class, initializers that name
something, and in a body the reading and calling of names, declarations, strings
and loops (which get labels), and `unsupported` for what only the back end
rejects. `global` and `local` are `globalenv` and `localenv`; `counts` the counters
behind `make_label` and `make_static_label`. A line of assembly is a definition or
a use of a label, with the place it came from (`at`), which no action reads.

`LinkWrapper` is the script, a command a step. `Compiling` is a step of `Compiler`.
A command that fails ends the script (`set -e`); `Ends` runs the trap when it is set;
`Interrupt` is a signal at any step. The builds it starts from include the use of
the compiler without the script. The assembler is external and only checks that
every label is defined once.

`Linkage` says what every name has to mean, from the sources, by C's rules for
scopes, linkage and tentative definitions, and when a build has to succeed.
`Deviates` names the uses the compiler gets wrong, and `MatchesLinkage` says that they
are the only ones and that each of them is wrong. It says nothing of two kinds of
names: those that C gives no meaning (`Clashes`: declared static after a declaration
that is not, `extern int x; static int x;`) and those whose definition the compiler makes
public although they are internal (`Leaks`).

Abstracted: a block has no blocks inside; types are only "a function or not"; the
compiler's warnings; `-D`, `-I`, `-fdump-...`. The `as` of the x86-64 back end, which
`main` runs only for that target, is not modelled.

### Initializers, Initialized

`stack` holds the frames of `read_initializer_list`, `read_struct_initializer`,
`read_array_initializer`, `read_initializer_elem` and `skip_to_brace`, with their
parameters (`off`, `designated`) and locals (`brace`, `i`). An action reads what one
turn of a loop reads. When the list is read, `sort_inits` may leave elements of one
offset in any order (`qsort` is not stable). Then a local object is filled as
`emit_decl_init` does (holes, then a store for each scalar), a global one is written
as `do_emit_data` does. `Initialized` computes from the syntax tree of the same
initializer which part of the object each value belongs to.

What a local object gets goes through `rax`. `SaveLiteral` is `emit_save_literal`:
`movi` ORs the literal into `rax`, which nobody has cleared, `emit_normalize_int`
cuts a `char` to a byte and extends its sign, and a `long` is two words of which
the upper one is ORed into the lower. `held` is what `rax` holds in front of the
declaration. `SaveConverted` is `emit_conv` and `emit_lsave`, which store one word:
only an initializer without braces is converted to the type of its object
(`parse.c:1812`), so that a `long` in a list is still a literal. For a global object
this is the literal that `emit_data_primtype` takes for an operator, and crashes on.

`MatchesC` says where each value goes, and of a local object that the word there
is C's value ORed with what `rax` held of the values in front of it. `Residue`
computes this from the list of values alone, in the order of their offsets. Where
no bits are left over, as in the first element with a clear `rax`, this is C's value;
elsewhere it is not: of `int x[] = {1, 3, 5}`, which the run has from
`test/initializer.c:18`, the last element is 7 and not 5.

Abstracted: a value is a literal; types come with their layout (`Records` computes
it), without bit-fields; `short` is stored as `int` is, and `float`, `double` and
pointers are left out. An entry of `inits` whose offset was passed already is the
assertion of `emit_padding`.

### MacroExpand

The C functions call each other recursively; `stack` holds their frames
(`top` for the parser's `read_token`, `peek` for `peek_token`, `args` for
`do_read_args`, `subst`, `expand` for `expand_all`) and `bufs` the token buffers
that `token_buffer_stash` and `unstash` push and pop. One action reads one token
or substitutes one token of a macro body. A token carries its hide set. A
`#define` or `#undef` line is a token with the effect of the line, so that
directives among the arguments of a call are covered. `Prosser` gives the
expansion of a whole text, without the three clauses on `##` that `cpp.c` does not
have.

Abstracted: spaces and source positions, the values of special macros (one
value stands for all), `_Pragma`, the parsing of a `#define`, stringizing of
quotes and backslashes.

### CondIncl

One action reads one line, or finds the end of a file. `files` is the stack of
open files, `conds` is `cond_incl_stack`, `mode` says who is reading: the
tokenizer, the look-ahead behind an `#endif`, `skip_cond_incl`, or `skip_char`.
`Groups` finds the lines of the chosen groups by structure and reads every file
whenever it is included, so that `MatchesGroups` also says that skipping a
guarded file changes nothing. A program with a file whose `#if`s are not balanced
is not compared (the code accepts some, across files), but all the other
properties are about it too.

Abstracted: the condition of `#if` is `defined(x)`; `fopen` fails beyond
`MaxOpen` open files (that is how a header that includes itself ends); the
search path, `#include_next`, `#error` and `#warning` are left out.

### Statements, Structured, Lowered

A statement that contains others is a frame; `Read...` actions read one token,
`...Got` actions give a statement that was read to the frame that asked for it.
A frame holds what the C function keeps in locals: the labels it made and the
values of the globals `lcontinue`, `lbreak`, `cases`, `defaultcase` it has saved
(`SET_JUMP_LABELS`, `SET_SWITCH_CONTEXT`). The nodes are those of `parse.c`:
jumps, destinations, `if`, compound.

`Lowered` goes on when the body is read: `Emit` is what `emit_expr` makes of the
nodes, `Execute` what the machine does with it, and the code is run side by
side with `Structured`, an abstract machine that walks over the tokens of the
body and knows no labels. At each step both must be about to evaluate the same
expression; its value is then chosen freely and given to both.

Abstracted: an expression is a name, its value anything in `Values` or 0 and 1
for a test (so the EX_ISA code for expressions, which has its own faults, is
taken to compute what C says); declarations in blocks, computed `goto`, types.
A `default` outside of a switch is accepted by the code and by the reference.
More than `Patience` silent steps in a row count as an endless empty loop.

### Records, Abi

Tokens are whole members (`type name`, `type name : bits`, `struct tag name`,
`struct tag *name`) and the two ends of a definition; a definition inside of
another is a frame. At the closing brace the layout runs one member a step:
`LayAnonymous`, `LayZeroBits`, `LayBits`, `LayNextUnit`, `LayPlain`,
`LayInUnion` are the branches of `update_struct_offset` and
`update_union_offset`; `FinishRecord` adds the padding. `tags` and `types` are
the table of tags and the types it refers to. Types are copied into members as
`copy_type` does, so that what happens to a type later does not reach a member
read before. `Abi` finds the place of each member from the rules alone (first
place from the end of the one before where it is aligned, or inside one unit).

Abstracted: types that are no records are given (kind, size, alignment, length);
member names within a record are distinct; tags are never shadowed; an unnamed
member of a named record type is copied, as the declared ones are.

### CodeGen, Potato, Calls

`emit_expr` and the functions it calls recurse over the syntax tree; each is, in
the model, a script: the list of what it does, in order (`Expr` for a
subexpression, `PushR` and `PopR`, `Code`, `Label`). `todo` is what is left of
all scripts that are active; an action does its first item. `Script` is the
dispatch of `emit_expr`. The loops of a call and of a prologue are actions of
their own, one turn a step: `ClassifyArgs`, `SaveArgRegs`, `EmitRestArgs`,
`EmitRegArgs`, `PopArgRegs`, `EmitJump`, `DropRest`, `CheckStackpos`
(`assert(opos == stackpos)`), `EmitParams`, `EmitLocals`. `stackpos` moves as in
the code, which is not always as the stack pointer does. Every instruction is
kept with the function that emitted it and with the `stackpos` at that time.

`Potato` executes them: sixteen registers of sixteen bits, R0 zero, separate
memories. `Calls` compiles a program, makes the jump to `main` that
`compile-ex-isa.sh` puts in front, and runs it to its `halt`. `layout`, `sites`,
`active` and `pushed` only remember, for the properties, where variables were
placed, which call a jump is, where active calls must return to, and what was
pushed where.

Read of the machine's description, which leaves it open: `jmp 10` and `jmp 13`
as the generator emits them are the form `JMP rA`; `halt` is `HLT`; a pseudo
instruction is one step and clobbers nothing but R14, which the generator does
not use; `jz` does not change what `set..` looks at. An `int`, a `float` and the
structure of the model have 4 bytes, as the parser says, although an int is one
word to the generator.

Left out: bit-fields, struct members, variable arguments
(`emit_regsave_area`), `goto` (in `Lowered`), what types of less than a word need
after a load, shifts, division (rejected by the code), source lines.

The values of expressions are not compared with C's. The generator has a number
of faults there, which the model reproduces and no property repeats: `movi` ORs
a literal into `rax` without clearing it (`Initializers` has a property about this); comparisons compare the right operand
with the left; `emit_logand` clears `rax` before it tests it, so `&&` is 0;
`++` does `add 1, 1, 1`, which adds `rax` to itself; the sum of a pointer and an
integer is put into `rcx`, which is then popped; an assignment through a pointer
stores the pointer. And of frames: parameters that are passed on the stack are
stored (`str`) where they should be loaded, structures are counted in bytes there
and in words elsewhere, a function with parameters and locals sets its stack
pointer above some of its locals, and a float on the stack is one word for the
machine and two for `restsize`. `ArgsArrive`, `TempsKept` and `DepthAgrees` name
the programs they leave out for one of these.

## 4. Runs

All runs are exhaustive over the programs the MC module defines.

| run | configuration | states | what it shows |
|---|---|---|---|
| `hashmap` | `HashMap.cfg` | 364,224 | counters, an empty slot, a put is seen, calls return, refinement of nested dictionaries |
| `hashmap_undef` | `HashMapUndef.cfg` | | violated: a removed key can come back |
| `macro_expand` | `MacroExpand.cfg` | 146,100 | expansion is that of the recursive definition, and ends unless `##` takes hide sets away without end |
| `cond_incl` | `CondIncl.cfg` | 183,981 | chosen groups only, sound guards, result of the structured definition, reading ends |
| `statements` | `Statements.cfg` | 95,027 | acceptance, scopes of jumps, labels, meaning of the code, reading ends |
| `records` | `Records.cfg` | 42,463 | members apart and inside, layout of the ABI |
| `calls` | `Calls.cfg` | 53,661 | the generator's assertions, `stackpos` and the machine's stack, pushes and pops, arguments in registers, returns, the end |
| `call_result` | `CallResult.cfg` | | violated: restoring the argument registers overwrites the result |
| `tokens` | `Tokens.cfg` | 353,065 | the pushback, tokens and lines of the translation phases, reading ends |
| `link` | `Link.cfg` | 33,863 | names across modules, labels of jumps and strings, exit status and output, temporary files |
| `initializers` | `Initializers.cfg` | 308,214 | what local and global objects hold, lengths of arrays |
| `init_data` | `InitData.cfg` | | violated: the second `int` of a global array is not where it is read |

Each violated run has one property, a sentence of the sources or the README,
and is explained under `findings` in `PROJECT.json`. Where a divergence is known
the passing run leaves it out and nothing else: `macro_expand` compares with the
version of the algorithm without the three clauses, and its `Terminates` states the
one way in which expansion goes on for ever (the run has macros that do, `f()` with
`#define f(x) x ## f(x)` for one); in `cond_incl` a `#line`
keeps the file's own name, and a skipped apostrophe is in a header that is not
balanced, so that its effect on the result is not compared; `statements`
has no `continue` that belongs to a `do`; `records` mentions a record by its tag
only as the first member, has no anonymous record stricter than all of the named
members around it, and no unnamed bit-field in a union; `MatchesLinkage` and
`MatchesC` name the uses and the initializers they leave out (`Deviates`, `Leaks`, `Clashes`;
`odd`, `Compact`), and of the first the run shows that each of them does go wrong.
`MatchesC` also states what `movi` leaves in local objects and which global objects
crash the compiler, and holds of them just so.
Section 7 describes these divergences.

The bounds, and why they are enough:

- `HashMap`: three keys, two of which collide at every size and the third of
  which probes into them, wrapping round; `InitSize = 4` instead of 16 (with 3
  live keys tombstones must be able to fill the table) and `MaxSize = 8` (one
  growth); `MaxDepth = 2` scopes; `MaxNested = 1` keys in the inner one. With
  these all rehash cases occur: same size, doubled, with and without
  tombstones. That the invariants hold for other sizes is proved.
- `MacroExpand`: five tables of macros, one per difficulty (mutual recursion
  with arguments, cycles through an empty macro, `#`, `##` and variadic
  arguments, directives and special macros, macros that call themselves behind
  a `##`), and every text up to a length
  chosen so that calls nest to depth three and span the end of a replacement.
- `CondIncl`: every header of up to three lines, and every guarded header with up
  to three lines inside and one behind, included by five main files that
  include it twice in different ways; `MaxOpen = 4`.
- `Statements`: every loop, `switch` and `if` around every other around every
  jump (three levels), the two-level ones also with statements behind them, and
  20 bodies no generator makes (Duff's device, jumps into loops, what C rejects).
- `Records`: every structure of three members out of ten sorts of named and five
  of unnamed ones (widths 1, 2 and 4, with bit-fields that do and do not fit what
  is left of a unit), every union of two, records in records with and without
  names, and what C rejects.
- `Calls`: 244 programs: `main` around a function of every one of twelve parameter
  lists (none, one to seven ints, so that one is passed on the stack, floats in
  and beyond registers, structures, mixtures), with and without locals, the
  function calling another among its operands; calls in calls' arguments, first,
  in the middle and last, through pointers, two levels of recursion, in
  each kind of expression. That the assertions hold for all other programs
  is proved; the machine's part is about these.
- `Tokenizer`: eleven families of texts of up to four fragments, each with the
  characters that can begin, continue and end one another: splices and comments,
  digraphs, the three line ends, punctuators, numbers, literals, escapes, an
  included file that ends in the middle of a token, pasted strings, skipped groups,
  header names. `Pushback = 3` is the code's. That it suffices for every text
  is proved.
- `LinkWrapper`: every ordered pair out of 17 modules (each a way in which a name
  is declared, defined or used), one more source that is rejected at every place
  where it can be, one and three sources, every option of the script, the
  assembler and the compiler missing, sources that are missing or unreadable, and
  every set of the compiler's own options with and without an object that is
  rejected. A signal at each step of each.
- `Initializers`: thirteen types (scalars, arrays with and without length, of
  scalars, records and arrays, a record with holes, a union, a nested record), and
  every list of up to three elements with every designator of one and two steps,
  lists in lists and strings, as far as C allows them. Values are small, but for
  one of more than sixteen bits, so that a `long` has an upper word. `Registers`: in
  front of a local declaration `rax` holds 0, or 384, which has a bit that makes a
  byte negative and one beyond the byte.

Deadlock: `HashMap` never stops; `Tokenizer`, `LinkWrapper` and `Initializers` end in
a state with a step of its own (`Stopped`); these four are checked for deadlock. The
other specifications end with `status` (`mode`) "done" or "error", so their runs say
`CHECK_DEADLOCK FALSE`; that they do not stop before is what `Terminates` says.

Fairness: the compiler is one thread that runs until it is done, so weak
fairness of the next step is all that is assumed (`WF_vars(Next)`; in `HashMap`
of the steps inside of a call, since nobody has to make another call; in
`Lowered` of the parser's steps, since the compiled program may be an endless
loop; in `Calls` of the compiler, then of the one processor, `WF_allvars(CNext)`).
`Halts`, `Terminates`, `Ends` and `CallReturns` rest on it. `Records` and
`Initializers` state no liveness: their loops run over finite lists.
`LinkWrapper` states none either: nothing but the end of the compiler is waited
for, and that each part of it ends is what the other runs say.

## 5. Proofs

All proofs are about the specifications the runs check, with no assumption but
the `ASSUME`s of these modules, which TLC evaluates in every run:
`SizeAssumption` (a table has at least four slots; below that `nused < 0.7 size`
lets it fill up), `HashAssumption`, `SlotAssumption`, `BoundAssumption`,
`FileAssumption`, `NameAssumption`, `PushbackAssumption` (the buffer holds at least
three), `CharAssumption`, `InputAssumption` and, for each module that reads
programs, `ProgramAssumption` (programs are sequences of tokens; in `CodeGen`, of
functions) and `TreeAssumption` (a node has the operands its kind needs),
`MacroAssumption` (macros have one of four kinds, and only those with parameters
have a number of them) and `BuildAssumption` (sources are sequences of
declarations; a compiler without the script has one source and its own options).
The last one also says that no source has the number `"bad"` and no two the same:
`ToString`, with which the model names the modules, means nothing to the prover.

- `HashMapProofs`: `TypeCorrect`, `CountersCorrect`, `ProbesEnd`. The two counters
  are not inductive by themselves: in the middle of a rehash the new table must
  hold as many keys as the slots already visited held (`Copied`), and a probe of
  `map_put` must know that its table is not crowded. From `nused` counting the
  used slots and being below the size follows that one is empty, by cardinality.

  `PutsAreSeen` and `ImplementsDictionary`: what a lookup finds (`Answer`) is what was
  put last, and environments with their parents are a stack of functions. Both rest
  on `Searching`, which knows of a loop under way that the slots it has passed hold
  other keys (`Reaches`), of each environment that every key is where a probe for it
  gets to before it meets an empty slot (`Sound`), and of a rehash that the new table
  has the bindings of the slots already visited and no others (`CopyAgrees`). The
  macro table is in general not `Sound` (`hashmap_undef`): a key may be in two slots,
  and only the path of the put itself is known. A step of a probe or of a rehash changes no
  answer, so it is a stutter of the dictionary; `PutInserts`, `PutOverwrites`, the swap
  at the end of a rehash and the exits of a lookup are its steps.
- `MacroExpandProofs`: `CallsMatchBuffers`. The stack of C functions and the stack of
  token buffers grow and shrink together: there is one buffer for each `expand_all`
  under way and one for the source, so that nobody unstashes another's. The
  invariant says which function may be called by which (`Calls`): an `expand_all` is
  called by `subst` alone, in the middle of a body, and an argument list is read for
  the one macro below it. Nothing is assumed about the bodies
  of macros: a macro with two parameters of one name (`#define f(a,a)`, which
  `cpp.c:372-435` does not reject) has positions beyond its number of parameters.
- `LinkProofs`: `LeavesTidy`, `StatusIsTrue`, `LabelsStayApart`,
  `NamesMeanTheSame`. Temporary files are a function of where script and compiler are (`OwnDir`, `OwnTemp`), but for the two windows that `Tidy`
  names. `StatusIsTrue` says for all sources, options and failures that the exit status
  is 0 just if the build had to succeed, and what is then written. It needs to know,
  from the text alone, which declarations are in the two environments at each point
  of parsing (`ParseInv`), that what was parsed is what the text defines and that a
  rejected text is wrong at the place reached (`ErrorsAreWrong`), which lines of the
  output come from which declaration (`EmitInv`), that a merged file is the modules one
  after the other (`ModulesAre`), and of each command of the script what has been
  passed (`ScriptInv`). A script stopped by a signal, by the aborting compiler or by
  a missing assembler ends with a status other than 0 (`ScriptEnd`).

  `LabelsStayApart` says that in the merged file each label of a jump, a string or
  a return address is defined once, by the element that uses it. The invariant
  follows the numbers of `make_label` through the compiler: whatever has a number has
  one below the counter (`Below`), no two elements of the bodies read so far have the
  same (`TopsLabelled`, `Apart`), and a label that the parser gave out is not in the
  output before the back end comes to its element (`Pending`), although the back end
  goes on counting where the parser stopped. Across modules it is the module's id that
  keeps them apart (`MergedLabels`), so `BuildAssumption` says that the numbers of two
  modules are written differently.

  `NamesMeanTheSame` is `MatchesLinkage` for all sources: in the program the assembler is
  given, a use of a name has the label of the entity it means in C, unless the
  compiler deviates there, and then it has not. The label of a static object is a
  number; the proof gives each place of the text the number it must have, that of
  the static declarations before it (`Num`), and shows that the counter is this number
  when the place is read (`Counted`). Two places have different numbers because the
  one's set of earlier places holds the other. The invariant of the parser
  (`ParseLinks`) then says that each name in the environments has the label of its last
  declaration so far, and that every use read so far, but those of automatic
  variables, is in the code with the label of the innermost declaration the compiler
  saw (`Stands`). The back end and the script carry that over to lines (`NInv`, `MInv`). What
  is left is about the text alone (`UseIsRight`): where the last declaration so far is
  the one that C means, and where the label it has is defined. A greatest element
  of a set of positions, which `Max` needs, comes from the library's theorem that the
  order of the numbers is well-founded; it takes no operator as a parameter.
- `TokenizerProofs`: `TypeCorrect`, `PushbackSuffices`. That the buffer is not over-full
  now says nothing of the next character to be put back. The invariant bounds it
  in each mode by what is still held of an unfinished token (`Held`: a token that
  may have to be given back in two characters leaves room for one), with less
  while a backslash is being looked behind (`slash`), and says that the files
  below the one that is read hold nothing (`Holds`), since a file is popped only
  when its buffer is empty. `CallInv` pairs the stashed streams with the caller.
- `CondInclProofs`: `TypeCorrect`, `OnlyChosenGroups`. While a group is skipped,
  `ReadsChosenGroups` says nothing; the invariant adds that all conditionals but
  the innermost were being read (`Outside`).

  `SkipsLoseNothing`: `GuardsAreSound` for all programs whose files are balanced, have no
  lone apostrophe and no `#line` that names another file (`Tame`). Without these it
  does not hold in general, and of each there is a reason in the code: conditionals
  may be closed in another file, `skip_char` runs on over lines, and the guard goes
  to the name that `#line` gave (`cpp.c:602`). The one stack of conditionals has to be
  divided among the open files (`Nested`): each file has as many of them as its lines
  so far have opened and not closed (`Depth`), above those of the files that include
  it. A conditional that still has a guard is the first of its file, opened behind
  nothing but blank lines, and every line since is inside of it and no `#else` of
  it (`Guarding`). Behind its `#endif` the look-ahead may leave the file but not come
  into a new one, since the numbers of files only fall (`Looked`). That the end of a
  file never comes in a group that is skipped follows on the way.
- `StatementsProofs`: `TypeCorrect`, `JumpsScoped`. What is known of the globals
  now is of no use after a restore; the invariant (`Scoped`) says of every frame
  that the values it saved are the right ones for the frames around it
  (`Saved`). A frame on top of a stack changes nothing about those below it
  (`ScopesAbove`), which is what the lemmas about stacks are for.
- `RecordsProofs`: `TypeCorrect`, `NoOverlap`, `LargeEnough`. The members laid so
  far end before the bit where the next one can begin (`Laid`, `Top`), and the
  records that members consist of are themselves right (`GoodTypes`). Each
  branch of `update_struct_offset` appends entries between the old `Top` and the
  new (`Joined`), be it one member or those of an anonymous record moved to
  their place (`SquashedOK`).
- `CodeGenProofs`: `TypeCorrect`, `NoAbort`. That `stackpos` is what it was when a
  call began says nothing about the steps in between; the invariant is about
  what is still to do: each item of `todo` takes the stack from one height to
  the next (`Fits`), and the heights fit together from `stackpos` to some height
  at the end (`Chain`). Where an `Assert` stands, the height is the one it
  names. Then each script is a chain from any height to the same (`ScriptChain`),
  two chains that meet are one (`ChainCat`), and a step either does the first
  item, whose end is the new `stackpos`, or puts a chain in its place. The six
  registers for integers and two for floats bound the vectors of a call.

Only model-checked: liveness (`Terminates`, `Ends`, `CallReturns`, `Halts`); what the
machine does with the code (`TempsKept`, `ArgsArrive`, `DepthAgrees`,
`ReturnsHome`), since `Potato` needs bitwise operators, and since they do not hold of
every program: one that stores through a wrong pointer can overwrite a saved
frame; everything
that compares with a recursive definition (`MatchesExpansion`, `MatchesGroups`,
`Judged`, `LabelsResolved`, `MatchesMeaning`, `MatchesAbi`, `MatchesPhases`, `MatchesC`),
since recursive operators are out of the prover's reach, and with it all of
`Initializers`.

## 6. Not modelled

- `gen.c` (the upstream back end), `debug.c`, `encoding.c` (but for UTF-8 in
  `Tokenizer`), `path.c`, `error.c`, the `.bat` twin of the wrapper: text conversion
  and fixed sequences of calls.
- `vector.c`, `buffer.c`, `dict.c`, `set.c`: the models use sequences and sets.
- Of `main.c`, `-D`, `-I`, the dumps and the fork and exec of `as(1)`.
- Expressions and types of `parse.c`, the grammar of specifiers and declarators,
  enums, typedefs and scopes of tags.
- Initializers with bit-fields, with an expression of a record's type, or of a
  flexible member. `do_emit_data` writes the first of several bit-fields unmasked,
  asserts that it begins its unit, does not count the field behind them, and
  merges fields of different units: none of this can be compared with C without
  the bit-fields of `CodeGen`.
- The rest of the EX_ISA back end (members, bit-fields, variable arguments): see
  the plan.

## 7. Where the code departs from C, or from what it says

Three departures have a run that shows them (`hashmap_undef`, `call_result`,
`init_data`). These are met by the models too; a passing
run leaves each of them out, or states it in its property.

- **Macros.** `subst` assigns the hide set of a body token to its own `hideset`
  where it sees `##` (`cpp.c:297`, `303`): with `#define f(x) x ## b f` the text
  `f()()` becomes `b b f`, and `#define A a ## b A` is expanded for ever, as is `f()`
  with `#define f(x) x ## f(x)`. `cpp.c:4` names Prosser's algorithm,
  which gives `b f()` and always ends.
- **Include guards.** The guard is filed under the name the file has at its `#endif`
  (`cpp.c:602`), which `#line` may have changed: another file is then taken for
  guarded.
- **Statements.** In a `do` the label of `continue` is that of the body
  (`parse.c:2483`): the condition is skipped.
- **Records.** Mentioning `struct S` after its definition sets its alignment to 1
  (`parse.c:1551`).
- **Characters.** A splice that is met by a look-ahead leaves column 1 behind, so that
  a token behind it is taken to begin a line; `readc` takes a backslash that
  was put back in front of a newline for a splice (`file.c:114`-`118`). An
  identifier behind which the source ends in a backslash is read for ever, since
  `c & 0x80` holds of the end of the input (`lex.c:378`); `Ends` says that this is
  the only source that is. A `_` ends a number; a string may contain newlines;
  `'''` is a character; a hexadecimal escape is cut to eight bits in wide strings
  too; `//` that was pasted is a space; `skip_cond_incl` knows no `%:` and takes an
  apostrophe in skipped text for the beginning of a character.
- **Names.** `extern` in a block is taken for `auto`, and a function declared in a
  block has no label: a call of it is printed as a jump to `(null)`
  (`parse.c:2204`, `937`). The initializer of a static local does not see the block
  (`2174`), so that one that names an automatic variable is accepted if the file
  has a variable of this name. A static object that is declared twice has two
  labels (`197`), and one that is static by its first declaration only has a public
  one. Two tentative definitions of a name define its label twice.
- **Driver and script.** The output is closed twice (`gen_ex_isa_rebuild.c:2620`,
  `main.c:269`): with a C library that notices, a compilation that has succeeded
  aborts with status 134, which ends the script; `StatusTrue` says what is then
  left. `mkstemp` is given a name that does not end in `XXXXXX` and always fails, so
  that all compilers use one temporary name (`main.c:114`); it is left behind by an
  abort. `waitpid`'s `status < 0` never holds (`main.c:297`). A signal between
  `mktemp` and `trap` leaves the directory (`compile-ex-isa.sh:119`). With a missing
  `main` the script prints "Linked" and then fails.
- **Initializers.** A designator behind the last element of an array, or behind
  the member of a union, is rejected or swallowed by `skip_to_brace`. `int a[] =
  {[2]=7, [0]=8}` has one element (`parse.c:1771`; `test/initializer.c:90`). An element
  that is given twice stops `do_emit_data` at an assertion, and of a local object
  `qsort` decides which one counts. A string ends at its first null character.
  `{"abc",}` is rejected. Data are a word for each scalar and a word for each byte
  of a hole, while addresses count bytes (`init_data`). In a local object
  each literal is ORed into what `rax` holds of those before it, and of what the
  program computed last: `int x[] = {1, 3, 5}` is 1, 3, 7 at best, while
  `test/initializer.c:21` expects 5. A
  `long` in a list is stored as two words (the upper one ORed into the lower), one
  alone as one, so that its upper word is left over from before. A literal for a
  `long` or a pointer in the list of a global object crashes the compiler, which
  reads its operand (`gen_ex_isa_rebuild.c:2354`).
