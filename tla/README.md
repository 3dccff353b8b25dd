# Verification of yfc

yfc compiles Y-flat to C and hands the C to a C compiler. It is one sequential program of about
7,700 lines of C; nothing runs concurrently with it but the child processes it starts. What is
hard about it is not interleaving but order: what one phase leaves for the next, what one unit
leaves for another, what an earlier invocation left on disk, and what happens to the rest when one
step fails. The modules here model the driver from the command line to the exit code, the search
for a C compiler with its two processes, the lexer, the parser, the validator, the names and scopes
of the generated C, and the two containers that hold every table and tree of the compiler. TLC
checks each of them on small instances. For the command line and the scan of the project, the job
system, the search for a C compiler, the lexer, the validator's scopes and verdicts, the hash map and
the list, TLAPS proves the safety properties for every value of the constants: any arguments, folders,
units, names, texts, programs, keys or elements.

All paths below are relative to the `src/` directory of the repository's own tree.

## The system

| Component | State it keeps | Operations | What is hard | What makes it correct |
|---|---|---|---|---|
| Arguments (`driver/args.c`, `main.c`) | `struct yf_args` | one pass over `argv` | checks look only at what came before; an error does not always stop the parser | a command line is accepted exactly when it should be, and means what it says |
| Project scan (`driver/find-files.c`) | open folders, `data->files` | recursive scan, names of a unit's products | any order of entries, an error deep down, fixed buffers, names that collide | every file of `src/` is one unit; names do not collide |
| Job system (`driver/compile.c`, `compiler-backend.c`) | job list, object list, symbol tables, files on disk | create jobs, run them in order, clean up | two passes over the units; stale products of an earlier invocation; a failure in the middle; exit codes of children | whole-program validation, one entry point, only fresh objects linked, an honest exit code |
| Child processes (`driver/os.c`) | descriptors 0-2 of the child | fork, move descriptors, exec, wait | a move may overwrite the source of the next one; killed children | the child gets the descriptors it was meant to have |
| Search for a C compiler (`driver/c-compiler.c`) | pipe, read buffer, the chosen compiler | ask `which` for one name after another | two processes, short reads, full pipe, end of file only when every writer is closed | the whole path is read, nothing leaks, the search ends |
| Lexer (`lexer/lexer.c`) | input position, line and column, unlex stack | `yfl_lex`, `yfl_unlex` | characters put back across line breaks, tokens put back, comments | tokens and locations of the text, whatever was put back |
| Parser (`parser/*.c`, `api/operator.c`) | recursion, operand and operator arrays | recursive descent; operator precedence in expressions | associativity, arrays of fixed size, tokens looked at and not put back | the tree is that of the grammar |
| Symbol tables (`semantics/symtab.c`) | one table per unit | add variables and functions | duplicates, types filled in later | each global name has one symbol |
| Validator (`semantics/validate/*.c`, `types.c`) | scope stack, type table, syntax tree | resolve names, check types, find missing returns | early returns that leave a scope open; `returns` shared by the statements of a block | names bind to the innermost declaration; no fall off the end of a function |
| Code generator (`gen/*.c`) | output file, indentation | print C | the C has scopes, an order and names of its own | a name stands for the same declaration in C as in the source |
| Hash map (`util/hashmap.c`) | buckets with chains, cursors | set, get, remove, iterate, remove while iterating | collisions, removal under a cursor, first and last bucket | a dictionary; an iteration comes to everything once |
| List (`util/list.c`) | blocks of 64 elements | add, merge, iterate, count, destroy | block boundaries, merging onto an empty list | a sequence; no element is lost or freed twice |
| Utilities (`util/allocator.c`, output, dumps, `api/cleanup.c`) | none | malloc, printf, free | | |

How they interact: `main` parses the arguments and either prints a message or runs the compiler.
The job system collects the units in a hash map (from the command line or by the scan), makes a
list of jobs from it, and runs them: an ANALYSE job lexes, parses and builds the symbol table of
one unit and enters it in `compilation->symtables`; a COMPILE job validates the unit against all
these tables and prints C; an EXEC job calls the C compiler or the linker through `proc_exec`.
Everything is called directly; there are no callbacks but the cleanup hooks of the containers.

## Modules

| Module | Models | Role |
|---|---|---|
| `Os` | status words of children, `proc_exec` and its result | constants used by `Compiler` and `CCompiler` |
| `Build` | what an invocation promises | abstract specification |
| `Compiler` | the job system, from parsed arguments to the exit code | implements `Build` |
| `CompilerProofs` | | proofs about `Compiler`, and that it implements `Build` |
| `CCompiler` | the search for a C compiler: parent, child, pipe, descriptors | |
| `CCompilerProofs` | | proofs about `CCompiler` |
| `Lexer` | the lexer and a client that puts tokens back | |
| `LexerProofs` | | proofs about `Lexer` |
| `Expr` | operator tables, parse nodes, `yfp_sort_expr_tree` | used by `Parser` |
| `Parser` | the recursive-descent parser, from files to operands | |
| `ParserProofs` | | proofs about `Parser` |
| `Grammar` | the language that the comments of the parser describe | reference for `Parser` |
| `Symtab` | types, conversions, symbols, the symbol table of a unit | used by `Validator` |
| `Validator` | the validator: scopes, name resolution, types, returns, over several units | |
| `ValidatorProofs` | | proofs about `Validator`: verdicts and returns; scopes, names and their types; and about `Generator`: names in the C |
| `Generator` | the names and scopes of the C of a unit, and those of its source | used with `Validator` |
| `Semantics` | when a program is correct, by its text | reference for `Validator` |
| `Dictionary` | what `hashmap.h` promises | abstract specification |
| `HashMap` | the hash map with one cursor | implements `Dictionary` |
| `HashMapProofs` | | proofs about `HashMap`, and that it implements `Dictionary` |
| `AbstractList` | what `list.h` promises, with its one exception | abstract specification |
| `List` | several lists and a cursor | implements `AbstractList` |
| `ListProofs` | | proofs about `List` |
| `Containers` | | runs `HashMap` and `List` side by side |
| `Args` | `yf_parse_args` | |
| `ProjectFiles` | the scan of `src/` and the names of a unit's products | |
| `Startup` | `main`, `yf_compile_project`, `yf_compile_files` | composes `Args` and `ProjectFiles` |
| `StartupProofs` | | proofs about `Startup`, `Args` and `ProjectFiles` |
| `MC...` | | constants of the runs |

Definitions are named after the functions and fields they model where TLA+ allows it. A definition
whose name ends in `_Something` is a mutant: a plausible bug in the definition above or below it,
there to show that a property can fail. `PROJECT.json` maps every other definition to its lines.

### Compiler

A unit is a model value. The variables are the arguments that matter after parsing, the job list
with the cursor of `yf_run_compiler`, the tables the front end builds (`symtab` is the set of units
that have one, `symtables` the units that `compilation->symtables` points to, `ast` the validated
ones), and for each unit whether its C and its object file are absent, stale (an earlier
invocation's) or fresh. One action is one step of the loops of `yf_create_compiler_jobs`, in the
hash map's order, or one job. What happens inside a job is a choice between success and failure. A
child ends in any way of `ChildEnds`: it exits, is killed, cannot be forked, cannot be waited for,
or its `exec` fails; `ExecResult` computes from the status word what the code computes.

`Build` says, without jobs: the whole program is known before a unit is checked, nothing is
made before what it depends on, and the verdict is "ok" only if all that was asked for was made.

### CCompiler

Parent and child are two processes with a pc each. Descriptors are a function from small numbers
to what they refer to (`HackFd` stands for the 50 of `c-compiler.c`), `LowestFree` is what the
kernel gives. The pipe holds a number of bytes up to `PipeCap`, the buffer has a size that
doubles, and a `read` may return any positive number of bytes that is available and fits. Any of
the descriptors 0-2 may be closed from the start.

### Lexer

The text is a sequence of characters, one of each class that `yfl_get_type` and `get_type` tell apart
(one bracket stands for all separators but the colon). The
actions are the loops of `yfl_skip_whitespace`, `yfl_skip_comment` and `yfl_core_lex`, one character
or decision each, so that a loop that does not end is a behaviour that does not end. The client
lexes and unlexes as it likes (`StreamIntact`) until the end of the text. A token more than fits in `unlex_buf` is
not put back; that the code then refuses it, and the caller would lose it, is left out, because the parser only puts
back the token it has just taken and never comes near the limit.

### Expr, Parser, Grammar

A text is a sequence of tokens; `pos` is the next one, so that a token that was put back is one that
was not consumed. `stack` holds the activations of the parser's functions, each being the node it
fills in, and `pc` says where the running one is; there is one action per way a function can go, and
`Return` hands a finished node to the caller. `SortExprTree` is `yfp_sort_expr_tree`, with `Split`
the loop that finds the operator to split at. Writing behind the operand arrays is the label
`overrun`, reading from a file that the lexer has closed the label `closed`; the model stops there.
`notes` keeps what later steps do not show: that an error was printed and parsing went on, and that
`yfp_stmt` has entered `yfp_expr` behind the first operator.

The reference is `Grammar`: operators that give the set of all trees that a part of a text has,
one tier per precedence, every else at the innermost if. It looks at the text as a whole and knows
nothing of tokens read ahead.

### Symtab, Validator

A program is a sequence of units, a unit a sequence of declarations, and a declaration, statement or
expression a record with a `kind`. `tables` are the units' symbol tables, which `BuildSymtab` fills
for all units first; a symbol's type is `Unset` until its declaration is validated and `Null` if its
type has no such name. `scopes` is the chain below `current_scope`, `frames` the open activations of
`validate_bstmt` and `validate_if`, `returns` the variables behind `int * returns`: one for the
function, one for each open if statement, shared by all blocks in between, as in the code. There is
one action per way a handler can go, so the early returns of `validate_funcdecl` that leave a scope
open are actions of their own, and `MisplacedVar` is what happens after them. An expression is validated in
one step: `Validate` is the recursion of `validate_expr_e` together with `yfse_get_expr_type`.
Reading a type that is not there is the label `stuck`, where the model stops. What was never written
is a choice: the path of a local variable (`Var`), which may be empty, the prefix of a unit or neither, and the
missing else branch (`NoElse`).
`Put` is `yfh_set` on a table: the name stands for the new symbol whether it was there or not. `Depth`
says that what the parser makes are trees: it gives each expression and each statement a number
above those of its parts (`ValidatorAssumption`, which TLC evaluates), and only the proofs use it.

### Semantics

`Correct` says on the text of a program, without tables or an order of validation, when it has no
error: what names stand for, types, initialisers, arguments, conditions, returns. `KnownToPass` and
`KnownToBeRefused` list the programs on which the validator is known to decide otherwise; each item
is needed (without it the run fails), and together they are all (the run passes).

### Generator

`GenExpr` to `GenProgram` give what `gen.c` prints for a unit as far as names go: a sequence of
scopes that open and close, declarations and uses. `SourceProgram` is the same for the Y-flat text. `ReadAll`
reads such a sequence and says which declaration each use stands for; C knows what the file has
declared so far, the source knows all units. The prefix of a name is empty, because
`create_formatted_prefix` copies nothing. `KnownToDiffer` is again a list of which each item is needed.

### HashMap, List, Containers

Buckets are sequences of entries, in the order of their next pointers; a pointer to an entry is its
key. The cursor is the pair of pointers of `struct yfh_cursor`; NULL is -1 for the bucket and `None`
for the entry. `phase` restricts the client to what `hashmap.h` allows (a cursor is recalibrated
after a removal under it and dropped when its entry was freed); `due` and `visited` are history.

A list is the sequence of its blocks and the index of the one `last` points to. The client creates,
fills, merges, counts and destroys lists in any order and moves one cursor; `own` and `freed` say
where an element is that is in no list. In `AbstractList` a list is a sequence that may contain a
`Gap`: this is how an empty block, left by a list that was initialised and merged before it got an
element, shows to the callers. The two containers share no state; `Containers` lets a behaviour use
one or the other, so that one run checks both.

### Args, ProjectFiles, Startup

An argument is an option or a word, and each branch of the loop of `yf_parse_args` is an action.
`Acceptable` and `Effects` say of a command line, read as a whole, when it is accepted and what it means;
they count, and know nothing of a parser. `src` is the set of all entries in and below `src/`, each with the path
of its folder; `IsTree` says that these folders are there. A path is a sequence of tokens (pieces, dots and slashes), each of length 1, so that buffer limits
and collisions of names are those of the code without strings. A prefix is cut at the last dot of a buffer of which the
end was never written: `Unwritten` has what may be there, up to the first NUL. `OutputFits` says when the name of a C file
fits `output_file`, which the code does not check; what a longer one overwrites is not modelled. `dirs` holds the activations of
`yfd_folder_scan`; `readdir` gives the entries of a folder in any order. `Startup` runs one
after the other as `main` does and stops where `Compiler` begins: with a set of units.

## Runs

| Run | Properties | What it shows | Bounds, and why they are enough |
|---|---|---|---|
| `compiler` | `TypeOK` `ValidatedAgainstWholeProgram` `OneEntryPoint` `LinksThisBuild` `HonestExit` `DryRun` `Terminates` `ImplementsBuild` | every invocation over up to three units in every mode, order and failure | three units, two of which share a prefix: one before, one after and one beside any other, and a table that is overwritten |
| `ccompiler` | `TypeOK` `WholePathRead` `ChildWritesToPipe` `NothingLeftOpen` `AnswersAreRight` `SearchEnds` | all interleavings of parent and child, for two names | a path (7) longer than the buffer (3), twice the buffer and the pipe (3): growing, short reads and a full pipe all happen; two names: what the first leaves for the second |
| `lexer` | `TypeOK` `LocRight` `StreamIntact` `TokensRight` `CallsReturnUnlessTrapped` | tokens and locations of every text are those of a declarative definition, and their kinds hide nothing from the parser but what a separator swallows | all texts of up to four characters of all classes, and comments between two and three more; a token buffer (4) and an unlex stack (2) that overflow |
| `parser` | `TypeOK` `ParsesAsGrammar` `RefusesOnlyErrors` | the tree is the only one of the grammar, and nothing the grammar has is refused or complained about | about 30000 texts: every file of up to three tokens and every body of up to four; if statements in each other with and without else; full files with one token missing, replaced by any other, or cut off; every expression of up to five tokens, flat ones of four operators over all tiers, nested operands around two operators; five operands are the limit, so that it is met |
| `containers` | `TypeOK` `VisitsAll` `VisitsOnce` `ImplementsDictionary` `NoElementLost` `ImplementsList` | any sequence of calls | four buckets: empty, three keys in one (first, middle and last of a chain), empty, last bucket; two values. Two lists, three elements, blocks of two, three blocks: a full, a started and an empty block, in one list or two, merged in every order. Keys of one bucket and elements are symmetric |
| `startup` | `ParsedRight` `ScanRight` `NamesDistinct` `UnitsRight` `ErrorSticks` | from the command line to the units | all command lines of up to three arguments and those of four from the options that interact; eight folders with collisions, cut names, depth, links, an unreadable folder, in every order of their entries; behind a prefix nothing or one dot: a cut in the path and one behind it |
| `validator` | `TypeOK` `BindsInnermost` `ReturnsSound` `ErrorsRefuse` `AcceptsTheCorrect` `DefinedInOrder` `BindsAlikeInC` | scopes, names, types and returns against what the text of the program says; the verdict against `Semantics`; the C of what was accepted against its source | about 28600 programs: returns in blocks and branches two and three deep; a name declared as global, parameter, in blocks and in bare branches, used in between; up to two declarations in each of two units, in both orders, with unknown and void types, forward and cyclic uses; all kinds of expressions; main, extc functions and conditions of another unit |
| `exit_code_of_killed_child` | `ExitCodeTells` | refuted, see below | as `compiler` |
| `files_on_the_command_line` | `RefusedRightly` | refuted, see below | as `compiler` |
| `lone_tilde` | `CallsReturn` | refuted, see below | as `lexer` |
| `assignment_statement` | `StatementsParse` | refuted, see below | as `parser` |
| `returns_of_a_block` | `ReturnsExact` | refuted, see below | as `validator` |

Deadlock is checked where the model has a step for "finished" or never stops (`parser`, `validator`,
`startup`, `containers`) and switched off where the program, or the lexer's client, simply ends.

### Fairness

`Compiler` is a sequential program that waits for nobody but its children: weak fairness of `Next`
says that it goes on and that each child ends, by itself or otherwise. `CCompiler` has weak
fairness of the parent and of the child: the kernel schedules both, and a process that is blocked
in `read`, `write` or `waitpid` is not enabled, so that a deadlock between them would show.
`Lexer` has it for the steps of a call that has begun and not for the client. `Parser`,
`Validator`, `HashMap`, `List` and `Startup` state safety only.

## Findings

* A child that is killed, or whose `exec` fails (it then calls `abort`), has `WEXITSTATUS` 0:
  `os.c:91` takes it for success, and yfc exits with 0 though nothing was made.
* A comment with one tilde alone in it makes `yfl_skip_comment` put back what it read for ever.
* An `=` behind a bracket, a colon or another separator becomes a part of it and is lost: `(x)==y` is read
  as `(x) = y`. A name that starts with an underscore is lexed as an operator.
* Files named on the command line have no prefix, so their symbol tables are never registered, and
  the check for an entry point refuses every such program, a correct one included.
* A statement that starts with an identifier and an operator, or a call, is refused: `yfp_stmt` lexes
  the token after the identifier to decide, and does not put it back for `yfp_expr`.
* A block that returns and goes on with a block or an if statement counts as one that does not
  always return (`validate-internal.h:78` promises the opposite), and a correct function is refused.
  The error is on the safe side: `ReturnsSound` holds.
* Seen in the validator, the cases of `KnownToPass`, `KnownToBeRefused` and `DefinedInOrder`: an unknown type is NULL in the table and the next
  use of the name dereferences it, although validation is meant to go on after an error; a condition
  that calls a bool function of another unit is refused, because each unit has a bool of its own; a
  function replaces the symbol of a variable of its name, and both declarations are accepted; a
  function can be used as a value without a call; whether a second variable of one scope is refused
  depends on memory that was never written, and so does whether a local variable may have the name of a global one.
* `yfd_get_identifier_prefix` does not end what it copies with a NUL, and cuts at the last dot of it and of what the
  memory held before: the prefix may keep its `.yf`, and `src/a.yf` may come to share its prefix with `src/a/yf.yf`. This
  is why `NamesDistinct` asks where prefixes were cut.
* Seen in the parser, without a run of their own: `yfp_expr` writes one element behind its arrays for an
  expression of 65 operands; a function head that has neither a type nor a brace, and a declaration
  that starts with no identifier, get a message and are compiled all the same; a failure at the end
  of the text makes the parser read from the file that the lexer has closed; a parameter may have
  an initialiser; the nodes below an expression have no `type`, and small ones no location.
* Seen in the generator, the cases of `KnownToDiffer`: the prefix of every unit is empty, so that a name
  of another unit is not declared in C and two units that have one name do not link; `main` and
  extc functions are declared without the `$$` their calls have; the branches of an if
  statement are scopes in C and not in the source; the parameters of a function are in the scope of
  its body.
* A list that is merged into an initialised, empty one is not found again: iteration stops at the empty
  block, and `yf_list_is_empty` says yes.
* The C file's name is built in 256 bytes without a check, and a path of 254 characters in a project is too long
  for them (`OutputFits`).
* Without a run of their own: `--just-gen` still compiles the C; `foo.yf --dump-projfiles` is accepted
  and `foo.yf` forgotten; where there is no `which`, the search writes to `buf[-1]`, which follows from
  the first finding.

## Proofs

All proofs are about the specifications that TLC runs, for every value of their constants. Nothing is
assumed but the named assumptions that the modules state on their constants, which TLC evaluates
in the runs. The table lists the properties of the runs that are theorems; the other theorems
(`Inductive`, `JobList`, `JobsOnce`, `MadeByJobs`, `ScopesInductive`) are the inductive invariants behind them.

| Module | Theorem, and the property it states | Assumed of the constants |
|---|---|---|
| `StartupProofs` | `Parsing` (`ParsedRight`), `Sticking` (`ErrorSticks`), `Scanned` (`ScanRight`), `Distinct` (`NamesDistinct`), `Collected` (`UnitsRight`) | `ArgsAssumption`: command lines are finite, and no argument is the null pointer; `StartupAssumption`: `src/` holds a tree, a path has room for `src/`, and memory holds sequences |
| `CompilerProofs` | `Typing` (`TypeOK`), `WholeProgram` (`ValidatedAgainstWholeProgram`), `EntryPoint` (`OneEntryPoint`), `LinkInputs` (`LinksThisBuild`), `ExitCode` (`HonestExit`), `Simulation` (`DryRun`), `Refinement` (the safety part of `ImplementsBuild`) | `CompilerAssumption`: children end with a status word or a failure of fork or wait |
| `CCompilerProofs` | `Typing` (`TypeOK`), `EndOfFile` (`WholePathRead`), `Shuffle` (`ChildWritesToPipe`), `Released` (`NothingLeftOpen`), `Answers` (`AnswersAreRight`) | `CCompilerAssumption`: a list of names, paths that are not empty, a write end moved above 6 (50 in the code), positive sizes, a first buffer with `Slack` |
| `LexerProofs` | `Typing` (`TypeOK`), `Locations` (`LocRight`), `Unlexing` (`StreamIntact`), `Lexing` (`TokensRight`) | `LexerAssumption`: texts are sequences of the character classes; a token has room for a character, and one token can be put back |
| `ParserProofs` | `Typing` (`TypeOK`) | `ParserAssumption`: texts are sequences of tokens, and the arrays of an expression have room for two operands |
| `ValidatorProofs` | `Refused` (`ErrorsRefuse`), `Returned` (`ReturnsSound`), `Typing` (`TypeOK`), `Binding` (`BindsInnermost`), `Defined` (`DefinedInOrder`), `BindsInC` (`BindsAlikeInC` of `Generator`) | `ValidatorAssumption`: programs are made of trees (`Depth`) with the fields of their kind; `NoTypes` of `Symtab`: what stands for no type is not one; `NoUnit` of `Generator`: what stands for no unit is not the number of one |
| `HashMapProofs` | `Typing` (`TypeOK`), `Complete` (`VisitsAll`), `NeverTwice` (`VisitsOnce`), `Implements` (`ImplementsDictionary`) | `HashMapAssumption`: there is a bucket, and each key has one |
| `ListProofs` | `Kept` (`NoElementLost`), `Implements` (`ImplementsList`) | `ListAssumption`: a block holds at least one element, and a Gap is not an element |

### Startup

`ParsedRight` speaks of a line that has been read to its end, and what it refers to is in no variable: whether an
argument is the value of the one before depends on the number of value options that stand in a row before it.
`ParsingInv` says that the parser, which only knows what it wants next, agrees with that at every argument
(`IsValue`), that as long as it has found nothing wrong the arguments before `i` are read as they are meant (`Prefix`),
and that otherwise the line is not acceptable whatever follows: a refusal is justified by a part of the line, while
`Acceptable` is about the whole. There is one lemma for each branch of the loop (`NameStep` to `EndStep`).

The scan is about every entry of a tree of any depth, in any order. `ScanningInv` says that there is a set of entries that
readdir has given (`Visited`) whose files are the units so far, and that no entry is lost: what is in `src/`, or in
a folder in that set, is in the set or pending in one of the activations. When the last activation returns nothing is pending, and
then the set is all of `src/` by induction on the length of paths (`TreeInduction`).

`NamesDistinct` says that three functions on paths are injective where the path ends in .yf and has no other dot: turning
slashes into dots loses nothing, for the path has no dot that it could be mistaken for (`PrefixTells`, `SymTells`,
`OutputTells`); paths that were cut to the buffer included. Of prefixes it holds only where the dot they were cut at is one of
the path (`CutInPath`): a shorter name than the path can only come from there, and then the cut is where the path's only dot is
(`CutAt`, `CutIsOwn`). Nothing is assumed of what memory held. `UnitsRight` follows from the other two and `OrderInv`, which
says who has come how far, with `FilesAreWords`: the files that the parser has collected are the words of the line, by counting them.

### Compiler

* `JobList`: `ListInv`, the shape of the job list: an ANALYSE job per unit, then for each unit its
  COMPILE job and directly after it its CC job, then LINK, as far as the list has been built and as
  the stage asks, with `linkObjs` holding exactly the units passed;
* `Inductive`: `IInv`, and from it the theorems for `ValidatedAgainstWholeProgram`, `OneEntryPoint`,
  `LinksThisBuild` and `HonestExit`.

None of the four is inductive: each speaks of what many earlier jobs have done. `DoneInv` is the
missing link: for every job before the cursor, `JobDone` says what it left behind (a table, a valid
tree, a fresh C file, a fresh object), and the exit code is 0 only if the cursor passed them. With
`ListInv` the position of a job says which jobs were before it, so "this COMPILE job runs" yields
"every ANALYSE job has run", and "the LINK job runs" yields "every CC job has". A step keeps
`JobDone` of earlier jobs because no job undoes another's work (`JobDoneKept`); the new job is one
lemma per type (`AnalyseDone`, `CompileDone`, `CCDone`, `LinkDone`).

`Refinement` maps each job to the action of `Build` it stands for. `Build` never loses what was made,
while a compiler or linker that fails may remove its output file. So two more invariants are needed:
`OnceInv`, that no unit has two CC jobs and that LINK is the last job, and `MadeInv`, that an object file or the
executable is up to date only when its job is behind the cursor.
`Build` has a fairness condition besides; that it is implied is left to TLC.

### CCompiler

Every property is about what the other process may do meanwhile, so the invariant says, for each
place of parent and child, which of them has which end of the pipe open and where (`ParentFds`, `ChildFds`),
that the bytes in the child, the pipe and the buffer add up to the path (`Bytes`), and that the buffer
has room for another read (`Room`). `WholePathRead` follows because whoever may still write has the write
end open, so that the end of the file means that nobody may; `NothingLeftOpen` because what is open is known
at every place, those where a step has failed included.

### Lexer

Putting back what was just read restores the reader's position, line and column, across line breaks
too. The exception is the end of the text, which is read without moving on: `Located` says when the
reader may be off, and `Begun` that a token which has read the end can never end. `StreamIntact` needs
`Stream`: the tokens that the client has and those it put back are together all that were lexed, and
the lexer is at work only when none is put back.

`TokensRight` compares what the lexer has given with `TokensFrom`, a definition by recursion on the text.
That it is a prefix says nothing about what comes next. The invariant is `Ahead`: the tokens made so far,
followed by those that the definition finds from the reader's position on, are the tokens of the whole text (`LeftFrom`).
In a comment and in a token (`Reading`) that position is the one where it began, and the part that is read agrees
with the text. `Telling` says the same of the kinds: a token under construction has the shape of its type, so that its kind
hides nothing (`KindTells`). That the functions defined by recursion on the text
exist at all is the lemma `Recursion`; each step of the lexer is then one unfolding of `BlankEnd` or `TokensFrom`.

### Parser

`TypeOK` of the parser is not inductive: `Return` resumes the function below by its kind and by how many
children it has, so that an if statement with a child too many would go on at the wrong label and an expression
would lose its balance of operands and operators. `IInv` says of each activation that it `Waits` for one of
the kind above it with as many children as it has at that point (an if statement: none before its condition,
one or two before a branch; an expression: as many operands as operators), of the running one that it is
at a label of its kind with what it must have found by then (`Runs`), and that nothing behind the end of the text has been
read unless the parser has failed. `PushCalls`, `ChangeCalls` and `PopCalls` say what the three things that
can happen to the stack keep of this; each action is then one lemma. `Ident` ends at the first
place where the chain of names stops, which is never behind the end (`IdentEnds`).

### Validator

`ErrorsRefuse` and `ReturnsSound` hold at the end of a program, while what they depend on happens deep
in it. `IInv` of `ValidatorProofs` says of each activation on the stack which statement it belongs to, what
its `err` and its variable of `returns` stand for, and that a variable which is TRUE was set by
statements that always return; functions that were validated before satisfy `AlwaysReturns`.
`ReturnsSound` survives `returns` being shared by nested blocks because of the frames that write to one variable
the innermost one does, and clears it on entry: a return may be forgotten but is never invented (`Truthful`).

The second half of the module adds `Scoped` and `Named`: as long as nothing is reported, level by level, the scopes
hold exactly the variables that the text has declared so far in the frames of that level, and the
tables hold the names of their units. The difficulty is that an if statement has no scope of its own:
a frame and a scope do not correspond one to one (`Level`), and what its branches declare stays
behind when it is left (`LeavesDeclared`). Each step is shown to change frames and scopes alike.

`DefinedInOrder` follows from these and `TypesKnown`: in the order of units and declarations, every name
that has been declared so far has a type in the table of its unit, the function whose body is validated included.
If the text uses no name before its declaration (`UsedBeforeDeclared`, over what
`NamesInDecl` collects from a whole declaration), each name that is looked up has a type that is known (`MentionedKnown`,
`StmtKnown`), and by the depth of expressions none of their parts reads one that is not (`ExprSane`). Only `NoElse` is left.

`AlwaysReturns`, `LeavesDeclared`, `NamesInExpr` and the validation of expressions are functions that are defined
by recursion along trees, and CHOOSE says nothing about one until it is known that one exists.
`ValidatorProofs` proves this once, by depth (`Least`, `Induction`, `Shallowest`, `TreeRecursion`): the
functions themselves are data there, so that no theorem takes an operator.

### Generator

`BindsAlikeInC` compares two texts of the same declarations, which recursion along trees makes of any depth. Two readers
go through them, one through each: `Alike` says that they have come to the same uses and local
variables, and that the names mentioned in the declaration (`NamesMentioned`) stand for the same in both, though the scopes
of the two are not the same: a branch has one in C only, the parameters one in the source only. `Still`
says of two texts that they keep the readers alike and their scopes what they were, `Binds` that they also may declare names
of a set; both pass from parts to wholes (`AlikeConcat`, `AlikeFlat`). Then expressions are `Still` (`ExprAlike`),
a statement `Binds` what `LeavesDeclared` says it leaves (`StmtAlike`), what braces enclose is `Still` again (`BlockAlike`).

That C refuses no second declaration needs more than that the source has none (`Compat`): each name that the innermost scope
of the C has must be in that of the source. It is where the cases of `KnownToDiffer` come in:
a branch that declares (`BranchAlike`), and a body that declares a name of a parameter, as in C both are in one scope (`BodyAlike`).
Global names are not known to both at once: the source knows all from the start, the C those declared so
far. `Progress` says so after each declaration, and `SameMeaning` that the names mentioned next stand for the same, unless they are
used before they are declared, or declared without the `$$` of their uses.

### HashMap

The invariant of the hash map is that the keys of a chain hash to its bucket and none is there twice
(`Tidy`), and that the cursor divides the entries: what is due has been visited or lies ahead, and nothing
that lies ahead has been visited (`Iteration`). Removing under the cursor, and calibrating it again, keep
that division; so an iteration comes to everything (`Complete`), to nothing twice (`NeverTwice`), and
the map is the `Dictionary` that its chains say together (`Implements`).

### List

The invariant of the list is that each element has one place: with the client, freed, or at one
index of one block of one list (`Once`, `Accounted`), and that a list that is not initialised has no block. Merging is the
step that could break it, as it moves the blocks of one list behind those of another.

`Implements` needs to know what the blocks of a list are together (`Text`), and how many places come
before a block (`Upto`). `Ext!FlattenSeq` is recursive: `FlattenStep` proves what it does to one more sequence,
and the other lemmas on it follow by induction on the number of blocks. The mapping of the cursor needs one more
invariant, `Pointing`: a cursor that may be used is at a place of its list, where an empty block counts as one,
or directly behind the last. For each call there is a lemma that it is the call of `AbstractList` of that name:
`TextAdded` says that an addition replaces a Gap or comes behind the rest, `TextConcat` that a merge puts one sequence
behind the other, `StepTo` that `yf_list_next` moves by one place wherever blocks end, `StepsAre` that
`yf_list_get_count`, which walks the list, counts its places.

### Only model-checked

* `ParsesAsGrammar`, `RefusesOnlyErrors` and `AcceptsTheCorrect`: the references `Grammar` and `Semantics`
  are written with RECURSIVE operators, which take the SMT solver away from every module that uses them.
* Liveness: `Terminates`, `SearchEnds`, `CallsReturnUnlessTrapped`, and the fairness of `ImplementsBuild`.

## Not modelled

* The C types that the generator prints, its output file and the folders it makes, formatting of C.
* Errors of the lexer in the middle of a parse.
* Warnings of the validator (lossy conversions, shadowing, dead code), the values of literals, names
  of declarations with a path in front.
* The Windows halves of `os.c` and `c-compiler.c`; the aborts after a failing `pipe`, `read` or
  `waitpid`, which end the process; running out of memory.
* Formatting of dumps and of messages; freeing of trees.

## Plan

1. Done: `Compiler` with `Build` and its proofs, `CCompiler`, `Lexer`, `Parser` with `Expr` and `Grammar`,
   `Validator` with `Symtab` and `Semantics`, `Generator`, `HashMap` with `Dictionary`, `List` with `AbstractList`,
   `Args`, `ProjectFiles`, `Startup`.
2. Done: the proofs above.
3. Left: the references of the parser and the validator (`Grammar`, `Semantics`) as functions instead of
   RECURSIVE operators, which their proofs would need first.
