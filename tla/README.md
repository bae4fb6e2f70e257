# Formal models of bfc, the Brainfuck compiler

This directory models `bfc` (a Brainfuck compiler on LLVM and LLD, in C++) and
its release script in TLA+. TLC checks the models on small instances; TLAPS
proves the safety of the parser, the generator, both link writers, the driver and
the release script for every instance. Paths below are relative to the repository's root,
`src/bfc/main.cpp` for example.

## 1. Inventory

### The system

A run of `bfc` is sequential: `main` parses the arguments, parses the source
into a tree, generates an LLVM module from it, and gives the module to a writer
for one of four artifacts. An executable is made from the module, a small
runtime and a linker, LLD in the process or an external clang. Three parts are
concurrent or persistent: `LLDLinkWriter::write` protects LLD with a mutex, so
that several threads of a process may call it (the tests do so one after another);
`ExternalLinkWriter::write` runs clang as a child that outlives a killed `bfc`,
in a temporary directory that all processes share; and the release script
replaces a directory in a way that must survive failures and crashes.

| Component | State | Operations | Interacts with |
|---|---|---|---|
| Lexer `core/lexer.cpp` | position in the text | `begin`, `end`, `++`, `*`, `find_next` | read by Parser, one shared iterator |
| AST `core/ast.*` | vectors of nodes, uniquely owned | `accept` | built by Parser, visited by IRGenerator |
| Parser `core/parser.cpp` | the iterator, the call stack, the tree | `parse`, `parse_sequence`, `parse_loop`, two exceptions | Lexer; main |
| IRGenerator `llvm/ir_generator.cpp` | the module, the builder's insertion point | one `visit` per node type | AST; the runtime's `getchar`, `putchar` by name |
| RuntimeGenerator `llvm/runtime_generator.cpp`, `llvm/runtime/*` | the module | `generate`, `supports`, one function of the runtime after another | called by main before an executable is linked with LLD; meets IRGenerator's functions by name and type |
| The generated program | data pointer, tape, instruction pointer, standard streams | the emitted instructions, `getchar`, `putchar`, the entry point | the operating system |
| NativeEmitter and IR/Assembly/Object writers | none | `write` | LLVM; the output stream of main |
| LLDLinkWriter `llvm/lld_link_writer.cpp` | `lld_mutex`, `can_run_lld`, temporary files | `write`, with `create_temporary_file`, `link_elf`, `link_coff`, `run_lld`, `copy_executable` | LLD, other threads, the file system |
| ExternalLinkWriter `llvm/external_link_writer.cpp` | temporary files | `write`, with `write_artifact`, `execute_clang`, `copy_executable` | clang as a child process, the file system, other processes of `bfc` |
| Target list `llvm/target_list.cpp` | a temporary file | `write_target_list`, `read_clang_targets` | clang as a child process |
| Command line `cli/command_line.cpp` | the options | `parse`, `output_format` | main |
| main `main.cpp` | streams, the file of `-o`, the exit status | one run | everything above |
| Release packaging `Makefile`, `cmake/package-release.cmake` | `dist/`, `dist.tmp/`, `dist.backup/` | `make release` | the file system, earlier runs of itself |

### What is hard, and what makes each component correct

* **Lexer and Parser.** The calls of the recursive descent share one iterator.
  `parse_loop` returns with the iterator on its `]` and whoever called it steps
  over that. Correct: exactly the balanced texts are accepted, each exception
  names the defect there is, the tree is the text, parsing ends.
* **IRGenerator.** All visits share one builder; after the body of a loop the
  insertion point is wherever the last nested visit has left it. Correct: one
  terminator per block, no open block forgotten, the branches the tree asks for.
* **Generated program and runtime.** Bytes wrap; the data pointer is unchecked;
  the byte 255 and the end of the input differ only by an extension; `ReadFile`
  succeeds with no byte at the end of the input. Correct: the program runs as
  the language says.
* **LLDLinkWriter.** Mutual exclusion around LLD's global state, a flag that
  says that LLD is unusable, three temporary files in two scopes with an
  exception possible everywhere. Correct: one thread in LLD, none after a fatal
  failure, no file leaked or removed twice, LLD reads complete files of its own
  caller, a normal return means a complete executable.
* **RuntimeGenerator.** The functions of an executable come from IRGenerator, from
  the runtime and from LLVM's backend, and its link has no libraries. Correct: no
  type conflict, and nothing that is called is missing.
* **ExternalLinkWriter.** The stream to clang's input is not looked at, the linker
  gives the name of the executable free for a moment, a process may be killed
  while its clang goes on, a process id may come again. Correct: a normal return
  means the executable of the whole module, nobody touches another's files, and
  only the dead leave any.
* **Target list.** clang may be absent, fail at any place, or print a part.
  Correct: its section is whole or absent, with one warning.
* **main.** Output goes through buffers that fail late. Correct: exit status 0
  means that the artifact has arrived; what is handed to the output, even by a run
  that fails, is of the format asked for.
* **Release packaging.** Two renames that are not atomic together, recovery by
  the next run, removals that fail silently. Correct: from outside `dist/` is
  replaced in one step, and the report is true.

The hazards are listed with their lines in `PROJECT.json`.

## 2. Modules

| Module | Models | How it corresponds to the code |
|---|---|---|
| `Lexer` | `core/lexer.cpp` | operators on a text and a position; `End` is one past the text |
| `Brackets` | (reference) | what is left of a text without its comments, as a recursive function, and depth and balance by counting brackets |
| `Parser` | `core/parser.cpp`, `core/ast.*` | `current` is the shared iterator, `frames` the active calls, each with the vector it fills; `sequences` the constructed `ast::Sequence` objects; one action per branch of `parse_sequence` and `parse_loop` |
| `Memory` | the tape of `ir_generator.cpp` and what is around it | `Load` and `Store` of a cell; an access off the tape is undefined: any byte, swallowed, or a fault |
| `IRGenerator` | `llvm/ir_generator.cpp` | `visits` is the stack of `visit(Sequence)` calls, `insert` the builder's insertion point, `blocks` the basic blocks; one action per visit, with the part of `visit(Loop)` after the recursion an action of its own |
| `CompiledProgram` | the emitted code and the bundled runtimes | one action per kind of instruction; `target` chooses the Linux or the Windows runtime |
| `Brainfuck` | (abstract specification) | the language: symbols, cells, input and output |
| `Compiler`, `CompilerMC` | `main.cpp`: parse, generate, run | composes Parser, IRGenerator and CompiledProgram and states that together they implement `Brainfuck` |
| `ArtifactWriter` | (abstract specification) | what main expects of a writer that links: own result, own files, none left except by the dead |
| `LLDLinkWriter`, `LLDLinkWriterMC` | `llvm/lld_link_writer.cpp` | `pc[w]` is where thread `w` is in `write`, `removers[w]` its live `FileRemover` objects in order of construction, `files` the temporary directory; implements `ArtifactWriter` |
| `ExternalLinkWriter`, `ExternalLinkWriterMC` | `llvm/external_link_writer.cpp` | the same for processes, with `clang[p]` the state of the child process of `p`; `Kill` and `Bury` end a process and give its id free; implements `ArtifactWriter` |
| `RuntimeGenerator` | `llvm/runtime_generator.cpp`, `llvm/runtime/*` | `functions` are those of the module, each with its type, whether it has a body, and what it calls; one action per generated function |
| `TargetList` | `llvm/target_list.cpp` | one action per step of `read_clang_targets` that can fail; `failure` is a history variable |
| `Driver` | `main.cpp`, `cli/command_line.cpp`, the way the writers treat a stream | `writer` is what `make_writer` has returned; `handed` and `stored` say how much of the artifact the stream has been given and how much has reached its destination; takes the steps of `RuntimeGenerator` and `TargetList` where main calls them |
| `AtomicRelease` | (abstract specification) | a visible release that is replaced in one step |
| `PackageRelease` | `cmake/package-release.cmake`, `make release` | one action per command that changes what the three directories have; the two archives, and the two checksums, are one file each, which is there if either is; `Crash` between any two actions |
| `LayoutProofs`, `ParserProofs`, `CompilerProofs`, `LLDLinkWriterProofs`, `LLDLinkWriterRefinement`, `ExternalLinkWriterProofs`, `DriverProofs`, `PackageReleaseProofs` | | theorems and their proofs |

An operator introduced by a comment "Variant: ..." is not used by the
specification. It says what a definition would be with a plausible mistake;
`PROJECT.json` pairs each with the property that rules the mistake out.

## 3. What TLC checks

| Run | Question | Instance |
|---|---|---|
| `ParserMC.cfg` | Are the balanced texts accepted and no others, is the tree the text, does parsing end? | all texts of up to 6 symbols over `[ ] +`, up to 5 over `[ ] - #`, up to 3 over all characters, and two longer ones |
| `CompilerMC.cfg` | Does the whole chain implement `Brainfuck` with either runtime? Is every module well formed while it is built, and of the shape of its tree? Do the visits nest as the source does? Does each step of parser and generator bring them closer to their end? | all programs of up to 4 symbols and six longer ones, for Linux and for Windows; a tape of 2 cells of 3 values; 1 mapped cell on either side; output that takes 2 bytes; an empty input and one of two bytes |
| `LLDLinkWriterMC.cfg` | Safety of concurrent links; do they implement `ArtifactWriter`? | three threads: Linux, Windows and an unsupported target, calling again and again; six file names for up to seven files, so that names run out; every step may fail |
| `LLDLinkWriterFair.cfg` | Is the mutex released again and again, do calls end? | a Linux and a Windows thread, five names for five files |
| `ExternalLinkWriterMC.cfg` | Do links by clang implement `ArtifactWriter`, are the files of processes kept apart, is the whole module linked, do calls end? | two processes, killed at any place and started again with the same id; three and two names for two files each |
| `DriverPosix.cfg` | What does exit status 0 mean? Is what the chosen writer hands to the output of the format asked for, the file of `-o` touched only after the source has been read? Does the runtime fit every module, and do the native targets link without libraries? Is the list of targets honest? | every combination of format flag, extension, target (nine triples), kind of input and `--list-targets`; programs that use none, one or both of `getchar` and `putchar` |
| `PackageRelease.cfg` | Is `dist/` replaced atomically? | two versions, any number of runs, failures and deaths everywhere |
| `DriverWindows.cfg`, `DriverList.cfg`, `DriverStdin.cfg`, `DriverTargets.cfg`, `PackageLeftovers.cfg` | disagreements with what the repository says, section 5 | as above |

**Why the bounds are enough.** Parser and generator treat nesting uniformly: a
loop inside a loop, beside a loop, empty, first and last in its sequence all
occur within six symbols, as does every place of a surplus or a missing
bracket; the proofs of section 4 remove the bound for the verdict of the parser
and for the blocks of the generator. The compiled
program's tape of two cells has both ends within reach of two moves; three
values of a cell make wrapping in both directions and the difference between
the largest byte and -1 visible. `LLDLinkWriter` has one thread of every kind of
target; its safety and its refinement are proved for any number. The names of
temporary files are interchangeable there: nothing but equality is asked of
them, so `AnyNames` is a symmetry, and it is used for safety only. With two
threads of two and three files the mutex is contended in every way a third
thread could add for liveness, a thread waiting while another holds it, fails or
throws. In `ExternalLinkWriter` all interaction is by names: two processes,
of which one has a name more than a call needs, so that it completes a call
beside a file of its dead predecessor; for any number, see section 4. `MaxLeft` bounds only when a process may
be killed. The triples of `Driver` have one of every kind that `supports`,
`isWindowsGNUEnvironment` and LLVM's backend tell apart; `DriverPosix.cfg` has
no text mode, and the proofs hold for a host with it as well. In `PackageRelease` what matters
is whether two releases are the same, and a third version adds no case:
at most two are in the three directories beside what a removal left; section 4
has the proof for any set of versions.

**Fairness.** `Parser!FairSpec` and `Compiler!Spec` assume weak fairness of
their next-state relation: a sequential program that can go on does. In
`LLDLinkWriter!FairSpec` every thread runs and LLD returns, again weak fairness
of the thread's steps. `std::mutex` does not promise a turn to a thread that waits,
and strong fairness of `Lock` is not assumed: `CallsEnd` therefore excludes the
wait for the mutex, and what is claimed instead is that the mutex is released
again and again. `Call` has no fairness: nobody has to link anything. In
`ExternalLinkWriter!FairSpec` a process that can go on does, clang ends (it is
waited for without a limit, so nothing could be claimed otherwise), and a dead
process is noticed by the system; being killed is not fair. `Driver`
and `PackageRelease` have safety properties only. `CHECK_DEADLOCK FALSE` stands
where the program ends: a text is parsed, a program exits, `bfc` returns.

**Refinement.** `Compiler!ImplementsLanguage` maps the chain to `Brainfuck`: the
source without its comments is the program, the position that the next
instruction carries is the instruction pointer, parsing and generating are one
`Compile` step, rejection included, and pointer, tape and streams are
themselves. `GoesOnAsTheLanguage` is the fairness of the abstract machine under
the same mapping: a compiler without a verdict, or generated code that hangs
where the program goes on, does not pass. `position` in `IRGenerator` is a history
variable for this mapping.
`LLDLinkWriter` and `ExternalLinkWriter` implement the same `ArtifactWriter`: a
thread or process that is in `write` is a running call, the files that are
marked as its own are held, those of the dead are left. Only `call`, `result`,
`held` and `left` are visible, so both linkers, the mutex and the order of the
steps are hidden.
`PackageRelease!ReplacesAtomically` maps the script to `AtomicRelease`: the
visible release is that of `dist/`, or else the one in `dist.backup/` that the
next run puts back; the rename of `dist.tmp/` to `dist/` is the commit.

## 4. What TLAPS proves

`ParserProofs` holds for every set of texts of any length and every set of
comment characters:

* `TypeCorrect`, in particular the iterator never passes the end;
* `TokensOnly`: the iterator rests only on tokens, so the "Unknown symbol"
  exception of `lexer.cpp` is unreachable;
* `NestingCorrect`: the active calls are the loops that the text read so far
  leaves open;
* `VerdictCorrect`: acceptance and both exceptions are right;
* `TreeCorrect`: at every moment the tree built so far, written back as source,
  is the text read so far without its comments, and the tree of an accepted text
  is the whole of it.

The verdict is not inductive. `IInv` adds to it the types, that the iterator is
at a stop (a token, or the end), and the correspondence of call depth and
bracket depth. That an increment skips only comments, which leave the depth as
it is, gives the step; at the end of the text, or at a `]` with one active call,
the correspondence gives the verdict.

`TreeCorrect` needs to know where the nodes are. `Layout` gives each vector of
nodes, those of the active calls and those of the constructed `Sequence` objects,
a row of positions in the text without its comments: a leaf takes one position, a
`Loop` the piece between its brackets, in which the `Sequence` it owns lies, and a
call begins behind the bracket that follows what its caller has. `LayoutProofs`
has the lemmas: a leaf, an opening and a closing bracket each keep such rows
(`ReadLeaf`, `ReadEnter`, `ReadLeave`), and pieces that follow each other are, put
together, one piece (`FlattenPieces`). A `Sequence` owns only earlier ones, so what
the recursive definition of `Written` gives for each follows by strong induction
over their numbers, with the positions as the witness that the definition has a
solution; the induction is an explicit argument about the least exception
(`LeastNumber`), which needs no theorem with an operator for a parameter.

`LLDLinkWriterProofs` holds for any sets of threads, targets and file names,
from `WritersAssumption` alone (no target is both Linux and Windows; `NoWriter`
is no thread):

* `MutualExclusion` and `NoLinkAfterFailure`, from `LockInv`: whoever is between
  the lock and the end of `lldMain` holds the mutex, and the flag is true while
  somebody is in LLD;
* `TypeCorrect`, `NoFileLeaks`, `InputsAreWhole` and `ReturnCorrect`, from
  `FileInv`: every file has exactly one remover (`Guarded`), how many removers a
  call has at each place of `write` (`Shape`) and what its files hold there
  (`Content`). `Guarded` alone is preserved by creation, writing and removal
  (lemmas about any assignment of files to threads), but the other theorems
  need to know which remover has which file, and that is `Shape`; that another
  thread's step leaves `Content` alone is again `Guarded` (lemma `Undisturbed`).

`LLDLinkWriterRefinement` proves `WriteCorrect`, that `Spec` implements
`ArtifactWriter`, for the same instances. Its invariant is `FileInv` and two more
parts: every file that a remover owns is marked as its owner's (`Owned`), so
that the mapped `held` changes with the owner's steps alone, and what the output
stream holds at each place of a call (`Result`), so that an end without a result
of its own is an exception. Each step is first classified by what it does to the
files (`FileSteps`: nothing, a write, a creation, a removal) and to the call
(`CallSteps`); every combination is an abstract step or a stutter.

`CompilerProofs` holds for every set of texts of any length, any tape and any
inputs:

* `BlocksCorrect`: nothing is emitted behind a terminator, branches go to blocks
  that exist and never to the entry block;
* `OpenBlocksCorrect`: the blocks that wait for a terminator are the insertion
  block and one end for each loop being visited, and none is left at the end;
* `ModuleCorrect`: the finished module has the shape of the tree;
* `NestingKept`: the active visits are one more than the brackets open at the place
  they have come to, as `NestingCorrect` says of the parser's calls: the native
  stack that a source needs grows with the depth of its brackets and nothing else;
* `CompilerMovesOn`: parser and generator have less to do after each of their
  steps: this is the safety part of their termination, with a bound on the number of
  steps that grows with the length of the text (fairness adds only that a next
  step is taken);
* `LanguageCorrect`: the whole chain, from the text to the run of the executable
  on either platform, implements the language.

The assumptions on the constants are `SourcesAssumption` and `InputsAssumption`
(texts are sequences of characters, inputs sequences of bytes) and
`MemoryAssumption`.

`Inv` has two parts. `Tree` is what the parser hands over: every `Loop` owns a
`Sequence` that has been constructed, in the tree and in the vectors of the
active calls (`NodeUpTo` bounds the owner's index, so that one more `Sequence`
only adds nodes). `Module` is what the generator keeps: the types, with branches
bounded by the number of blocks, terminators only at the end of a block, and
`Waiting`, which ties the blocks without a terminator to `insert` and `visits`
and says that these are all different. Without the last part the step that
leaves a loop, with its end as the new insertion block, might emit into a closed
block. That the generator's work and the parser's do not overlap (`ParseStep`)
lets each part be preserved alone.

`ModuleCorrect` needs more: which source symbol each instruction belongs to.
`Parsed` is the invariant of `ParserProofs`, through an instance of that module,
so that the positions of the tree's nodes are known. `Translation` says how far
the generator has come. `Code`: each instruction has the place in the source that
the one before it leads to, a body begins behind its `[` and an end behind the
matching `]`, and what the instruction does is what the symbol there says;
`Entered`: each condition is the target of one branch while its loop is visited
and of two afterwards; `Follows`: the active visits are at the positions of the
tree's nodes, so that the brackets around a visited `Sequence` are each other's
partners (`FlatPair`). The number of blocks counts the `[` translated so far, and
the number of `Sequence` objects all of them (`WholeBalances`).

`LanguageCorrect` rests on `Code` and on two small invariants of the execution:
`Control`, a program that runs has a next instruction, and `Data`, the cells hold
values of cells and the pointer is 0 until the first instruction has set it. Each
step is one of the language: `Says` gives the symbol under `SourcePosition`, and
`Place` where the next instruction belongs (`Advances`, `Branches`), for the two
ways out of a condition `Due` of a body and of an end. The setup of the tape and
the branch into a condition are stutters. That the parser's verdict, given on the
text with its comments, is the one on the source without them is `KeptDepth`.

`ExternalLinkWriterProofs` holds for any number of processes, any names and any
functions of a module, from `ProcessesAssumption` (no process is one of the
markers in the model) and `FunctionsAssumption`:

* `TypeCorrect`, `FilesAreKeptApart` and `WholeModule`, from `Inv`: the types, and
  for each process where its call is and which files it has there (`Shape`), that
  its files have removers (`Guarded`), what is in them (`Content`) and what its
  stream holds (`Result`). Names carry the id of the process, so a step of one
  process or of its clang keeps each part for every other (`KeptInv`);
  what a process meets under the names of its removers is then its own file or
  none, while one that a dead predecessor has left is under another name;
  `WholeModule` rests on `CompilesTheWhole`: a prefix of the text that compiles
  is the text;
* `ExternalWriteCorrect`: `Spec` implements `ArtifactWriter`, deaths included.

`DriverProofs` holds for either value of `TextMode`, that is for hosts that
translate line ends and for those that do not:

* `TypesHold`, `AskedFormatWritten`, `SourceReadBeforeOutput`,
  `RuntimeNeverConflicts`, `NativeTargetsAlwaysLink` and `ListAlwaysHonest`;
* `DeliveredOnZero`, for hosts without text mode. With it the property is false:
  that is the run `DriverWindows.cfg`.

Its `Inv` has seven parts. `Typed` and `Progress` say how far main has come and what
it has decided: past the command line no rule rejects the arguments, and the file
of `-o` is new only once a source has been read. `Writer` says which writer there is, if any, for
the format and the target, and that nothing is handed over without it; with
`Accepted`, that a format which is not rejected is the one the arguments name, it
gives `AskedFormatWritten`. `Delivery` says for every place
from the write to the exit how much of the artifact has been handed to the stream
and how much has arrived: a step that goes on from the last flush has seen no
failure. `Functions` and `Generation` say which functions the module has at each
step of the runtime, with the types of `Type` and the calls of `Callees`; a link
needs all of them. `Listing` is the same for the query of clang: nothing has gone
wrong, or one warning has been printed, or there is no clang, or the read has
failed, which `ListIsHonest` leaves out; and the temporary file is gone before the
section is printed.

`PackageReleaseProofs` holds for any set of versions, from the assumptions on
`None` and `NoDir`:

* `TypeCorrect`, `DistIsAlwaysWhole`, `BackupIsAlwaysWhole` and `DistIsKept`. Their
  `Inv` adds to the types what staging holds at each place of the script
  (`Staged`) and which of `dist/` and `dist.backup/` may be missing there,
  which is whole, and that neither has the binaries of two releases (`Kept`); where
  a run dies, `Kept` is what the next one finds. Of `dist.tmp/` the last is not
  true: the two binaries are copied one after the other, perhaps over leftovers;
* `ReleaseIsAtomic`: `Spec` implements `AtomicRelease`. The visible release is
  chosen, and `VersionOfWhole` and `SameVisible` say when the choice is
  determined and when it stays the same.

Only model-checked: the liveness properties (`ParseEnds`, `GoesOnAsTheLanguage`,
`MutexIsReleased`, both `CallsEnd`): no installed prover reaches fairness.

## 5. Disagreements with the repository's words

Each of these is a run in which TLC finds a counterexample.

* `DriverWindows.cfg`: `README.md` says that binary output goes to the standard
  output by default. On Windows that stream is in text mode and nothing changes
  it, so line feed bytes are translated and `bfc` still exits with 0.
* `DriverList.cfg`: `main` returns `std::cout ? 0 : 1` after `--list-targets`
  without a flush, so a list lost in the buffer leaves exit status 0.
* `DriverStdin.cfg`: a failed read of the standard input ends the program text
  as its end does; what was read until then is compiled with exit status 0.
* `DriverTargets.cfg`: `README.md` says that the runtime accepts any
  `x86_64-*-windows-*` triple. It does, but for the Cygwin environment LLVM's
  backend lets `main` call `__main`, which the runtime defines for MinGW only:
  the link, which has no libraries, fails.
* `PackageLeftovers.cfg`: a removal of `dist.tmp/` that fails silently lets
  archives of an earlier version into a release that is reported as a success.

## 6. What is not modelled, and what is assumed

* LLVM, LLD, CLI11, the C++ library and the operating system are external and
  modelled by how the code uses them. LLD is taken to keep a file at its output
  path until it returns; the window in which it might not is inside LLD. A
  `FileRemover` is taken to succeed: one that fails says nothing, and its file stays.
* Undefined accesses off the tape read any byte, swallow a store, or end the
  process; `Slack` bounds how far memory may be mapped. A store off the tape
  does not change the program's own data in the model.
* A failed read is the end of the input for the compiled program, as in the
  runtime; a failed write is dropped, as the generated code drops the result.
* The native stack has no limit in the model. How deep the calls of the parser
  and of the visitor nest is a property of it (`NestingMatchesText`,
  `VisitsMatchNesting`); that a stack of a given size is too small for some source
  is covered by no property, nor is the recursion of the destructors.
* A killed `bfc` leaves its temporary files behind; nothing removes them. In
  `LLDLinkWriter` no thread is killed alone, and the process has no survivor.
* clang is a black box: a text that it accepts has every function that is
  called, and `main`; its linker removes the output file before it writes it
  again; a process id is not given again while that id's clang still runs.
* A stream that fails keeps a prefix of the text, perhaps cut within a function.
* In `TargetList` a clang that exits with 0 has printed its whole list.
  `clang_output.bad()` never holds after `contents << clang_output.rdbuf()`, for a
  failed read is reported to `contents`: a list cut short that way goes out without
  a warning, and `ListIsHonest` makes that one exception.
* The mark of the default target in the list, and vendors of triples, are left out.
* `RuntimeGenerator` is modelled for the modules that `IRGenerator` makes; a module
  from elsewhere could conflict with it, and `generate` has the checks, which
  are modelled and never fail.
* Two `make release` at the same time are excluded; the script's checks of its
  arguments and of the version fail before anything is touched and are left out.
* Files of the build, and the tests, have no behaviour to model.

## 7. Plan

Done, in this order: the parser (the front of everything), the chain to the
language, the concurrent link writer, the driver, the release script; then the
runtime generator, the link writer by clang, the target list and the
specification that both link writers implement; with them the proofs of section
4. Every safety property that a run checks is now the subject of a theorem. To come:
for both link writers what `EveryStepIsProgress` is for the compiler, a measure
that sinks with each step of a call, as the safety part of `CallsEnd`.
