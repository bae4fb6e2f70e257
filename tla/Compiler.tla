------------------------------ MODULE Compiler ------------------------------
(***************************************************************************)
(* The pipeline of main.cpp from a source text to the run of its           *)
(* executable: the parser's tree goes to IRGenerator, the generated module *)
(* is linked with the bundled runtime and run.  The pipeline implements    *)
(* the language of Brainfuck.tla.                                          *)
(***************************************************************************)
EXTENDS Memory, SequencesExt, FiniteSets

CONSTANTS Comments, Texts, Inputs, Platforms

ASSUME InputsAssumption == Inputs \subseteq Seq(Cell)

VARIABLES
  text, current, frames, sequences, program, outcome,    \* Parser
  blocks, insert, visits, declared, position, generated, \* IRGenerator
  block, next, ptr, tape, stdin, stdout, status,         \* CompiledProgram
  target                                                 \* chosen by the command line

P == INSTANCE Parser
ASSUME SourcesAssumption == Texts \subseteq Seq(P!Char)

G == INSTANCE IRGenerator
X == INSTANCE CompiledProgram

parserVars == <<text, current, frames, sequences, program, outcome>>
generatorVars == <<blocks, insert, visits, declared, position, generated>>
programVars == <<block, next, ptr, tape, stdin, stdout, status>>
vars == <<parserVars, generatorVars, programVars, target>>

Init == P!Init /\ G!Init /\ X!Init(Inputs) /\ target \in Platforms

Parse == P!Next /\ UNCHANGED <<generatorVars, programVars>>
Generate == G!Next /\ UNCHANGED <<text, current, frames, outcome, programVars>>
Run == X!Execute /\ UNCHANGED <<parserVars, generatorVars>>

Next == (Parse \/ Generate \/ Run) /\ UNCHANGED target

Spec == Init /\ [][Next]_vars /\ WF_vars(Next)

-----------------------------------------------------------------------------
(* The source without its comments, which are not part of the program. *)
Source == P!WithoutComments(Len(text))

(* The symbol that is executed next: the one the next instruction was      *)
(* emitted for; a branch to a condition and the setup of the tape execute  *)
(* no symbol of their own.                                                 *)
SourcePosition ==
  IF status \in {"running", "exited", "faulted"} THEN blocks[block][next].at ELSE 1

MachineStatus ==
  IF status # "idle" THEN status
  ELSE IF outcome \in {"Unexpected loop end", "Unclosed loop"} THEN "rejected"
  ELSE "compiling"

L == INSTANCE Brainfuck WITH source <- Source, ip <- SourcePosition, status <- MachineStatus

(* Every text that compiles runs as the language says and every other text *)
(* is rejected: generated code, runtime and parser together implement the  *)
(* language.                                                               *)
ImplementsLanguage ==
  L!Start({Source}, Inputs) /\ L!Machine

(* The compiler reaches its verdict, and the executable does not get stuck *)
(* where the program goes on.                                              *)
GoesOnAsTheLanguage == L!Progress

(* The visits nest as the source does at the place they have come to: one  *)
(* native call for every open bracket, as in the parser, and none left     *)
(* over.                                                                   *)
VisitsMatchNesting ==
  G!Visiting => Len(visits) = 1 + L!Depth(Source, position)

(* What the compiler has still to do: the parser passes the characters     *)
(* that are left and returns, the generator makes the entry block,         *)
(* translates the symbols that are left and returns.                       *)
ParserWork == IF outcome = "parsing" THEN Len(text) + 2 - current ELSE 0
GeneratorWork ==
  IF generated THEN 0 ELSE Len(Source) + (IF blocks = <<>> THEN 2 ELSE 1) - position

(* The compiler cannot go round in circles: every step of the parser and   *)
(* of the generator, the steps into and out of a loop included, leaves     *)
(* less to do, so that both end after a number of steps that the length of *)
(* the text bounds.                                                        *)
EveryStepIsProgress ==
  [][Parse \/ Generate =>
       ParserWork' + GeneratorWork' \in 0 .. ParserWork + GeneratorWork - 1]_vars

(* The module passes llvm::verifyFunction at every moment. *)
BlocksWellFormed == G!BlocksWellFormed
OpenBlocksArePending == G!OpenBlocksArePending
ModuleMatchesTree == G!ModuleMatchesTree
=============================================================================
