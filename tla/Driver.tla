-------------------------------- MODULE Driver --------------------------------
(***************************************************************************)
(* One run of the program: main of src/bfc/main.cpp with the command line  *)
(* of src/bfc/cli/command_line.cpp and the artifact writers it calls.      *)
(*                                                                         *)
(* What matters here is what ends up where.  A writer hands its artifact   *)
(* to an output stream; the stream passes it on to its destination, the    *)
(* file of -o or the standard output, early or late, and may fail to.      *)
(* std::cin and std::cout work on the streams of C: a failed read is the   *)
(* end of the input, a failed flush is seen when the stream is flushed.    *)
(*                                                                         *)
(* The steps of make_writer are those of RuntimeGenerator, the steps of    *)
(* --list-targets those of TargetList.                                     *)
(***************************************************************************)
EXTENDS Integers, FiniteSets

CONSTANT TextMode  \* standard streams and text files are translated, as on Windows
ASSUME TextModeAssumption == TextMode \in BOOLEAN

VARIABLES
  options,   \* the arguments of the program
  pc,        \* the next step of main
  source,    \* what the parser has read: "none", "whole" or "truncated"
  writer,    \* the writer that make_writer has returned
  handed,    \* how much of the artifact the stream has been given
  stored,    \* how much of it has reached the destination
  bad,       \* the stream has failed
  file,      \* the file of -o: "absent", "old", or "new" once it is truncated
  mode,      \* that file may be executed
  exit,      \* the exit status, Running before there is one
  functions, generating,                              \* RuntimeGenerator
  at, temp, contents, warnings, section, failure      \* TargetList

R == INSTANCE RuntimeGenerator
L == INSTANCE TargetList

mainVars == <<options, pc, source, writer, handed, stored, bad, file, mode, exit>>
runtimeVars == <<functions, generating>>
listVars == <<at, temp, contents, warnings, section, failure>>
vars == <<mainVars, runtimeVars, listVars>>

Running == -1
None == "none"
Formats == {"IR", "Assembly", "Object", "Executable"}

(* Extensions: one of each kind that format_from_path tells apart.         *)
Extensions == {".ll", ".s", ".o", ".out", ".txt"}

(* Target triples, without their vendors: those that --list-targets calls  *)
(* native, some that it does not, and one that LLVM does not know.         *)
NativeTargets ==
  {R!Triple("x86_64", "linux", env) : env \in {"gnu", "musl"}} \cup
  {R!Triple("x86_64", "windows", env) : env \in {"gnu", "msvc", "itanium"}}
Targets ==
  NativeTargets \cup
  {R!Triple("x86_64", "windows", "cygnus"), R!Triple("x86_64", "linux", "gnux32"),
   R!Triple("aarch64", "linux", "gnu"), R!Triple("unknown", "linux", "gnu")}
NoTarget == R!Triple(None, None, None)
Host == R!Triple("x86_64", IF TextMode THEN "windows" ELSE "linux", "gnu")

(* The program: no argument, "-", a file, or the very file of -o.          *)
Inputs == {None, "-", "file", "output"}

Options ==
  {o \in [flags : {f \in SUBSET Formats : Cardinality(f) <= 2},
          output : Extensions \cup {None}, target : Targets \cup {NoTarget},
          input : Inputs, list_targets : BOOLEAN] :
     o.input = "output" => o.output # None}

Stdin == options.input \in {None, "-"}
ToFile == options.output # None
Target == IF options.target = NoTarget THEN Host ELSE options.target

-----------------------------------------------------------------------------
(* format_from_path *)
FormatFromPath(extension) ==
  CASE extension = ".ll"  -> "IR"     [] extension = ".s"   -> "Assembly"
    [] extension = ".o"   -> "Object" [] extension = ".out" -> "Executable"
    [] OTHER -> "unknown output extension"

(* explicit_format: the first of the flags that are given. *)
ExplicitFormat ==
  CASE "IR" \in options.flags       -> "IR"
    [] "Assembly" \in options.flags -> "Assembly"
    [] "Object" \in options.flags   -> "Object"
    [] OTHER -> "Executable"

(* Options::output_format *)
Format == IF ToFile THEN FormatFromPath(options.output) ELSE ExplicitFormat

(* CLI11's require_option(0, 1) *)
ExclusiveFlags == Cardinality(options.flags) <= 1

ListConflict ==
  /\ options.list_targets
  /\ options.flags # {} \/ ToFile \/ options.target # NoTarget \/ options.input # None

FlagsAndExtensionDiffer == ToFile /\ ~(options.flags \subseteq {Format})

(* Variant: extensions that are not known are not rejected. *)
RejectedOnConflict ==
  ListConflict \/ ~ExclusiveFlags \/ (Format \in Formats /\ FlagsAndExtensionDiffer)

(* CommandLine::parse throws a ParseError or a ValidationError. *)
Rejected ==
  ListConflict \/ ~ExclusiveFlags \/ Format \notin Formats \/ FlagsAndExtensionDiffer

-----------------------------------------------------------------------------
Amounts == {"nothing", "part", "whole"}

(* What the writers write. *)
LinkWriters == {"LLDLinkWriter", "ExternalLinkWriter"}
Artifact ==
  CASE writer = "IRWriter"     -> "IR"     [] writer = "AssemblyWriter" -> "Assembly"
    [] writer = "ObjectWriter" -> "Object" [] writer \in LinkWriters    -> "Executable"
    [] OTHER -> "nothing"

(* The standard output of Windows puts a carriage return before every line *)
(* feed, which a binary artifact does not survive if it has one.           *)
Translated == TextMode /\ ~ToFile /\ Artifact \in {"Object", "Executable"}
Arrived == IF Translated THEN {"whole", "mangled"} ELSE {"whole"}

(* What of the amount given to the stream may be at its destination, which *)
(* already has some of it.                                                 *)
MayHaveArrived(amount) ==
  IF stored \in {"whole", "mangled"} THEN {stored}
  ELSE CASE amount = "nothing" -> {"nothing"}
         [] amount = "part"    -> {stored, "part"}
         [] amount = "whole"   -> {stored, "part"} \cup Arrived

Init ==
  /\ options \in Options
  /\ pc = "parse_arguments"
  /\ source = "none" /\ writer = "none"
  /\ handed = "nothing" /\ stored = "nothing" /\ bad = FALSE
  /\ file \in IF options.input = "output" THEN {"old"} ELSE {"absent", "old"}
  /\ mode \in IF file = "old" THEN BOOLEAN ELSE {FALSE}
  /\ exit = Running
  /\ R!Init /\ L!Init

Goto(label) == pc' = label /\ UNCHANGED exit

(* main returns, or catches an exception and returns 1 (for a ParseError   *)
(* some other status than 0); its streams are still to be closed.          *)
Return(status) == pc' = "close_streams" /\ exit' = status
Throw == Return(1)

ParseArguments ==
  /\ pc = "parse_arguments"
  /\ \/ Rejected /\ Throw
     \/ ~Rejected /\ options.list_targets /\ Goto("list_targets")
     \/ ~Rejected /\ ~options.list_targets /\ Goto("open_input")
  /\ UNCHANGED <<options, source, handed, stored, bad, file, mode>>

(* write_target_list *)
ListTargets == pc = "list_targets" /\ L!Next /\ UNCHANGED <<mainVars, runtimeVars>>

(* return std::cout ? 0 : 1.  What is in the buffer of the standard output *)
(* has not failed yet.                                                     *)
ListTargetsReturns ==
  /\ pc = "list_targets" /\ at = "done"
  /\ handed' = "whole"
  /\ \/ bad' = FALSE /\ stored' \in Amounts /\ Return(0)
     \/ bad' = TRUE /\ stored' \in {"nothing", "part"} /\ Return(1)
  /\ UNCHANGED <<options, source, file, mode>>

(* Variant: the output is opened first. *)
AfterInputOutput == "open_output"

AfterInput == "parse"

OpenInput ==
  /\ pc = "open_input"
  /\ \/ Goto(AfterInput)
     \/ ~Stdin /\ Throw
  /\ UNCHANGED <<options, source, handed, stored, bad, file, mode>>

(* The source ends early for the parser when a read of the standard input  *)
(* fails, and on Windows at a control-Z.  (A failed read of a file throws.) *)
MayEndEarly == Stdin \/ TextMode

(* Parser::parse and IRGenerator::generate, which makes a module with the  *)
(* functions that the program uses.                                        *)
Compile ==
  /\ pc = "parse"
  /\ \/ /\ source' \in {"whole"} \cup IF MayEndEarly THEN {"truncated"} ELSE {}
        /\ \E uses \in SUBSET {"getchar", "putchar"} : functions' = R!IRModule(uses)
        /\ Goto("make_writer")
     \/ Throw /\ UNCHANGED <<source, functions>>
  /\ UNCHANGED <<options, writer, handed, stored, bad, file, mode, generating>>

(* make_writer: the switch on the format; LLDLinkWriter comes with the     *)
(* runtime.                                                                *)
Bundled == Format = "Executable" /\ R!Supports(Target)
WriterFor ==
  [IR |-> "IRWriter", Assembly |-> "AssemblyWriter", Object |-> "ObjectWriter",
   Executable |-> "ExternalLinkWriter"]

MakeWriter ==
  /\ pc = "make_writer"
  /\ \/ Bundled /\ generating' = "getchar" /\ Goto("generate_runtime") /\ UNCHANGED writer
     \/ ~Bundled /\ writer' = WriterFor[Format] /\ Goto("open_output") /\ UNCHANGED generating
  /\ UNCHANGED <<options, source, handed, stored, bad, file, mode, functions>>

(* RuntimeGenerator::generate, and its return or exception. *)
GenerateRuntime ==
  pc = "generate_runtime" /\ R!Next(Target) /\ UNCHANGED mainVars
RuntimeReturns ==
  /\ pc = "generate_runtime" /\ generating \in {"done", "thrown"}
  /\ IF generating = "done" THEN writer' = "LLDLinkWriter" /\ Goto("open_output")
                            ELSE Throw /\ UNCHANGED writer
  /\ UNCHANGED <<options, source, handed, stored, bad, file, mode, runtimeVars>>

(* std::ofstream truncates the file, or fails. *)
OpenOutput ==
  /\ pc = "open_output"
  /\ \/ ~ToFile /\ Goto("write") /\ UNCHANGED file
     \/ ToFile /\ file' = "new" /\ Goto("write")
     \/ ToFile /\ Throw /\ UNCHANGED file
  /\ UNCHANGED <<options, source, handed, stored, bad, mode>>

(* A writer throws before it writes when emit_native or clang knows no     *)
(* such target, and when a temporary file or a linker fails; LLD fails     *)
(* when a function is missing.                                             *)
MustThrow ==
  \/ writer # "IRWriter" /\ Target.arch = "unknown"
  \/ writer = "LLDLinkWriter" /\ ~R!Links(Target)
MayThrow == MustThrow \/ writer \in LinkWriters

(* IRWriter alone does not look at the stream that it has written to.      *)
ChecksStream == writer # "IRWriter"

Write ==
  /\ pc = "write"
  /\ \/ MayThrow /\ Throw /\ UNCHANGED <<handed, stored, bad>>
     \/ /\ writer \in LinkWriters /\ ~MustThrow \* copy_executable cannot read on
        /\ handed' = "part" /\ stored' \in MayHaveArrived("part") /\ bad' = TRUE
        /\ Throw
     \/ /\ ~MustThrow
        /\ handed' = "whole"
        /\ \/ bad' = FALSE /\ stored' \in MayHaveArrived("whole") /\ Goto("flush")
           \/ /\ bad' = TRUE /\ stored' \in MayHaveArrived("part")
              /\ IF ChecksStream THEN Throw ELSE Goto("flush")
  /\ UNCHANGED <<options, source, file, mode>>

(* Variant: the stream is not looked at after the flush. *)
AfterFlushUnchecked(failed) == Goto("close")

(* if (!*output) throw *)
AfterFlush(failed) == IF failed THEN Throw ELSE Goto("close")

(* output->flush() passes everything on or fails; a stream that has failed *)
(* before does nothing.                                                    *)
Flush ==
  /\ pc = "flush"
  /\ \/ /\ ~bad
        /\ stored' \in MayHaveArrived(handed) \ {"nothing", "part"}
        /\ AfterFlush(FALSE)
        /\ UNCHANGED bad
     \/ /\ bad' = TRUE
        /\ stored' \in IF bad THEN {stored} ELSE MayHaveArrived("part")
        /\ AfterFlush(TRUE)
  /\ UNCHANGED <<options, source, handed, file, mode>>

(* output_file.close(), if (!output_file) throw *)
Close ==
  /\ pc = "close"
  /\ \/ ToFile /\ bad' = TRUE /\ Throw
     \/ (ToFile => ~bad) /\ Goto("permissions") /\ UNCHANGED bad
  /\ UNCHANGED <<options, source, handed, stored, file, mode>>

(* Variant: the permissions are never added. *)
ExecutableFileNever == FALSE

ExecutableFile == Format = "Executable" /\ ToFile

(* std::filesystem::permissions *)
Permissions ==
  /\ pc = "permissions"
  /\ \/ ExecutableFile /\ mode' = TRUE /\ Return(0)
     \/ ExecutableFile /\ Throw /\ UNCHANGED mode
     \/ ~ExecutableFile /\ Return(0) /\ UNCHANGED mode
  /\ UNCHANGED <<options, source, handed, stored, bad, file>>

(* The destructor of the std::ofstream and the exit of the process pass on *)
(* what is still buffered; nobody asks whether they could.                 *)
CloseStreams ==
  /\ pc = "close_streams"
  /\ stored' \in MayHaveArrived(handed)
  /\ pc' = "exited"
  /\ UNCHANGED <<options, source, handed, bad, file, mode, exit>>

Main ==
  \/ ParseArguments \/ ListTargetsReturns \/ OpenInput \/ OpenOutput
  \/ Write \/ Flush \/ Close \/ Permissions \/ CloseStreams

Next ==
  \/ Main /\ UNCHANGED <<writer, runtimeVars, listVars>>
  \/ (Compile \/ MakeWriter \/ GenerateRuntime \/ RuntimeReturns) /\ UNCHANGED listVars
  \/ ListTargets

Spec == Init /\ [][Next]_vars

-----------------------------------------------------------------------------
Labels == {"parse_arguments", "list_targets", "open_input", "parse", "make_writer",
           "generate_runtime", "open_output", "write", "flush", "close", "permissions", "close_streams", "exited"}

(* Types; a run that works on a module or on an output has a format.       *)
TypeOK ==
  /\ options \in Options
  /\ pc \in Labels
  /\ source \in {"none", "whole", "truncated"}
  /\ writer \in {"none", "IRWriter", "AssemblyWriter", "ObjectWriter"} \cup LinkWriters
  /\ handed \in Amounts /\ stored \in Amounts \cup {"mangled"}
  /\ bad \in BOOLEAN /\ mode \in BOOLEAN
  /\ file \in {"absent", "old", "new"}
  /\ exit \in {Running, 0, 1}
  /\ source # "none" => Format \in Formats
  /\ \A f \in R!Names : functions[f].calls \subseteq R!Names
  /\ temp \in Amounts \cup {"absent"} /\ contents \in Amounts \cup {"nullopt"}

Succeeded == pc = "exited" /\ exit = 0

(* Exit status 0 of a compilation means that the whole artifact is at its  *)
(* destination, and may be executed if it is an executable in a file; no   *)
(* buffer that is flushed late and no ignored stream hides a loss.         *)
ExitZeroDelivers ==
  Succeeded /\ ~options.list_targets =>
    /\ stored = "whole"
    /\ ToFile => file = "new"
    /\ ToFile /\ Format = "Executable" => mode

(* From its first byte, what the writer of make_writer hands to the output *)
(* is what the flag and the extension, where given, name, and an           *)
(* executable without both: in runs that fail later, too.                  *)
FormatAsAsked ==
  handed # "nothing" /\ ~options.list_targets =>
    /\ options.flags \subseteq {Artifact}
    /\ ToFile => Artifact = FormatFromPath(options.output)
    /\ options.flags = {} /\ ~ToFile => Artifact = "Executable"

(* The file of -o is lost only to a source that has been read and accepted *)
(* to its end: a run that rejects its source leaves it alone, and "-o" may *)
(* name the source itself.                                                 *)
OverwritesAfterReading == file = "new" => source # "none"

(* What IRGenerator declares is what the runtime defines: no type conflict *)
(* stops the runtime halfway through a module (runtime/x86_64-linux.cpp:25)*)
(* and make_writer never throws.                                           *)
RuntimeFitsModule == generating # "thrown"

(* The targets that --list-targets calls native "work completely isolated  *)
(* without relying on external linkers or C runtimes" (README.md:102):     *)
(* they are linked by LLD, and whatever the program uses it finds every    *)
(* function that is called in the module or in the import library.         *)
NativeTargetsLink ==
  pc = "write" /\ Format = "Executable" /\ Target \in NativeTargets =>
    writer = "LLDLinkWriter" /\ R!Links(Target)

(* "The runtime accepts any x86_64-*-windows-* triple" (README.md:121) and *)
(* what it accepts goes to LLD alone.                                      *)
AcceptedTargetsLink ==
  pc = "write" /\ Format = "Executable" /\ R!Supports(Target) => R!Links(Target)

(* --list-targets: see TargetList. *)
ListIsHonest == L!ListIsHonest

(* Exit status 0 of --list-targets means that the list has been written:   *)
(* "return std::cout ? 0 : 1" (main.cpp:57).                               *)
ListIsDelivered == Succeeded /\ options.list_targets => stored = "whole"

(* A program that compiles has been read to its end: "bfc reads the        *)
(* Brainfuck program from standard input" (README.md:51).                  *)
SourceIsWhole == Succeeded /\ ~options.list_targets => source = "whole"
=============================================================================
