---------------------------- MODULE DriverProofs ----------------------------
(***************************************************************************)
(* What one run of bfc keeps, from its arguments to its exit status: for   *)
(* every host, and for every combination of options, target, kind of input *)
(* and failure.                                                            *)
(***************************************************************************)
EXTENDS Driver, FiniteSetTheorems, TLAPS

-----------------------------------------------------------------------------
(* Command line. *)

(* At most one flag is the flag that explicit_format finds. *)
LEMMA OneFlag ==
  ASSUME NEW flags \in SUBSET Formats, Cardinality(flags) <= 1,
         NEW f \in flags, NEW g \in flags
  PROVE  f = g
<1>1. IsFiniteSet(flags)
  <2>1. IsFiniteSet(Formats)
    <3>1. IsFiniteSet({"IR"})
      BY FS_EmptySet, FS_AddElement
    <3>2. IsFiniteSet({"IR"} \cup {"Assembly"})
      BY <3>1, FS_AddElement
    <3>3. IsFiniteSet(({"IR"} \cup {"Assembly"}) \cup {"Object"})
      BY <3>2, FS_AddElement
    <3>4. IsFiniteSet((({"IR"} \cup {"Assembly"}) \cup {"Object"}) \cup {"Executable"})
      BY <3>3, FS_AddElement
    <3>5. Formats = (({"IR"} \cup {"Assembly"}) \cup {"Object"}) \cup {"Executable"}
      BY DEF Formats
    <3> QED
      BY <3>4, <3>5
  <2> QED
    BY <2>1, FS_Subset
<1>2. Cardinality(flags \ {f}) = Cardinality(flags) - 1 /\ IsFiniteSet(flags \ {f})
  BY <1>1, FS_RemoveElement
<1>3. Cardinality(flags) \in Nat /\ Cardinality(flags \ {f}) \in Nat
  BY <1>1, <1>2, FS_CardinalityType
<1>4. flags \ {f} = {}
  BY <1>2, <1>3, FS_EmptySet
<1> QED
  BY <1>4

(* What is not rejected has a format, which a flag, an extension or their  *)
(* absence names.                                                          *)
LEMMA Accepted ==
  ASSUME options \in Options, ~Rejected
  PROVE  /\ Format \in Formats /\ options.flags \subseteq {Format}
         /\ ToFile => Format = FormatFromPath(options.output)
         /\ options.flags = {} /\ ~ToFile => Format = "Executable"
<1>1. Format \in Formats
  BY DEF Rejected
<1>2. CASE ToFile
  BY <1>1, <1>2 DEF Rejected, FlagsAndExtensionDiffer, Format
<1>3. CASE ~ToFile
  <2>1. options.flags \in SUBSET Formats /\ Cardinality(options.flags) <= 1
    BY DEF Options, Rejected, ExclusiveFlags
  <2>2. \A f, g \in options.flags : f = g
    BY <2>1, OneFlag
  <2>3. Format = ExplicitFormat
    BY <1>3 DEF Format
  <2> QED
    BY <1>1, <1>3, <2>1, <2>2, <2>3 DEF ExplicitFormat, Formats
<1> QED
  BY <1>2, <1>3

-----------------------------------------------------------------------------
(* The inductive invariant: main's own state, then the parts that belong   *)
(* to the runtime generator and to the list of targets.                    *)

Compiling == {"open_input", "parse", "make_writer", "generate_runtime", "open_output",
              "write", "flush", "close", "permissions"}
Compiled == Compiling \ {"open_input", "parse"}
Ended == {"close_streams", "exited"}

Typed ==
  /\ options \in Options
  /\ pc \in Labels
  /\ source \in {"none", "whole", "truncated"}
  /\ handed \in Amounts /\ stored \in Amounts \cup {"mangled"}
  /\ bad \in BOOLEAN /\ mode \in BOOLEAN
  /\ file \in {"absent", "old", "new"}
  /\ exit \in {Running, 0, 1}
  /\ writer \in {"none", "IRWriter", "AssemblyWriter", "ObjectWriter"} \cup LinkWriters

(* Where main is says what the arguments are and what has happened. *)
Progress ==
  /\ pc \in Ended <=> exit # Running
  /\ pc # "parse_arguments" /\ exit # 1 => ~Rejected
  /\ pc \in Compiling => ~options.list_targets
  /\ pc = "list_targets" => options.list_targets
  /\ pc \in Compiled => source # "none"
  /\ source # "none" => ~Rejected
  /\ file = "new" => source # "none"
  /\ pc \in {"write", "flush", "close", "permissions"} /\ ToFile => file = "new"

(* The writer is the one for the format and the target, and nothing is     *)
(* written without it.                                                     *)
Writer ==
  /\ writer # "none" =>
       writer = (IF Bundled THEN "LLDLinkWriter" ELSE WriterFor[Format]) /\ source # "none"
  /\ pc = "generate_runtime" => Bundled
  /\ pc \in {"open_output", "write", "flush", "close", "permissions"} => writer # "none"
  /\ handed # "nothing" => options.list_targets \/ writer # "none"

(* How much of the artifact has arrived, in order of the steps. *)
Delivery ==
  /\ stored = "mangled" => Translated
  /\ pc \in Labels \ ({"flush", "close", "permissions"} \cup Ended) => stored = "nothing"
  /\ pc = "flush" => handed = "whole"
  /\ pc \in {"close", "permissions"} => stored \in {"whole", "mangled"}
  /\ exit = 0 /\ ~options.list_targets =>
       /\ stored \in {"whole", "mangled"}
       /\ ToFile => file = "new"
       /\ ToFile /\ Format = "Executable" => mode

(* Every function of the module has the type its name has in the runtime,  *)
(* and a body that the runtime has generated calls what it should.         *)
Functions ==
  /\ functions \in [R!Names -> [type : {"none"} \cup {R!Type(f) : f \in R!Names},
                                defined : BOOLEAN, calls : SUBSET R!Names]]
  /\ \A f \in R!Names : functions[f].type \in {"none", R!Type(f)}
  /\ functions["main"].defined
  /\ functions["main"].calls \subseteq {"getchar", "putchar"}
  /\ \A f \in R!Names \ {"main"} :
       functions[f].defined => functions[f].calls = R!Callees(f, Target)

Generation ==
  /\ generating \in {"idle", "getchar", "putchar", R!Entry(Target), "__main", "done"}
  /\ generating = "__main" => R!IsWindowsGNU(Target)
  /\ generating \in {"putchar", R!Entry(Target), "__main", "done"} => functions["getchar"].defined
  /\ generating \in {R!Entry(Target), "__main", "done"} => functions["putchar"].defined
  /\ generating \in {"__main", "done"} => functions[R!Entry(Target)].defined
  /\ generating = "done" /\ R!IsWindowsGNU(Target) => functions["__main"].defined
  /\ pc \in {"parse_arguments", "list_targets", "open_input", "parse", "make_writer"} => generating = "idle"
  /\ pc \in {"open_output", "write"} /\ Bundled => generating = "done"

(* What the steps of the list have left behind them: nothing gone wrong,   *)
(* one warning, or no clang at all.                                        *)
Fine == failure = "none" /\ warnings = 0
Warned == failure \in {"create", "execute", "open"} /\ warnings = 1 /\ contents = "nullopt"
NoClang == failure = "find" /\ warnings = 0 /\ contents = "nullopt"

Listing ==
  /\ at \in {"native", "find", "create", "execute", "open", "read", "remove", "section", "done"}
  /\ temp \in Amounts \cup {"absent"} /\ contents \in Amounts \cup {"nullopt"}
  /\ at \in {"native", "find", "create"} => Fine /\ temp = "absent"
  /\ at = "execute" => Fine
  /\ at \in {"open", "read"} => Fine /\ temp = "whole"
  /\ at \in {"native", "find", "create", "execute", "open", "read"} => contents = "nullopt"
  /\ at = "remove" => Warned \/ failure = "read" \/ (Fine /\ contents = "whole")
  /\ at \in {"section", "done"} =>
       /\ temp = "absent"
       /\ Warned \/ NoClang \/ failure = "read" \/ (Fine /\ contents = "whole")
  /\ at = "done" /\ failure # "read" =>
       section = IF contents = "nullopt" THEN "nothing" ELSE contents

MainInv == Typed /\ Progress /\ Writer /\ Delivery
Inv == MainInv /\ Functions /\ Generation /\ Listing

-----------------------------------------------------------------------------
(* The module and its runtime. *)

LEMMA ModuleOfProgram ==
  ASSUME NEW uses \in SUBSET {"getchar", "putchar"}, functions' = R!IRModule(uses)
  PROVE  Functions'
<1>1. functions' \in [R!Names -> [type : {"none"} \cup {R!Type(f) : f \in R!Names},
                                  defined : BOOLEAN, calls : SUBSET R!Names]]
  BY DEF R!IRModule, R!Function, R!Absent, R!DeclaredType, R!Names, R!Type
<1>2. \A f \in R!Names :
        /\ functions'[f].type \in {"none", R!Type(f)}
        /\ f # "main" => ~functions'[f].defined
  BY DEF R!IRModule, R!Function, R!Absent, R!DeclaredType, R!Names, R!Type
<1>3. functions'["main"].defined /\ functions'["main"].calls = uses
  BY DEF R!IRModule, R!Function, R!Names
<1> QED
  BY <1>1, <1>2, <1>3 DEF Functions

LEMMA InitFunctions == R!Init => Functions
<1> SUFFICES ASSUME R!Init PROVE Functions
  OBVIOUS
<1>1. functions = R!IRModule({})
  BY DEF R!Init
<1>2. functions \in [R!Names -> [type : {"none"} \cup {R!Type(f) : f \in R!Names},
                                 defined : BOOLEAN, calls : SUBSET R!Names]]
  BY <1>1 DEF R!IRModule, R!Function, R!Absent, R!DeclaredType, R!Names, R!Type
<1>3. \A f \in R!Names :
        /\ functions[f].type \in {"none", R!Type(f)}
        /\ f # "main" => ~functions[f].defined
  BY <1>1 DEF R!IRModule, R!Function, R!Absent, R!DeclaredType, R!Names, R!Type
<1>4. functions["main"].defined /\ functions["main"].calls = {}
  BY <1>1 DEF R!IRModule, R!Function, R!Names
<1> QED
  BY <1>2, <1>3, <1>4 DEF Functions

(* One generated function: no conflict, it has its body, nothing is lost.  *)
LEMMA GenerateStep ==
  ASSUME Functions, NEW name \in R!Names \ {"main"}, NEW then, then # "thrown",
         R!Generate(name, Target, then), UNCHANGED options
  PROVE  /\ Functions'
         /\ generating = name /\ generating' = then
         /\ functions'[name].defined
         /\ \A f \in R!Names : functions[f].defined => functions'[f].defined
<1>1. ~R!Throws(name, Target)
  <2>1. \A f \in R!Names : ~R!Incompatible(f)
    BY DEF Functions, R!Incompatible
  <2>2. R!Callees(name, Target) \subseteq R!Names /\ "main" \in R!Names
    BY DEF R!Callees, R!Names
  <2> QED
    BY <2>1, <2>2 DEF R!Throws, Functions
<1>2. /\ generating = name /\ generating' = then
      /\ functions' = IF functions[name].defined THEN functions
                      ELSE R!Define(name, R!Callees(name, Target))
  BY <1>1 DEF R!Generate
<1>3. Target' = Target
  BY DEF Target
<1>4. CASE functions[name].defined
  BY <1>2, <1>3, <1>4 DEF Functions
<1>5. CASE ~functions[name].defined
  <2> DEFINE callees == R!Callees(name, Target)
             Info == [type : {"none"} \cup {R!Type(f) : f \in R!Names},
                      defined : BOOLEAN, calls : SUBSET R!Names]
  <2>1. callees \in SUBSET R!Names /\ name \notin callees
    BY DEF R!Callees, R!Names, R!Entry
  <2>2. functions' = R!Define(name, callees)
    BY <1>2, <1>5
  <2> HIDE DEF callees
  <2>3. \A f \in R!Names :
          functions'[f] =
            IF f = name THEN R!Function(R!Type(f), TRUE, callees)
            ELSE IF f \in callees /\ functions[f] = R!Absent THEN R!Function(R!Type(f), FALSE, {})
            ELSE functions[f]
    <3> SUFFICES ASSUME NEW f \in R!Names
                 PROVE  functions'[f] =
                          IF f = name THEN R!Function(R!Type(f), TRUE, callees)
                          ELSE IF f \in callees /\ functions[f] = R!Absent THEN R!Function(R!Type(f), FALSE, {})
                          ELSE functions[f]
      OBVIOUS
    <3>1. CASE f = name
      BY <2>1, <2>2, <3>1 DEF R!Define
    <3>2. CASE f # name /\ f \in callees /\ functions[f] = R!Absent
      BY <2>2, <3>2 DEF R!Define
    <3>3. CASE f # name /\ ~(f \in callees /\ functions[f] = R!Absent)
      BY <2>2, <3>3 DEF R!Define
    <3> QED
      BY <3>1, <3>2, <3>3
  <2>4. \A f \in R!Names :
          /\ f = name =>
               /\ functions'[f].type = R!Type(f)
               /\ functions'[f].defined = TRUE
               /\ functions'[f].calls = callees
          /\ f # name =>
               \/ functions'[f] = functions[f]
               \/ /\ functions[f].defined = FALSE
                  /\ functions'[f].type = R!Type(f)
                  /\ functions'[f].defined = FALSE
                  /\ functions'[f].calls = {}
    <3> SUFFICES ASSUME NEW f \in R!Names
                 PROVE  /\ f = name =>
                             /\ functions'[f].type = R!Type(f)
                             /\ functions'[f].defined = TRUE
                             /\ functions'[f].calls = callees
                        /\ f # name =>
                             \/ functions'[f] = functions[f]
                             \/ /\ functions[f].defined = FALSE
                                /\ functions'[f].type = R!Type(f)
                                /\ functions'[f].defined = FALSE
                                /\ functions'[f].calls = {}
      OBVIOUS
    <3>1. CASE f = name
      <4>1. functions'[f] = R!Function(R!Type(f), TRUE, callees)
        BY <2>3, <3>1
      <4> QED
        BY <3>1, <4>1 DEF R!Function
    <3>2. CASE f # name /\ f \in callees /\ functions[f] = R!Absent
      <4>1. functions'[f] = R!Function(R!Type(f), FALSE, {})
        BY <2>3, <3>2
      <4> QED
        BY <3>2, <4>1 DEF R!Function, R!Absent
    <3>3. CASE f # name /\ ~(f \in callees /\ functions[f] = R!Absent)
      BY <2>3, <3>3
    <3> QED
      BY <3>1, <3>2, <3>3
  <2>5. functions' = [f \in R!Names |-> functions'[f]]
    BY <2>2 DEF R!Define
  <2>6. \A f \in R!Names : functions[f] \in Info
    BY DEF Functions
  <2>7. \A f \in R!Names : R!Type(f) \in {R!Type(g) : g \in R!Names}
    OBVIOUS
  <2>8. \A f \in R!Names : functions'[f] \in Info
    <3>1. \A f \in R!Names, d \in BOOLEAN, c \in SUBSET R!Names : R!Function(R!Type(f), d, c) \in Info
      BY <2>7 DEF R!Function
    <3> HIDE DEF Info
    <3> QED
      BY <2>1, <2>3, <2>6, <3>1
  <2> HIDE DEF Info
  <2>9. functions' \in [R!Names -> Info]
    BY <2>5, <2>8
  <2>11. functions'["main"] = functions["main"]
    BY <2>4 DEF Functions, R!Names
  <2>12. \A f \in R!Names : functions'[f].type \in {"none", R!Type(f)}
    BY <2>4 DEF Functions
  <2>13. \A f \in R!Names \ {"main"} :
           functions'[f].defined => functions'[f].calls = R!Callees(f, Target)
    BY <2>4 DEF Functions, callees
  <2>14. \A f \in R!Names : functions[f].defined => functions'[f].defined
    BY <2>4
  <2>15. Functions'
    BY <1>3, <2>9, <2>11, <2>12, <2>13 DEF Functions, Info
  <2> QED
    BY <1>2, <2>4, <2>14, <2>15
<1> QED
  BY <1>2, <1>4, <1>5

(* The steps of RuntimeGenerator::generate follow each other to "done".    *)
LEMMA GenerationStep ==
  ASSUME Functions, Generation, pc = "generate_runtime", R!Next(Target),
         UNCHANGED <<options, pc>>
  PROVE  Functions' /\ Generation'
<1> DEFINE entry == R!Entry(Target)
           gnu == R!IsWindowsGNU(Target)
           generated == {f \in R!Names : functions[f].defined}
<1>1. entry \in {"_start", "mainCRTStartup"}
  BY DEF R!Entry
<1>2. Target' = Target /\ entry' = entry /\ gnu' = gnu
  BY DEF Target
<1>3. {"getchar", "putchar", entry, "__main"} \subseteq R!Names \ {"main"}
  BY <1>1 DEF R!Names
<1>4. R!AfterStart(Target) = IF gnu THEN "__main" ELSE "done"
  BY DEF R!AfterStart
<1>5. /\ generating = "__main" => gnu
      /\ generating \in {"putchar", entry, "__main", "done"} => functions["getchar"].defined
      /\ generating \in {entry, "__main", "done"} => functions["putchar"].defined
      /\ generating \in {"__main", "done"} => functions[entry].defined
  BY DEF Generation
<1>6. /\ Generation' <=>
           /\ generating' \in {"idle", "getchar", "putchar", entry, "__main", "done"}
           /\ generating' = "__main" => gnu
           /\ generating' \in {"putchar", entry, "__main", "done"} => functions'["getchar"].defined
           /\ generating' \in {entry, "__main", "done"} => functions'["putchar"].defined
           /\ generating' \in {"__main", "done"} => functions'[entry].defined
           /\ generating' = "done" /\ gnu => functions'["__main"].defined
  BY <1>2 DEF Generation
<1> HIDE DEF entry, gnu
<1>7. CASE R!GenerateGetchar(Target)
  <2>1. R!Generate("getchar", Target, "putchar")
    BY <1>7 DEF R!GenerateGetchar
  <2>2. Functions' /\ generating' = "putchar" /\ functions'["getchar"].defined
    BY <1>3, <2>1, GenerateStep
  <2> QED
    BY <1>1, <1>6, <2>2
<1>8. CASE R!GeneratePutchar(Target)
  <2>1. R!Generate("putchar", Target, entry)
    BY <1>8 DEF R!GeneratePutchar, entry
  <2>2. /\ Functions' /\ generating = "putchar" /\ generating' = entry
        /\ functions'["putchar"].defined
        /\ functions["getchar"].defined => functions'["getchar"].defined
    BY <1>1, <1>3, <2>1, GenerateStep
  <2> QED
    BY <1>1, <1>5, <1>6, <2>2
<1>9. CASE R!GenerateStart(Target)
  <2>1. R!Generate(entry, Target, R!AfterStart(Target))
    BY <1>9 DEF R!GenerateStart, entry
  <2>2. R!AfterStart(Target) # "thrown"
    BY <1>4
  <2>3. /\ Functions' /\ generating = entry /\ generating' = R!AfterStart(Target)
        /\ functions'[entry].defined
        /\ functions["getchar"].defined => functions'["getchar"].defined
        /\ functions["putchar"].defined => functions'["putchar"].defined
    BY <1>3, <2>1, <2>2, GenerateStep
  <2> QED
    BY <1>1, <1>4, <1>5, <1>6, <2>3
<1>10. CASE R!GenerateMinGWStartup(Target)
  <2>1. R!Generate("__main", Target, "done")
    BY <1>10 DEF R!GenerateMinGWStartup
  <2>2. /\ Functions' /\ generating = "__main" /\ generating' = "done"
        /\ functions'["__main"].defined
        /\ functions["getchar"].defined => functions'["getchar"].defined
        /\ functions["putchar"].defined => functions'["putchar"].defined
        /\ functions[entry].defined => functions'[entry].defined
    BY <1>3, <2>1, GenerateStep
  <2> QED
    BY <1>1, <1>5, <1>6, <2>2
<1> QED
  BY <1>7, <1>8, <1>9, <1>10 DEF R!Next

-----------------------------------------------------------------------------
(* The list of targets. *)

LEMMA InitListing == L!Init => Listing
BY DEF L!Init, Listing, Fine, Amounts

LEMMA ListingStep ==
  ASSUME Listing, L!Next
  PROVE  Listing'
<1> USE DEF Fine, Warned, NoClang, Amounts
<1>1. CASE L!WriteNativeTargets
  BY <1>1 DEF Listing, L!WriteNativeTargets, L!Goto
<1>2. CASE L!FindClang
  BY <1>2 DEF Listing, L!FindClang, L!Goto
<1>3. CASE L!CreateTemporaryFile
  BY <1>3 DEF Listing, L!CreateTemporaryFile, L!Goto, L!Warn
<1>4. CASE L!ExecuteAndWait
  <2>1. PICK execution_failed \in BOOLEAN, exit_code \in {0, 1}, printed \in L!Amounts :
          /\ execution_failed => printed = "nothing"
          /\ ~execution_failed /\ exit_code = 0 => printed = "whole"
          /\ temp' = printed
          /\ failure' = IF execution_failed \/ exit_code # 0 THEN "execute" ELSE "none"
          /\ IF L!ExecutionFailed(execution_failed, exit_code)
               THEN L!Warn
               ELSE L!Goto("open") /\ UNCHANGED warnings
    BY <1>4 DEF L!ExecuteAndWait
  <2>2. at = "execute" /\ UNCHANGED <<contents, section>> /\ printed \in Amounts
    BY <1>4 DEF L!ExecuteAndWait, L!Amounts
  <2>3. CASE execution_failed \/ exit_code # 0
    <3>1. at' = "remove" /\ warnings' = warnings + 1 /\ failure' = "execute"
      BY <2>1, <2>3 DEF L!ExecutionFailed, L!Warn, L!Goto
    <3> QED
      BY <2>1, <2>2, <3>1 DEF Listing
  <2>4. CASE ~(execution_failed \/ exit_code # 0)
    <3>1. at' = "open" /\ warnings' = warnings /\ failure' = "none" /\ printed = "whole"
      BY <2>1, <2>4 DEF L!ExecutionFailed, L!Goto
    <3> QED
      BY <2>1, <2>2, <3>1 DEF Listing
  <2> QED
    BY <2>3, <2>4
<1>5. CASE L!OpenOutput
  BY <1>5 DEF Listing, L!OpenOutput, L!Goto, L!Warn
<1>6. CASE L!Read
  BY <1>6 DEF Listing, L!Read, L!Goto
<1>7. CASE L!RemoveOutput
  BY <1>7 DEF Listing, L!RemoveOutput, L!Goto
<1>8. CASE L!WriteSection
  BY <1>8 DEF Listing, L!WriteSection, L!Goto
<1> QED
  BY <1>1, <1>2, <1>3, <1>4, <1>5, <1>6, <1>7, <1>8 DEF L!Next

-----------------------------------------------------------------------------
(* main. *)

(* Everything that the arguments decide stays as it is. *)
LEMMA OptionsDecide ==
  ASSUME UNCHANGED options
  PROVE  /\ ToFile' = ToFile /\ Format' = Format /\ Target' = Target
         /\ Rejected' = Rejected /\ Bundled' = Bundled
         /\ UNCHANGED writer => Translated' = Translated
<1>1. ToFile' = ToFile /\ Target' = Target
  BY DEF ToFile, Target
<1>2. Format' = Format
  BY <1>1 DEF Format, ExplicitFormat
<1>3. Rejected' = Rejected
  BY <1>1, <1>2 DEF Rejected, ListConflict, ExclusiveFlags, FlagsAndExtensionDiffer
<1> QED
  BY <1>1, <1>2, <1>3 DEF Bundled, Translated, Artifact

LEMMA Arriving ==
  ASSUME Typed, Delivery, NEW amount \in Amounts
  PROVE  /\ MayHaveArrived(amount) \subseteq Amounts \cup {"mangled"}
         /\ "mangled" \in MayHaveArrived(amount) => Translated
         /\ stored \in {"whole", "mangled"} => MayHaveArrived(amount) = {stored}
         /\ amount # "whole" /\ stored = "nothing" => MayHaveArrived(amount) \subseteq {"nothing", "part"}
         /\ MayHaveArrived(amount) \ {"nothing", "part"} \subseteq {"whole", "mangled"}
BY DEF MayHaveArrived, Amounts, Arrived, Typed, Delivery

LEMMA InitMain == Init => MainInv
<1> SUFFICES ASSUME Init PROVE MainInv
  OBVIOUS
<1>1. Typed
  BY DEF Init, Typed, Labels, Amounts, Running
<1>2. Progress
  BY DEF Init, Progress, Ended, Compiling, Compiled, Running
<1>3. Delivery
  BY DEF Init, Delivery, Compiling, Running
<1>4. Writer
  BY DEF Init, Writer
<1> QED
  BY <1>1, <1>2, <1>3, <1>4 DEF MainInv

(* A step of main keeps the arguments and main's own invariant. *)
LEMMA MainKeepsMain ==
  ASSUME MainInv, Main, UNCHANGED writer
  PROVE  MainInv' /\ UNCHANGED options
<1> USE DEF Labels, Goto, Throw, Return, Compiling, Compiled, Ended, Running
<1>1. UNCHANGED options
  BY DEF Main, ParseArguments, ListTargetsReturns, OpenInput, OpenOutput, Write, Flush, Close, Permissions, CloseStreams
<1>2. /\ ToFile' = ToFile /\ Format' = Format /\ Target' = Target
      /\ Rejected' = Rejected /\ Translated' = Translated /\ Bundled' = Bundled
  BY <1>1, OptionsDecide
<1>3. Typed /\ Progress /\ Writer /\ Delivery
  BY DEF MainInv
<1>4. /\ \A amount \in Amounts :
           /\ MayHaveArrived(amount) \subseteq Amounts \cup {"mangled"}
           /\ "mangled" \in MayHaveArrived(amount) => Translated
           /\ stored \in {"whole", "mangled"} => MayHaveArrived(amount) = {stored}
           /\ amount # "whole" /\ stored = "nothing" => MayHaveArrived(amount) \subseteq {"nothing", "part"}
           /\ MayHaveArrived(amount) \ {"nothing", "part"} \subseteq {"whole", "mangled"}
  BY <1>3, Arriving
<1>5. {"nothing", "part", "whole"} = Amounts
  BY DEF Amounts
<1>6. Writer'
  <2>1. source' = source
    BY DEF Main, ParseArguments, ListTargetsReturns, OpenInput, OpenOutput, Write, Flush, Close,
           Permissions, CloseStreams
  <2>2. /\ pc' \in {"open_output", "write", "flush", "close", "permissions"} =>
             pc \in {"open_output", "write", "flush", "close", "permissions"}
        /\ pc' # "generate_runtime"
    BY DEF Main, ParseArguments, ListTargetsReturns, OpenInput, AfterInput, OpenOutput, Write,
           Flush, AfterFlush, Close, Permissions, CloseStreams
  <2>3. handed' = handed \/ pc \in {"list_targets", "write"}
    BY DEF Main, ParseArguments, ListTargetsReturns, OpenInput, OpenOutput, Write, Flush, Close,
           Permissions, CloseStreams
  <2> QED
    BY <1>1, <1>2, <1>3, <2>1, <2>2, <2>3 DEF Writer, Progress
<1>7. CASE ParseArguments
  <2>1. Typed'
    BY <1>1, <1>3, <1>4, <1>5, <1>7 DEF Typed, Labels, ParseArguments
  <2>2. Progress'
    BY <1>1, <1>2, <1>3, <1>7 DEF Progress, ParseArguments
  <2>3. Delivery'
    BY <1>1, <1>2, <1>3, <1>4, <1>5, <1>7 DEF Typed, Progress, Delivery, ParseArguments
  <2> QED
    BY <1>1, <1>6, <2>1, <2>2, <2>3 DEF MainInv
<1>8. CASE ListTargetsReturns
  <2>1. Typed'
    BY <1>1, <1>3, <1>4, <1>5, <1>8 DEF Typed, Labels, ListTargetsReturns
  <2>2. Progress'
    BY <1>1, <1>2, <1>3, <1>8 DEF Progress, ListTargetsReturns
  <2>3. Delivery'
    BY <1>1, <1>2, <1>3, <1>4, <1>5, <1>8 DEF Typed, Progress, Delivery, ListTargetsReturns
  <2> QED
    BY <1>1, <1>6, <2>1, <2>2, <2>3 DEF MainInv
<1>9. CASE OpenInput
  <2>1. Typed'
    BY <1>1, <1>3, <1>4, <1>5, <1>9 DEF Typed, Labels, OpenInput, AfterInput
  <2>2. Progress'
    BY <1>1, <1>2, <1>3, <1>9 DEF Progress, OpenInput, AfterInput
  <2>3. Delivery'
    BY <1>1, <1>2, <1>3, <1>4, <1>5, <1>9 DEF Typed, Progress, Delivery, OpenInput, AfterInput
  <2> QED
    BY <1>1, <1>6, <2>1, <2>2, <2>3 DEF MainInv
<1>10. CASE OpenOutput
  <2>1. Typed'
    BY <1>1, <1>3, <1>4, <1>5, <1>10 DEF Typed, Labels, OpenOutput
  <2>2. Progress'
    BY <1>1, <1>2, <1>3, <1>10 DEF Progress, OpenOutput
  <2>3. Delivery'
    BY <1>1, <1>2, <1>3, <1>4, <1>5, <1>10 DEF Typed, Progress, Delivery, OpenOutput
  <2> QED
    BY <1>1, <1>6, <2>1, <2>2, <2>3 DEF MainInv
<1>11. CASE Write
  <2>1. Typed'
    BY <1>1, <1>3, <1>4, <1>5, <1>11 DEF Typed, Labels, Write
  <2>2. Progress'
    BY <1>1, <1>2, <1>3, <1>11 DEF Progress, Write
  <2>3. Delivery'
    BY <1>1, <1>2, <1>3, <1>4, <1>5, <1>11 DEF Typed, Progress, Delivery, Write
  <2> QED
    BY <1>1, <1>6, <2>1, <2>2, <2>3 DEF MainInv
<1>12. CASE Flush
  <2>1. Typed'
    BY <1>1, <1>3, <1>4, <1>5, <1>12 DEF Typed, Labels, Flush, AfterFlush
  <2>2. Progress'
    BY <1>1, <1>2, <1>3, <1>12 DEF Progress, Flush, AfterFlush
  <2>3. Delivery'
    BY <1>1, <1>2, <1>3, <1>4, <1>5, <1>12 DEF Typed, Progress, Delivery, Flush, AfterFlush
  <2> QED
    BY <1>1, <1>6, <2>1, <2>2, <2>3 DEF MainInv
<1>13. CASE Close
  <2>1. Typed'
    BY <1>1, <1>3, <1>4, <1>5, <1>13 DEF Typed, Labels, Close
  <2>2. Progress'
    BY <1>1, <1>2, <1>3, <1>13 DEF Progress, Close
  <2>3. Delivery'
    BY <1>1, <1>2, <1>3, <1>4, <1>5, <1>13 DEF Typed, Progress, Delivery, Close
  <2> QED
    BY <1>1, <1>6, <2>1, <2>2, <2>3 DEF MainInv
<1>14. CASE Permissions
  <2>1. Typed'
    BY <1>1, <1>3, <1>4, <1>5, <1>14 DEF Typed, Labels, Permissions, ExecutableFile
  <2>2. Progress'
    BY <1>1, <1>2, <1>3, <1>14 DEF Progress, Permissions, ExecutableFile
  <2>3. Delivery'
    BY <1>1, <1>2, <1>3, <1>4, <1>5, <1>14 DEF Typed, Progress, Delivery, Permissions, ExecutableFile
  <2> QED
    BY <1>1, <1>6, <2>1, <2>2, <2>3 DEF MainInv
<1>15. CASE CloseStreams
  <2>1. Typed'
    BY <1>1, <1>3, <1>4, <1>5, <1>15 DEF Typed, Labels, CloseStreams
  <2>2. Progress'
    BY <1>1, <1>2, <1>3, <1>15 DEF Progress, CloseStreams
  <2>3. Delivery'
    BY <1>1, <1>2, <1>3, <1>4, <1>5, <1>15 DEF Typed, Progress, Delivery, CloseStreams
  <2> QED
    BY <1>1, <1>6, <2>1, <2>2, <2>3 DEF MainInv
<1> QED
  BY <1>7, <1>8, <1>9, <1>10, <1>11, <1>12, <1>13, <1>14, <1>15 DEF Main

(* A step of main leaves the module alone, and comes to no output without  *)
(* the runtime that the target has.                                        *)
LEMMA MainKeepsModule ==
  ASSUME MainInv, Functions, Generation, Main, UNCHANGED writer, UNCHANGED runtimeVars
  PROVE  Functions' /\ Generation'
<1>1. UNCHANGED options
  BY MainKeepsMain
<1>2. Target' = Target /\ Bundled' = Bundled
  BY <1>1, OptionsDecide
<1>3. Functions'
  BY <1>2 DEF Functions, runtimeVars
<1>4. /\ pc' \in {"parse_arguments", "list_targets", "open_input", "parse", "make_writer"} =>
           pc \in {"parse_arguments", "list_targets", "open_input", "parse", "make_writer"}
      /\ pc' \in {"open_output", "write"} => pc \in {"open_output", "write"}
  BY DEF Main, ParseArguments, ListTargetsReturns, OpenInput, OpenOutput, Write, Flush, Close, Permissions, CloseStreams, Goto, Throw, Return, AfterInput, AfterFlush
<1>5. Generation'
  BY <1>2, <1>4 DEF Generation, runtimeVars
<1> QED
  BY <1>3, <1>5

(* What is not a step of main changes pc, source, writer and exit at most. *)
LEMMA ModuleStepKeepsMain ==
  ASSUME MainInv, Compile \/ MakeWriter \/ RuntimeReturns
  PROVE  MainInv' /\ UNCHANGED options
<1> USE DEF Labels, Goto, Throw, Return, Compiling, Compiled, Ended, Running
<1>1. UNCHANGED <<options, handed, stored, bad, file, mode>>
  BY DEF Compile, MakeWriter, RuntimeReturns
<1>2. /\ ToFile' = ToFile /\ Format' = Format /\ Target' = Target
      /\ Rejected' = Rejected /\ Bundled' = Bundled
  BY <1>1, OptionsDecide
<1>3. /\ Typed /\ Progress /\ Writer /\ Delivery
      /\ stored' = "nothing" /\ exit # 0
  BY <1>1 DEF MainInv, Delivery, Compile, MakeWriter, RuntimeReturns, Progress
<1>4. CASE Compile
  <2>1. Typed'
    BY <1>1, <1>3, <1>4 DEF Typed, Compile
  <2>2. Progress'
    BY <1>1, <1>2, <1>3, <1>4 DEF Typed, Progress, Compile
  <2>3. Delivery'
    BY <1>1, <1>2, <1>3, <1>4 DEF Typed, Progress, Delivery, Compile
  <2>4. Writer'
    BY <1>1, <1>2, <1>3, <1>4 DEF Typed, Progress, Writer, Compile
  <2> QED
    BY <1>1, <2>1, <2>2, <2>3, <2>4 DEF MainInv
<1>5. CASE MakeWriter
  <2>1. /\ source' = source /\ source # "none"
        /\ WriterFor[Format] \in {"IRWriter", "AssemblyWriter", "ObjectWriter", "ExternalLinkWriter"}
    BY <1>3, <1>5, Accepted DEF Typed, Progress, MakeWriter, WriterFor, Formats
  <2>2. Typed'
    BY <1>1, <1>3, <1>5, <2>1 DEF Typed, MakeWriter, LinkWriters
  <2>3. Progress'
    BY <1>1, <1>2, <1>3, <1>5 DEF Typed, Progress, MakeWriter
  <2>4. Delivery'
    BY <1>1, <1>2, <1>3, <1>5 DEF Typed, Progress, Delivery, MakeWriter
  <2>5. Writer'
    <3>1. CASE Bundled
      BY <1>1, <1>2, <1>3, <1>5, <2>1, <3>1 DEF Writer, MakeWriter
    <3>2. CASE ~Bundled
      <4>1. writer' = WriterFor[Format] /\ writer' # "none" /\ pc' = "open_output"
        BY <1>5, <2>1, <3>2 DEF MakeWriter
      <4>2. WriterFor[Format]' = WriterFor[Format]
        BY <1>2 DEF WriterFor
      <4> QED
        BY <1>2, <2>1, <3>2, <4>1, <4>2 DEF Writer
    <3> QED
      BY <3>1, <3>2
  <2> QED
    BY <1>1, <2>2, <2>3, <2>4, <2>5 DEF MainInv
<1>6. CASE RuntimeReturns
  <2>1. Typed'
    BY <1>1, <1>3, <1>6 DEF Typed, RuntimeReturns, LinkWriters
  <2>2. Progress'
    BY <1>1, <1>2, <1>3, <1>6 DEF Typed, Progress, RuntimeReturns
  <2>3. Delivery'
    BY <1>1, <1>2, <1>3, <1>6 DEF Typed, Progress, Delivery, RuntimeReturns
  <2>4. Writer'
    <3>1. Bundled' /\ source' = source /\ source # "none"
      BY <1>2, <1>3, <1>6 DEF Progress, Writer, RuntimeReturns
    <3> QED
      BY <1>1, <1>3, <1>6, <3>1 DEF Writer, RuntimeReturns
  <2> QED
    BY <1>1, <2>1, <2>2, <2>3, <2>4 DEF MainInv
<1> QED
  BY <1>4, <1>5, <1>6

LEMMA MainUnchanged ==
  ASSUME MainInv, UNCHANGED mainVars
  PROVE  MainInv'
<1>1. UNCHANGED <<options, pc, source, writer, handed, stored, bad, file, mode, exit>>
  BY DEF mainVars
<1>2. /\ ToFile' = ToFile /\ Format' = Format /\ Target' = Target
      /\ Rejected' = Rejected /\ Translated' = Translated /\ Bundled' = Bundled
  BY <1>1, OptionsDecide
<1>3. Typed'
  BY <1>1 DEF MainInv, Typed
<1>4. Progress'
  BY <1>1, <1>2 DEF MainInv, Progress
<1>5. Delivery'
  BY <1>1, <1>2 DEF MainInv, Delivery
<1>6. Writer'
  BY <1>1, <1>2 DEF MainInv, Writer
<1> QED
  BY <1>3, <1>4, <1>5, <1>6 DEF MainInv

LEMMA ModuleUnchanged ==
  ASSUME Functions, Generation, UNCHANGED <<options, pc, functions, generating>>
  PROVE  Functions' /\ Generation'
<1>1. Target' = Target /\ Bundled' = Bundled
  BY OptionsDecide
<1> QED
  BY <1>1 DEF Functions, Generation

LEMMA ListUnchanged ==
  ASSUME Listing, UNCHANGED listVars
  PROVE  Listing'
BY DEF Listing, listVars, Fine, Warned, NoClang

-----------------------------------------------------------------------------
LEMMA InitInv == Init => Inv
<1> SUFFICES ASSUME Init PROVE Inv
  OBVIOUS
<1>1. MainInv
  BY InitMain
<1>2. Functions /\ Listing
  BY InitFunctions, InitListing DEF Init
<1>3. Generation
  <2>1. generating = "idle" /\ pc = "parse_arguments"
    BY DEF Init, R!Init
  <2> QED
    BY <2>1 DEF Generation, R!Entry
<1> QED
  BY <1>1, <1>2, <1>3 DEF Inv

LEMMA NextInv == Inv /\ [Next]_vars => Inv'
<1> SUFFICES ASSUME Inv, [Next]_vars PROVE Inv'
  OBVIOUS
<1>1. MainInv /\ Functions /\ Generation /\ Listing
  BY DEF Inv
<1>2. CASE Main /\ UNCHANGED <<writer, runtimeVars, listVars>>
  <2>1. MainInv'
    BY <1>1, <1>2, MainKeepsMain
  <2>2. Functions' /\ Generation'
    BY <1>1, <1>2, MainKeepsModule
  <2>3. Listing'
    BY <1>1, <1>2, ListUnchanged
  <2> QED
    BY <2>1, <2>2, <2>3 DEF Inv
<1>3. CASE Compile /\ UNCHANGED listVars
  <2>1. MainInv' /\ UNCHANGED options
    BY <1>1, <1>3, ModuleStepKeepsMain
  <2>2. Target' = Target /\ Bundled' = Bundled
    BY <2>1, OptionsDecide
  <2>3. Functions'
    <3>1. CASE UNCHANGED functions
      BY <1>1, <2>2, <3>1 DEF Functions
    <3>2. ASSUME NEW uses \in SUBSET {"getchar", "putchar"}, functions' = R!IRModule(uses)
          PROVE  Functions'
      BY <3>2, ModuleOfProgram
    <3> QED
      BY <1>3, <3>1, <3>2 DEF Compile
  <2>4. generating = "idle" /\ generating' = "idle" /\ pc' \in {"make_writer", "close_streams"}
    BY <1>1, <1>3 DEF Compile, Generation, Goto, Throw, Return
  <2>5. Generation'
    BY <2>4 DEF Generation, R!Entry
  <2>6. Listing'
    BY <1>1, <1>3, ListUnchanged
  <2> QED
    BY <2>1, <2>3, <2>5, <2>6 DEF Inv
<1>4. CASE MakeWriter /\ UNCHANGED listVars
  <2>1. MainInv' /\ UNCHANGED options
    BY <1>1, <1>4, ModuleStepKeepsMain
  <2>2. Target' = Target /\ Bundled' = Bundled
    BY <2>1, OptionsDecide
  <2>3. Functions'
    BY <1>1, <1>4, <2>2 DEF Functions, MakeWriter
  <2>4. \/ Bundled /\ generating' = "getchar" /\ pc' = "generate_runtime"
        \/ ~Bundled /\ generating' = "idle" /\ pc' = "open_output"
    BY <1>1, <1>4 DEF MakeWriter, Generation, Goto
  <2>5. Generation'
    BY <2>2, <2>4 DEF Generation, R!Entry
  <2>6. Listing'
    BY <1>1, <1>4, ListUnchanged
  <2> QED
    BY <2>1, <2>3, <2>5, <2>6 DEF Inv
<1>5. CASE GenerateRuntime /\ UNCHANGED listVars
  <2>1. /\ pc = "generate_runtime" /\ R!Next(Target)
        /\ UNCHANGED mainVars /\ UNCHANGED <<options, pc>>
    BY <1>5 DEF GenerateRuntime, mainVars
  <2>2. MainInv'
    BY <1>1, <2>1, MainUnchanged
  <2>3. Functions' /\ Generation'
    BY <1>1, <2>1, GenerationStep
  <2>4. Listing'
    BY <1>1, <1>5, ListUnchanged
  <2> QED
    BY <2>2, <2>3, <2>4 DEF Inv
<1>6. CASE RuntimeReturns /\ UNCHANGED listVars
  <2>1. MainInv' /\ UNCHANGED options
    BY <1>1, <1>6, ModuleStepKeepsMain
  <2>2. Target' = Target /\ Bundled' = Bundled
    BY <2>1, OptionsDecide
  <2>3. Functions'
    BY <1>1, <1>6, <2>2 DEF Functions, RuntimeReturns, runtimeVars
  <2>4. UNCHANGED <<functions, generating>>
    BY <1>6 DEF RuntimeReturns, runtimeVars
  <2>5. \/ generating = "done" /\ pc' = "open_output"
        \/ pc' = "close_streams"
    BY <1>6 DEF RuntimeReturns, Goto, Throw, Return
  <2>6. Generation'
    BY <1>1, <2>2, <2>4, <2>5 DEF Generation
  <2>7. Listing'
    BY <1>1, <1>6, ListUnchanged
  <2> QED
    BY <2>1, <2>3, <2>6, <2>7 DEF Inv
<1>7. CASE ListTargets
  <2>1. /\ L!Next /\ UNCHANGED mainVars
        /\ UNCHANGED <<options, pc, functions, generating>>
    BY <1>7 DEF ListTargets, mainVars, runtimeVars
  <2>2. MainInv'
    BY <1>1, <2>1, MainUnchanged
  <2>3. Functions' /\ Generation'
    BY <1>1, <2>1, ModuleUnchanged
  <2>4. Listing'
    BY <1>1, <2>1, ListingStep
  <2> QED
    BY <2>2, <2>3, <2>4 DEF Inv
<1>8. CASE UNCHANGED vars
  <2>1. /\ UNCHANGED mainVars /\ UNCHANGED listVars
        /\ UNCHANGED <<options, pc, functions, generating>>
    BY <1>8 DEF vars, mainVars, runtimeVars
  <2>2. MainInv'
    BY <1>1, <2>1, MainUnchanged
  <2>3. Functions' /\ Generation'
    BY <1>1, <2>1, ModuleUnchanged
  <2>4. Listing'
    BY <1>1, <2>1, ListUnchanged
  <2> QED
    BY <2>2, <2>3, <2>4 DEF Inv
<1> QED
  BY <1>2, <1>3, <1>4, <1>5, <1>6, <1>7, <1>8 DEF Next

LEMMA InvAlways == Spec => []Inv
<1> QED
  BY InitInv, NextInv, PTL DEF Spec

-----------------------------------------------------------------------------
(* Everything has its type, and a source is read only by a run that has a  *)
(* format to write in.                                                     *)
THEOREM TypesHold == Spec => []TypeOK
<1>1. Inv => TypeOK
  <2> SUFFICES ASSUME Inv PROVE TypeOK
    OBVIOUS
  <2>1. source # "none" => Format \in Formats
    BY Accepted DEF Inv, MainInv, Typed, Progress
  <2>2. \A f \in R!Names : functions[f].calls \subseteq R!Names
    BY DEF Inv, Functions
  <2> QED
    BY <2>1, <2>2 DEF Inv, MainInv, Typed, Listing, TypeOK
<1> QED
  BY <1>1, InvAlways, PTL

(* Where nothing translates line ends, exit status 0 of a compilation      *)
(* means that the whole artifact has arrived, that the file of -o is the   *)
(* new one and that an executable may be executed: for every order in      *)
(* which streams pass on what they hold and fail.                          *)
THEOREM DeliveredOnZero == ~TextMode => (Spec => []ExitZeroDelivers)
<1> SUFFICES ASSUME ~TextMode PROVE Spec => []ExitZeroDelivers
  OBVIOUS
<1>1. Inv => ExitZeroDelivers
  BY DEF Inv, MainInv, Delivery, Translated, ExitZeroDelivers, Succeeded
<1> QED
  BY <1>1, InvAlways, PTL

(* Whatever main hands to its output, even in a run that fails, comes from *)
(* the writer of the format that the flag, the extension of the output or  *)
(* the absence of both asks for.                                           *)
THEOREM AskedFormatWritten == Spec => []FormatAsAsked
<1>1. Inv => FormatAsAsked
  <2> SUFFICES ASSUME Inv, handed # "nothing", ~options.list_targets
               PROVE  /\ options.flags \subseteq {Artifact}
                      /\ ToFile => Artifact = FormatFromPath(options.output)
                      /\ options.flags = {} /\ ~ToFile => Artifact = "Executable"
    BY DEF FormatAsAsked
  <2>1. writer = (IF Bundled THEN "LLDLinkWriter" ELSE WriterFor[Format]) /\ source # "none"
    BY DEF Inv, MainInv, Writer
  <2>2. options \in Options /\ ~Rejected
    BY <2>1 DEF Inv, MainInv, Typed, Progress
  <2>3. Artifact = Format
    BY <2>1, <2>2, Accepted DEF Artifact, LinkWriters, WriterFor, Bundled, Formats
  <2> QED
    BY <2>2, <2>3, Accepted
<1> QED
  BY <1>1, InvAlways, PTL

(* The file of -o is truncated only once the source has been read and      *)
(* accepted.                                                               *)
THEOREM SourceReadBeforeOutput == Spec => []OverwritesAfterReading
<1>1. Inv => OverwritesAfterReading
  BY DEF Inv, MainInv, Progress, OverwritesAfterReading
<1> QED
  BY <1>1, InvAlways, PTL

(* The runtime's functions have the types that IRGenerator has declared:   *)
(* no conflict stops a generation.                                         *)
THEOREM RuntimeNeverConflicts == Spec => []RuntimeFitsModule
<1>1. Inv => RuntimeFitsModule
  BY DEF Inv, Generation, RuntimeFitsModule, R!Entry
<1> QED
  BY <1>1, InvAlways, PTL

(* For a target that --list-targets calls native, LLD finds whatever the   *)
(* program and its runtime call.                                           *)
THEOREM NativeTargetsAlwaysLink == Spec => []NativeTargetsLink
<1>1. Inv => NativeTargetsLink
  <2> SUFFICES ASSUME Inv, pc = "write", Format = "Executable", Target \in NativeTargets
               PROVE  writer = "LLDLinkWriter" /\ R!Links(Target)
    BY DEF NativeTargetsLink
  <2> DEFINE entry == R!Entry(Target)
  <2>1. /\ R!Supports(Target)
        /\ R!IsCygMing(Target) => R!IsWindowsGNU(Target)
    BY DEF NativeTargets, R!Supports, R!LinuxSupports, R!WindowsSupports, R!Triple,
           R!IsCygMing, R!IsWindowsGNU
  <2>2. generating = "done"
    BY <2>1 DEF Inv, Generation, Bundled
  <2>3. {"main", "getchar", "putchar", entry} \subseteq R!Defined
    BY <2>2 DEF Inv, Generation, Functions, R!Defined, R!Names, R!Entry
  <2>4. R!IsCygMing(Target) => "__main" \in R!Defined
    BY <2>1, <2>2 DEF Inv, Generation, R!Defined, R!Names
  <2>5. \A f \in R!Defined :
          functions[f].calls \cup R!BackendCalls(f, Target) \subseteq R!Defined \cup R!ImportLibrary(Target)
    <3> SUFFICES ASSUME NEW f \in R!Defined
                 PROVE  /\ functions[f].calls \subseteq R!Defined \cup R!ImportLibrary(Target)
                        /\ R!BackendCalls(f, Target) \subseteq R!Defined
      OBVIOUS
    <3>1. f \in R!Names /\ functions[f].defined
      BY DEF R!Defined
    <3>2. R!BackendCalls(f, Target) \subseteq R!Defined
      BY <2>4 DEF R!BackendCalls
    <3>3. CASE f = "main"
      BY <2>3, <3>2, <3>3 DEF Inv, Functions
    <3>4. CASE f # "main"
      <4>1. functions[f].calls = R!Callees(f, Target)
        BY <3>1, <3>4 DEF Inv, Functions
      <4>2. R!Callees(f, Target) \subseteq {"main"} \cup R!ImportLibrary(Target)
        BY DEF R!Callees, R!ImportLibrary
      <4> QED
        BY <2>3, <3>2, <4>1, <4>2
    <3> QED
      BY <3>3, <3>4
  <2>6. writer = "LLDLinkWriter"
    BY <2>1 DEF Inv, MainInv, Writer, Bundled
  <2> QED
    BY <2>3, <2>5, <2>6 DEF R!Links
<1> QED
  BY <1>1, InvAlways, PTL

(* --list-targets leaves no temporary file, and warns once if a clang that *)
(* is there cannot be asked; then its section is left out, and else it is  *)
(* whole.  The one failure of which this is not true is a read of the      *)
(* temporary file that fails: it goes unnoticed, and a part of the list is *)
(* printed without a warning.                                              *)
THEOREM ListAlwaysHonest == Spec => []ListIsHonest
<1>1. Inv => ListIsHonest
  BY DEF Inv, Listing, Fine, Warned, NoClang, ListIsHonest, L!ListIsHonest
<1> QED
  BY <1>1, InvAlways, PTL

=============================================================================
