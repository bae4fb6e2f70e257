--------------------------- MODULE RuntimeGenerator ---------------------------
(***************************************************************************)
(* The executable case of make_writer: RuntimeGenerator::generate of       *)
(* src/bfc/llvm/runtime_generator.cpp puts the bundled runtime of a target *)
(* (runtime/x86_64-linux.cpp, runtime/x86_64-windows.cpp) into the module  *)
(* that IRGenerator has made.  The two know each other's functions only by *)
(* name and type, and LLD gets nothing but the module's object and, for    *)
(* Windows, an import library: what is missing there is found by the link. *)
(***************************************************************************)
VARIABLES
  functions,  \* the functions of the module: type, body and the functions it calls
  generating  \* the next function to generate, "done", "thrown" or "idle"

runtimeVars == <<functions, generating>>

Triple(arch, os, env) == [arch |-> arch, os |-> os, env |-> env]

IsWindowsGNU(target) == target.os = "windows" /\ target.env = "gnu"

LinuxSupports(target) ==
  target.arch = "x86_64" /\ target.os = "linux" /\ target.env # "gnux32"
WindowsSupports(target) == target.arch = "x86_64" /\ target.os = "windows"
Supports(target) == LinuxSupports(target) \/ WindowsSupports(target)

-----------------------------------------------------------------------------
Type(name) ==
  CASE name \in {"getchar", "main"}                   -> "i32 ()"
    [] name = "putchar"                               -> "i32 (i32)"
    [] name \in {"_start", "mainCRTStartup", "__main"} -> "void ()"
    [] name = "GetStdHandle"                          -> "ptr (i32)"
    [] name \in {"ReadFile", "WriteFile"}             -> "i32 (ptr, ptr, i32, ptr, ptr)"
    [] name = "ExitProcess"                           -> "void (i32)"

Function(type, defined, calls) == [type |-> type, defined |-> defined, calls |-> calls]
Absent == Function("none", FALSE, {})

Names == {"main", "getchar", "putchar", "_start", "mainCRTStartup", "__main",
          "GetStdHandle", "ReadFile", "WriteFile", "ExitProcess"}

(* Variant: the cell is given to putchar as it is, a byte. *)
DeclaredTypeByte(name) == IF name = "putchar" THEN "i32 (i8)" ELSE "i32 ()"

(* What IRGenerator declares where it first calls them. *)
DeclaredType(name) == IF name = "putchar" THEN "i32 (i32)" ELSE "i32 ()"

(* The module of a program that uses some of getchar and putchar.          *)
IRModule(uses) ==
  [f \in Names |->
     CASE f = "main" -> Function("i32 ()", TRUE, uses)
       [] f \in uses -> Function(DeclaredType(f), FALSE, {})
       [] OTHER      -> Absent]

Init == functions = IRModule({}) /\ generating = "idle"

-----------------------------------------------------------------------------
Entry(target) == IF target.os = "linux" THEN "_start" ELSE "mainCRTStartup"

(* The functions that the body of a generated one calls. *)
Callees(name, target) ==
  (IF name = Entry(target) THEN {"main"} ELSE {}) \cup
  (IF ~WindowsSupports(target) THEN {}
   ELSE CASE name = "getchar" -> {"GetStdHandle", "ReadFile"}
          [] name = "putchar" -> {"GetStdHandle", "WriteFile"}
          [] name = "mainCRTStartup" -> {"ExitProcess"}
          [] OTHER -> {})

(* get_or_create_function throws. *)
Incompatible(name) == functions[name].type \notin {"none", Type(name)}

Throws(name, target) ==
  \/ Incompatible(name)
  \/ name = Entry(target) /\ (~functions["main"].defined \/ Incompatible("main"))
  \/ ~functions[name].defined /\ \E f \in Callees(name, target) : Incompatible(f)

(* A function that has a body already keeps it; the ones that a new body   *)
(* calls are declared.                                                     *)
Define(name, callees) ==
  [f \in Names |->
     CASE f = name -> Function(Type(f), TRUE, callees)
       [] f \in callees /\ functions[f] = Absent -> Function(Type(f), FALSE, {})
       [] OTHER -> functions[f]]

(* A conflict stops the runtime halfway; main gives the module up then.    *)
Generate(name, target, then) ==
  /\ generating = name
  /\ IF Throws(name, target)
       THEN generating' = "thrown" /\ UNCHANGED functions
       ELSE /\ generating' = then
            /\ functions' = IF functions[name].defined THEN functions
                            ELSE Define(name, Callees(name, target))

(* Variant: no target has the startup code of MinGW. *)
AfterStartDone(target) == "done"

AfterStart(target) == IF IsWindowsGNU(target) THEN "__main" ELSE "done"

GenerateGetchar(target) == Generate("getchar", target, "putchar")
GeneratePutchar(target) == Generate("putchar", target, Entry(target))
GenerateStart(target) == Generate(Entry(target), target, AfterStart(target))
GenerateMinGWStartup(target) == Generate("__main", target, "done")

(* RuntimeGenerator::generate for a target that it supports. *)
Next(target) ==
  \/ GenerateGetchar(target) \/ GeneratePutchar(target)
  \/ GenerateStart(target) \/ GenerateMinGWStartup(target)

-----------------------------------------------------------------------------
(* LLVM's x86 backend lets main of MinGW and of Cygwin call __main first.  *)
IsCygMing(target) == target.os = "windows" /\ target.env \in {"gnu", "cygnus"}
BackendCalls(name, target) ==
  IF name = "main" /\ IsCygMing(target) THEN {"__main"} ELSE {}

(* write_windows_import_library *)
ImportLibrary(target) ==
  IF WindowsSupports(target)
    THEN {"GetStdHandle", "ReadFile", "WriteFile", "ExitProcess"} ELSE {}

Defined == {f \in Names : functions[f].defined}

(* LLD finds the entry point and every function that is called; there are  *)
(* no libraries besides, "-static" and "/nodefaultlib".                    *)
Links(target) ==
  /\ Entry(target) \in Defined
  /\ \A f \in Defined :
       functions[f].calls \cup BackendCalls(f, target) \subseteq Defined \cup ImportLibrary(target)
=============================================================================
