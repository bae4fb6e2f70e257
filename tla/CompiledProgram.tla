--------------------------- MODULE CompiledProgram ---------------------------
(***************************************************************************)
(* The executable: the blocks of main that ir_generator.cpp emits, run     *)
(* with getchar, putchar and the entry point of the bundled runtime:       *)
(* runtime/x86_64-linux.cpp and its system calls, or                       *)
(* runtime/x86_64-windows.cpp and ReadFile and WriteFile.                  *)
(***************************************************************************)
EXTENDS Memory, SequencesExt

VARIABLES
  target,             \* of the bundled runtime: "linux" or "windows"
  blocks, generated,  \* the module, once it has been generated
  block, next,        \* the next instruction to execute
  ptr,                \* %data.pointer
  tape,               \* @tape
  stdin, stdout,      \* what is left to read; what has been written
  status              \* "idle", "running", "exited" or "faulted"

programVars == <<block, next, ptr, tape, stdin, stdout, status>>

current == blocks[block][next]
Executing(op) == status = "running" /\ current.op = op
Calling(callee) == Executing("call") /\ current.callee = callee
ToNextInstruction == next' = next + 1 /\ UNCHANGED block
Jump(to) == block' = to /\ next' = 1

Init(inputs) ==
  /\ block = 1 /\ next = 1
  /\ ptr = 0 /\ tape = ZeroTape
  /\ stdin \in inputs /\ stdout = <<>>
  /\ status = "idle"

(* _start calls main. *)
Start ==
  /\ generated /\ status = "idle"
  /\ status' = "running"
  /\ UNCHANGED <<block, next, ptr, tape, stdin, stdout>>

TapeBegin ==
  /\ Executing("tapeBegin")
  /\ ptr' = 0
  /\ ToNextInstruction
  /\ UNCHANGED <<tape, stdin, stdout, status>>

(* Variant: the cell saturates. *)
IncrementedSaturating(cell, amount) ==
  IF cell + amount \in Cell THEN cell + amount ELSE cell

(* i8 addition and subtraction wrap. *)
Incremented(cell, amount) == (cell + amount) % CellValues

Add ==
  /\ Executing("add")
  /\ \E cell \in Load(tape, ptr) :
       tape' = Store(tape, ptr, Incremented(cell, current.amount))
  /\ ToNextInstruction
  /\ UNCHANGED <<ptr, stdin, stdout, status>>

Move ==
  /\ Executing("move")
  /\ ptr' = ptr + current.amount
  /\ ToNextInstruction
  /\ UNCHANGED <<tape, stdin, stdout, status>>

(* What a call of read or ReadFile for one byte may do: read it, find the  *)
(* end of the input, or fail.  Only the first fills the buffer, which is   *)
(* uninitialised.                                                          *)
ReadCalls ==
  {[ok |-> TRUE, count |-> 1, byte |-> Head(s), rest |-> Tail(s)] : s \in {stdin} \ {<<>>}}
    \cup {[ok |-> stdin = <<>>, count |-> 0, byte |-> b, rest |-> stdin] : b \in Cell}
    \cup {[ok |-> FALSE, count |-> 0, byte |-> b, rest |-> stdin] : b \in Cell}

(* Linux: the system call has returned 1; a failure returns -errno.        *)
BytesRead(call) == IF call.ok THEN call.count ELSE -1
LinuxReadSucceeded(call) == BytesRead(call) = 1

(* Variant: ReadFile's result alone, which is also good at the end.        *)
IoSucceededByResult(call) == call.ok

(* Windows: the call has succeeded and transferred one byte.               *)
IoSucceeded(call) == call.ok /\ call.count = 1

ReadSucceeded(call) ==
  IF target = "linux" THEN LinuxReadSucceeded(call) ELSE IoSucceeded(call)

(* The byte read, zero-extended to i32. *)
ReadValue(byte) == byte

(* getchar: the byte that has been read, or -1. *)
GetcharResults ==
  {[value |-> IF ReadSucceeded(call) THEN ReadValue(call.byte) ELSE -1,
    rest |-> call.rest] : call \in ReadCalls}

(* What visit(Read) stores for the i32 that getchar returned. *)
InputValue(input) == IF input = -1 THEN 0 ELSE input % CellValues

CallGetchar ==
  /\ Calling("getchar") /\ Mapped(ptr)
  /\ \E result \in GetcharResults :
       /\ stdin' = result.rest
       /\ tape' = Store(tape, ptr, InputValue(result.value))
  /\ ToNextInstruction
  /\ UNCHANGED <<ptr, stdout, status>>

(* putchar writes one byte or fails; visit(Print) drops its result. *)
CallPutchar ==
  /\ Calling("putchar")
  /\ \E byte \in Load(tape, ptr) :
       \/ Len(stdout) < Capacity /\ stdout' = Append(stdout, byte)
       \/ UNCHANGED stdout
  /\ ToNextInstruction
  /\ UNCHANGED <<ptr, tape, stdin, status>>

Br ==
  /\ Executing("br")
  /\ Jump(current.to)
  /\ UNCHANGED <<ptr, tape, stdin, stdout, status>>

CondBr ==
  /\ Executing("condbr")
  /\ \E cell \in Load(tape, ptr) : Jump(IF cell # 0 THEN current.then ELSE current.else)
  /\ UNCHANGED <<ptr, tape, stdin, stdout, status>>

(* A load or store outside the tape may end the process; visit(Read)       *)
(* stores after getchar has consumed its byte.                             *)
Fault ==
  /\ status = "running" /\ current.op \in {"add", "call", "condbr"}
  /\ ptr \notin Tape
  /\ status' = "faulted"
  /\ \/ ~Calling("getchar") /\ UNCHANGED stdin
     \/ Calling("getchar") /\ \E result \in GetcharResults : stdin' = result.rest
  /\ UNCHANGED <<block, next, ptr, tape, stdout>>

(* main returns 0 and _start exits with it. *)
Ret ==
  /\ Executing("ret")
  /\ status' = "exited"
  /\ UNCHANGED <<block, next, ptr, tape, stdin, stdout>>

Execute ==
  \/ Start \/ TapeBegin \/ Add \/ Move \/ CallGetchar \/ CallPutchar
  \/ Br \/ CondBr \/ Fault \/ Ret
=============================================================================
