------------------------------ MODULE Brainfuck ------------------------------
(***************************************************************************)
(* What the compiler promises: a source text without its comments is       *)
(* rejected when its brackets do not balance, and otherwise runs as a      *)
(* program of the language.  The choices the sources leave to the          *)
(* implementation are those of ir_generator.cpp and of its tests: cells    *)
(* that wrap, 0 for the end of the input, a zeroed tape of fixed length.   *)
(***************************************************************************)
EXTENDS Brackets, Memory

VARIABLES
  source,  \* the symbols of the program
  ip,      \* the next symbol
  ptr,     \* the data pointer, an offset into the tape
  tape, stdin, stdout,
  status   \* "compiling", "rejected", "running", "exited" or "faulted"

machineVars == <<source, ip, ptr, tape, stdin, stdout, status>>

Symbol == source[ip]
Running(symbols) == status = "running" /\ ip <= Len(source) /\ Symbol \in symbols

Compile ==
  /\ status = "compiling"
  /\ status' = IF Balanced(source) THEN "running" ELSE "rejected"
  /\ UNCHANGED <<source, ip, ptr, tape, stdin, stdout>>

Change ==
  /\ Running({"+", "-"})
  /\ \E value \in Load(tape, ptr) :
       tape' = Store(tape, ptr, (value + (IF Symbol = "+" THEN 1 ELSE CellValues - 1)) % CellValues)
  /\ ip' = ip + 1
  /\ UNCHANGED <<source, ptr, stdin, stdout, status>>

Move ==
  /\ Running({">", "<"})
  /\ ptr' = IF Symbol = ">" THEN ptr + 1 ELSE ptr - 1
  /\ ip' = ip + 1
  /\ UNCHANGED <<source, tape, stdin, stdout, status>>

(* A byte of the input, or 0 when the input is exhausted or cannot be read. *)
Read ==
  /\ Running({","}) /\ Mapped(ptr)
  /\ \/ stdin # <<>> /\ tape' = Store(tape, ptr, Head(stdin)) /\ stdin' = Tail(stdin)
     \/ tape' = Store(tape, ptr, 0) /\ UNCHANGED stdin
  /\ ip' = ip + 1
  /\ UNCHANGED <<source, ptr, stdout, status>>

(* The cell is written, or lost when the output does not take it. *)
Write ==
  /\ Running({"."})
  /\ \E value \in Load(tape, ptr) :
       \/ Len(stdout) < Capacity /\ stdout' = Append(stdout, value)
       \/ UNCHANGED stdout
  /\ ip' = ip + 1
  /\ UNCHANGED <<source, ptr, tape, stdin, status>>

(* "[" enters the loop when the cell is not zero and else goes behind it. *)
Enter ==
  /\ Running({"["})
  /\ \E value \in Load(tape, ptr) :
       ip' = IF value # 0 THEN ip + 1 ELSE Matching(source, ip) + 1
  /\ UNCHANGED <<source, ptr, tape, stdin, stdout, status>>

(* "]" goes back to the test of its loop. *)
Return ==
  /\ Running({"]"})
  /\ ip' = Matching(source, ip)
  /\ UNCHANGED <<source, ptr, tape, stdin, stdout, status>>

(* An access beyond the tape may end the process; a read has consumed its *)
(* byte by then.                                                           *)
Fault ==
  /\ Running({"+", "-", ",", ".", "["}) /\ ptr \notin Tape
  /\ status' = "faulted"
  /\ \/ UNCHANGED stdin
     \/ Symbol = "," /\ stdin # <<>> /\ stdin' = Tail(stdin)
  /\ UNCHANGED <<source, ip, ptr, tape, stdout>>

Exit ==
  /\ status = "running" /\ ip > Len(source)
  /\ status' = "exited"
  /\ UNCHANGED <<source, ip, ptr, tape, stdin, stdout>>

Start(sources, inputs) ==
  /\ source \in sources
  /\ ip = 1
  /\ ptr = 0
  /\ tape = [p \in Tape |-> 0]
  /\ stdin \in inputs
  /\ stdout = <<>>
  /\ status = "compiling"

Step == Compile \/ Change \/ Move \/ Read \/ Write \/ Enter \/ Return \/ Fault \/ Exit

Machine == [][Step]_machineVars

(* A run of the program goes on as long as it can. *)
Progress == WF_machineVars(Step)
=============================================================================
