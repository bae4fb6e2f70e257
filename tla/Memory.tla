------------------------------- MODULE Memory -------------------------------
(***************************************************************************)
(* The memory a program runs in: the global @tape of ir_generator.cpp and  *)
(* what lies around it.  The data pointer is an offset from the first      *)
(* cell; nothing in the generated code checks it.                          *)
(***************************************************************************)
EXTENDS Integers, Sequences

CONSTANTS
  TapeSize,    \* number of cells, 30000 in the code
  CellValues,  \* number of values of a cell, 256 in the code
  Slack,       \* how far beyond the tape memory may still be mapped
  Capacity     \* how many bytes the standard output takes
ASSUME MemoryAssumption ==
  /\ TapeSize \in Nat \ {0} /\ CellValues \in Nat \ {0, 1}
  /\ Slack \in Nat /\ Capacity \in Nat

Cell == 0 .. CellValues - 1
Tape == 0 .. TapeSize - 1
ZeroTape == [p \in Tape |-> 0]

(* Memory beyond the tape may be mapped or not; far enough it never is. *)
Mapped(p) == p \in -Slack .. TapeSize - 1 + Slack

(* A cell of the tape holds what was stored in it.  Any other access is    *)
(* undefined: mapped memory reads as any byte and swallows what is stored. *)
Load(tape, p) == IF p \in Tape THEN {tape[p]} ELSE IF Mapped(p) THEN Cell ELSE {}
Store(tape, p, value) == IF p \in Tape THEN [tape EXCEPT ![p] = value] ELSE tape
=============================================================================
