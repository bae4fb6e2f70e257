------------------------------ MODULE TargetList ------------------------------
(***************************************************************************)
(* write_target_list of src/bfc/llvm/target_list.cpp: the targets of the   *)
(* bundled runtimes, then what clang prints, through a temporary file.     *)
(* What goes wrong with clang costs its section and is said on the error   *)
(* stream, but for two things: a missing clang is nothing to speak of, and *)
(* a failed read of the temporary file is not seen.                        *)
(***************************************************************************)
EXTENDS Naturals

VARIABLES
  at,        \* the next step
  temp,      \* what the temporary file holds, "absent" without one
  contents,  \* what read_clang_targets will return, "nullopt" if nothing
  warnings,  \* how often the error stream has been written to
  section,   \* how much of clang's list is in the output
  failure    \* the step that has failed: history, for the properties

listVars == <<at, temp, contents, warnings, section, failure>>

Amounts == {"nothing", "part", "whole"}

Init ==
  /\ at = "native" /\ temp = "absent" /\ contents = "nullopt"
  /\ warnings = 0 /\ section = "nothing" /\ failure = "none"

Goto(step) == at' = step

(* return std::nullopt after a warning; a FileRemover may have a file to   *)
(* remove.                                                                 *)
Warn == Goto("remove") /\ warnings' = warnings + 1

WriteNativeTargets ==
  /\ at = "native"
  /\ Goto("find")
  /\ UNCHANGED <<temp, contents, warnings, section, failure>>

(* Without clang there is nothing to say. *)
FindClang ==
  /\ at = "find"
  /\ \/ Goto("create") /\ UNCHANGED failure
     \/ Goto("section") /\ failure' = "find"
  /\ UNCHANGED <<temp, contents, warnings, section>>

CreateTemporaryFile ==
  /\ at = "create"
  /\ \/ temp' = "nothing" /\ Goto("execute") /\ UNCHANGED <<warnings, failure>>
     \/ Warn /\ failure' = "create" /\ UNCHANGED temp
  /\ UNCHANGED <<contents, section>>

(* Variant: the exit code is not looked at. *)
ExecutionFailedAlone(execution_failed, exit_code) == execution_failed

ExecutionFailed(execution_failed, exit_code) == execution_failed \/ exit_code # 0

(* clang's standard output is the temporary file; it exits with 0 once its *)
(* list is printed.                                                        *)
ExecuteAndWait ==
  /\ at = "execute"
  /\ \E execution_failed \in BOOLEAN, exit_code \in {0, 1}, printed \in Amounts :
       /\ execution_failed => printed = "nothing"
       /\ ~execution_failed /\ exit_code = 0 => printed = "whole"
       /\ temp' = printed
       /\ failure' = IF execution_failed \/ exit_code # 0 THEN "execute" ELSE "none"
       /\ IF ExecutionFailed(execution_failed, exit_code)
            THEN Warn
            ELSE Goto("open") /\ UNCHANGED warnings
  /\ UNCHANGED <<contents, section>>

OpenOutput ==
  /\ at = "open"
  /\ \/ Goto("read") /\ UNCHANGED <<warnings, failure>>
     \/ Warn /\ failure' = "open"
  /\ UNCHANGED <<temp, contents, section>>

(* contents << clang_output.rdbuf() moves characters from buffer to        *)
(* buffer: a read that fails is seen by contents, while the test of        *)
(* clang_output.bad() that follows never holds.                            *)
Read ==
  /\ at = "read"
  /\ \E read \in {temp} \cup {"nothing", "part"} :
       /\ contents' = read
       /\ failure' = IF read = temp THEN failure ELSE "read"
  /\ Goto("remove")
  /\ UNCHANGED <<temp, warnings, section>>

(* read_clang_targets returns. *)
RemoveOutput ==
  /\ at = "remove"
  /\ temp' = "absent"
  /\ Goto("section")
  /\ UNCHANGED <<contents, warnings, section, failure>>

(* An empty list has no section. *)
WriteSection ==
  /\ at = "section"
  /\ section' = IF contents = "nullopt" THEN "nothing" ELSE contents
  /\ Goto("done")
  /\ UNCHANGED <<temp, contents, warnings, failure>>

Next ==
  \/ WriteNativeTargets \/ FindClang \/ CreateTemporaryFile \/ ExecuteAndWait
  \/ OpenOutput \/ Read \/ RemoveOutput \/ WriteSection

-----------------------------------------------------------------------------
(* One warning for whatever goes wrong with a clang that is there, none    *)
(* otherwise; its section is all of its list or is left out; the temporary *)
(* file is gone.  A read of that file that fails is the exception.         *)
ListIsHonest ==
  at = "done" =>
    /\ temp = "absent"
    /\ failure \in {"create", "execute", "open"} => warnings = 1 /\ section = "nothing"
    /\ failure = "find" => warnings = 0 /\ section = "nothing"
    /\ failure = "none" => warnings = 0 /\ section = "whole"
=============================================================================
