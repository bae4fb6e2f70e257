---------------------------- MODULE ArtifactWriter ----------------------------
(***************************************************************************)
(* What main expects of ArtifactWriter::write where an executable is       *)
(* linked: a call returns with the executable of its own module in its     *)
(* output stream, or throws; its temporary files are its own while it runs *)
(* and gone when it ends.  Only a caller that is killed leaves files, and  *)
(* nobody touches those.                                                   *)
(***************************************************************************)
CONSTANTS Callers, TemporaryFiles

VARIABLES
  call,    \* call[c]: "none", "running", "returned", "thrown" or "killed"
  result,  \* result[c]: in the output stream: "nothing", "partial" or whose executable
  held,    \* held[c]: the temporary files of c's call
  left     \* the temporary files of the dead

writerVars == <<call, result, held, left>>

Init ==
  /\ call = [c \in Callers |-> "none"]
  /\ result = [c \in Callers |-> "nothing"]
  /\ held = [c \in Callers |-> {}]
  /\ left = {}

Begin(c) ==
  /\ call[c] \notin {"running", "killed"}
  /\ call' = [call EXCEPT ![c] = "running"]
  /\ result' = [result EXCEPT ![c] = "nothing"]
  /\ UNCHANGED <<held, left>>

(* The linker of a caller that has been killed may still be at work.       *)
Create(c, f) ==
  /\ call[c] \in {"running", "killed"}
  /\ f \notin left /\ \A d \in Callers : f \notin held[d]
  /\ held' = [held EXCEPT ![c] = @ \cup {f}]
  /\ UNCHANGED <<call, result, left>>

Remove(c, f) ==
  /\ call[c] \in {"running", "killed"} /\ f \in held[c]
  /\ held' = [held EXCEPT ![c] = @ \ {f}]
  /\ UNCHANGED <<call, result, left>>

Deliver(c) ==
  /\ call[c] = "running" /\ result[c] = "nothing"
  /\ \E r \in {"partial", c} : result' = [result EXCEPT ![c] = r]
  /\ UNCHANGED <<call, held, left>>

(* An exception is the only end of a call without a result of its own.     *)
End(c) ==
  /\ call[c] = "running" /\ held[c] = {}
  /\ call' = [call EXCEPT ![c] = IF result[c] = c THEN "returned" ELSE "thrown"]
  /\ UNCHANGED <<result, held, left>>

Kill(c) ==
  /\ call[c] = "running"
  /\ call' = [call EXCEPT ![c] = "killed"]
  /\ UNCHANGED <<result, held, left>>

Bury(c) ==
  /\ call[c] = "killed"
  /\ call' = [call EXCEPT ![c] = "none"]
  /\ left' = left \cup held[c]
  /\ held' = [held EXCEPT ![c] = {}]
  /\ result' = [result EXCEPT ![c] = "nothing"]

Next ==
  \E c \in Callers :
    \/ Begin(c) \/ Deliver(c) \/ End(c) \/ Kill(c) \/ Bury(c)
    \/ \E f \in TemporaryFiles : Create(c, f) \/ Remove(c, f)

Spec == Init /\ [][Next]_writerVars
=============================================================================
