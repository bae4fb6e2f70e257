-------------------------- MODULE ExternalLinkWriter --------------------------
(***************************************************************************)
(* ExternalLinkWriter::write of src/bfc/llvm/external_link_writer.cpp, in  *)
(* several processes that share a temporary directory.  clang is a child   *)
(* process: it reads the module's text, replaces the file of its -o and    *)
(* ends with an exit code.  A process may be killed at any moment and then *)
(* removes nothing; its clang goes on.  A process id, which is part of the *)
(* names of the temporary files, is not given again before that clang has  *)
(* ended.                                                                  *)
(***************************************************************************)
EXTENDS Integers, Sequences, SequencesExt, FiniteSets

CONSTANTS
  Processes,  \* the processes, by their ids
  Names,      \* Names[p]: the random part of the names p's createTemporaryFile chooses from
  Functions,  \* the library functions that the modules call, and then declare
  Nobody,
  MaxLeft     \* bound: nobody is killed while the dead have left more files
ASSUME ProcessesAssumption == Processes \cap {Nobody, "nothing", "partial"} = {}
ASSUME FunctionsAssumption == IsFiniteSet(Functions) /\ Functions \cap {"tape", "main"} = {}
ASSUME MaxLeftAssumption == MaxLeft \in Nat

VARIABLES
  pc,        \* pc[p]: where the call of p is, "idle" outside of any
  removers,  \* removers[p]: the files of its FileRemovers: artifact, executable
  outcome,   \* outcome[p]: how its last call ends or has ended
  output,    \* output[p]: what that call has put in its output stream
  files,     \* files[f]: the content of a file, and whose it is
  clang      \* clang[p]: what the clang of p does, an exit code once it has ended

vars == <<pc, removers, outcome, output, files, clang>>

Paths == UNION {{p} \X Names[p] : p \in Processes}
Absent == [is |-> "absent", of |-> Nobody, text |-> <<>>]
File(kind, p) == [is |-> kind, of |-> p, text |-> <<>>]
Exists(f) == files[f] # Absent

Artifact(p) == removers[p][1]
Executable(p) == removers[p][2]

Goto(p, label) == pc' = [pc EXCEPT ![p] = label]
Throw(p) == outcome' = [outcome EXCEPT ![p] = "thrown"] /\ Goto(p, "unwind")

-----------------------------------------------------------------------------
(* IRWriter prints the globals, then the functions in the order in which   *)
(* IRGenerator has made them; a stream that fails loses the rest of the    *)
(* text, perhaps in the middle of one of them.                             *)
Text == <<"tape", "main">> \o SetToSeq(Functions)
Written == {SubSeq(Text, 1, n) : n \in 0..Len(Text)}
Torn == <<"torn">>

(* Variant: "-shared", for which no main is missing. *)
CompilesShared(text) ==
  text # Torn /\ ("main" \in Range(text) => Functions \cup {"tape"} \subseteq Range(text))

(* What clang makes an executable of with "-static": a text that parses,   *)
(* in which nothing is missing, not even main for the startup code of C.   *)
Compiles(text) ==
  /\ text # Torn
  /\ "main" \in Range(text)
  /\ Functions \cup {"tape"} \subseteq Range(text)

-----------------------------------------------------------------------------
Init ==
  /\ pc = [p \in Processes |-> "idle"]
  /\ removers = [p \in Processes |-> <<>>]
  /\ outcome = [p \in Processes |-> "none"]
  /\ output = [p \in Processes |-> "nothing"]
  /\ files = [f \in Paths |-> Absent]
  /\ clang = [p \in Processes |-> "none"]

Call(p) ==
  /\ pc[p] = "idle"
  /\ Goto(p, "artifact")
  /\ outcome' = [outcome EXCEPT ![p] = "none"]
  /\ output' = [output EXCEPT ![p] = "nothing"]
  /\ UNCHANGED <<removers, files, clang>>

(* Variant: the prefix has no process id. *)
PrefixedByNothing(p) == CHOOSE q \in Processes : TRUE

Prefix(p) == p

(* create_temporary_file picks a name no file has, or fails. *)
CreateTemporaryFile(p, here, there) ==
  /\ pc[p] = here
  /\ \/ /\ \E f \in Paths :
             /\ f[1] = Prefix(p) /\ ~Exists(f)
             /\ files' = [files EXCEPT ![f] = File("empty", p)]
             /\ removers' = [removers EXCEPT ![p] = Append(@, f)]
        /\ Goto(p, there)
        /\ UNCHANGED outcome
     \/ Throw(p) /\ UNCHANGED <<files, removers>>
  /\ UNCHANGED <<output, clang>>

CreateArtifact(p) == CreateTemporaryFile(p, "artifact", "executable")
CreateExecutable(p) == CreateTemporaryFile(p, "executable", "write")

(* write_artifact; nobody looks at the stream once it has been opened.     *)
WriteArtifact(p) ==
  /\ pc[p] = "write"
  /\ \/ \E text \in Written \cup {Torn} :
          /\ files' = [files EXCEPT ![Artifact(p)] = [is |-> "IR", of |-> p, text |-> text]]
          /\ Goto(p, "link") /\ UNCHANGED outcome
     \/ Throw(p) /\ UNCHANGED files
  /\ UNCHANGED <<removers, output, clang>>

(* Variant: nobody waits for clang. *)
ExecuteNoWait(p) ==
  /\ pc[p] = "link"
  /\ clang' = [clang EXCEPT ![p] = "compiling"]
  /\ Goto(p, "copy")
  /\ UNCHANGED <<removers, outcome, output, files>>

(* findProgramByName and ExecuteAndWait, which may not find clang or not   *)
(* be able to start it.                                                    *)
ExecuteClang(p) ==
  /\ pc[p] = "link"
  /\ \/ /\ clang' = [clang EXCEPT ![p] = "compiling"]
        /\ Goto(p, "wait") /\ UNCHANGED outcome
     \/ Throw(p) /\ UNCHANGED clang
  /\ UNCHANGED <<removers, output, files>>

(* Variant: the exit code is not looked at. *)
LinkedWhatever(exit_code) == TRUE

Linked(exit_code) == exit_code = "0"

(* Variant: a failed clang is started again. *)
NotLinkedRetries(p) == Goto(p, "link") /\ UNCHANGED outcome

NotLinked(p) == Throw(p)

WaitForClang(p) ==
  /\ pc[p] = "wait" /\ clang[p] \in {"0", "1"}
  /\ clang' = [clang EXCEPT ![p] = "none"]
  /\ IF Linked(clang[p]) THEN Goto(p, "copy") /\ UNCHANGED outcome ELSE NotLinked(p)
  /\ UNCHANGED <<removers, output, files>>

(* copy_executable: the whole file to the output stream, or an exception.  *)
CopyExecutable(p) ==
  /\ pc[p] = "copy"
  /\ \/ /\ output' = [output EXCEPT ![p] =
              IF files[Executable(p)].is = "executable" THEN files[Executable(p)].of
              ELSE "partial"]
        /\ outcome' = [outcome EXCEPT ![p] = "returned"]
        /\ Goto(p, "unwind")
     \/ \E written \in {"nothing", "partial"} :
          output' = [output EXCEPT ![p] = written] /\ Throw(p)
  /\ UNCHANGED <<removers, files, clang>>

(* The last FileRemover removes its file, if it is there. *)
Unwind(p) ==
  /\ pc[p] = "unwind" /\ removers[p] # <<>>
  /\ files' = [files EXCEPT ![Last(removers[p])] = Absent]
  /\ removers' = [removers EXCEPT ![p] = Front(@)]
  /\ UNCHANGED <<pc, outcome, output, clang>>

Leave(p) ==
  /\ pc[p] = "unwind" /\ removers[p] = <<>>
  /\ Goto(p, "idle")
  /\ UNCHANGED <<removers, outcome, output, files, clang>>

-----------------------------------------------------------------------------
(* The linker removes the file at its output path before it makes another. *)
ClangReplaces(p) ==
  /\ clang[p] = "compiling"
  /\ Compiles(files[Artifact(p)].text)
  /\ clang' = [clang EXCEPT ![p] = "linking"]
  /\ files' = [files EXCEPT ![Executable(p)] = Absent]
  /\ UNCHANGED <<pc, removers, outcome, output>>

ClangLinks(p) ==
  /\ clang[p] = "linking"
  /\ \/ /\ files' = [files EXCEPT ![Executable(p)] =
              File("executable", files[Artifact(p)].of)]
        /\ clang' = [clang EXCEPT ![p] = "0"]
     \/ /\ files' = [files EXCEPT ![Executable(p)] = File("partial", p)]
        /\ clang' = [clang EXCEPT ![p] = "failing"]
  /\ UNCHANGED <<pc, removers, outcome, output>>

(* A clang that fails may remove its result. *)
ClangFails(p) ==
  /\ clang[p] \in {"compiling", "linking", "failing"}
  /\ clang' = [clang EXCEPT ![p] = "1"]
  /\ files' \in {files, [files EXCEPT ![Executable(p)] = Absent]}
  /\ UNCHANGED <<pc, removers, outcome, output>>

LeftFiles == {f \in Paths : Exists(f) /\ files[f].of = Nobody}

(* The process is killed, which none of its destructors notice. *)
Kill(p) ==
  /\ pc[p] \notin {"idle", "dead"} /\ Cardinality(LeftFiles) <= MaxLeft
  /\ Goto(p, "dead")
  /\ UNCHANGED <<removers, outcome, output, files, clang>>

(* What it leaves is nobody's, whatever is in it; its id may be given to a *)
(* new process.                                                            *)
Bury(p) ==
  /\ pc[p] = "dead" /\ clang[p] \in {"none", "0", "1"}
  /\ Goto(p, "idle")
  /\ outcome' = [outcome EXCEPT ![p] = "none"]
  /\ clang' = [clang EXCEPT ![p] = "none"]
  /\ removers' = [removers EXCEPT ![p] = <<>>]
  /\ output' = [output EXCEPT ![p] = "nothing"]
  /\ files' = [f \in Paths |-> IF files[f].of = p THEN File("left", Nobody) ELSE files[f]]

Step(p) ==
  \/ CreateArtifact(p) \/ CreateExecutable(p) \/ WriteArtifact(p) \/ ExecuteClang(p)
  \/ WaitForClang(p) \/ CopyExecutable(p) \/ Unwind(p) \/ Leave(p)
ClangStep(p) == ClangReplaces(p) \/ ClangLinks(p) \/ ClangFails(p)

Next ==
  \E p \in Processes : Call(p) \/ Step(p) \/ ClangStep(p) \/ Kill(p) \/ Bury(p)

Spec == Init /\ [][Next]_vars

(* A process runs and its clang ends. *)
FairSpec ==
  /\ Spec
  /\ \A p \in Processes : WF_vars(Step(p)) /\ WF_vars(ClangStep(p)) /\ WF_vars(Bury(p))

-----------------------------------------------------------------------------
Labels == {"idle", "artifact", "executable", "write", "link", "wait", "copy", "unwind", "dead"}

TypeOK ==
  /\ pc \in [Processes -> Labels]
  /\ \A p \in Processes : removers[p] \in Seq(Paths) /\ Len(removers[p]) <= 2
  /\ outcome \in [Processes -> {"none", "returned", "thrown"}]
  /\ output \in [Processes -> {"nothing", "partial"} \cup Processes]
  /\ \A f \in Paths :
       /\ files[f].is \in {"absent", "empty", "IR", "partial", "executable", "left"}
       /\ files[f].of \in Processes \cup {Nobody}
  /\ clang \in [Processes -> {"none", "compiling", "linking", "failing", "0", "1"}]
  /\ \A p \in Processes : clang[p] # "none" => pc[p] \in {"wait", "dead"}

(* What a FileRemover of a process, or its clang, finds at a path is its   *)
(* own file or none, never one that a dead process has left: a name that   *)
(* exists is not drawn again, and although the linker gives that of the    *)
(* executable free for a moment, no other process can take it, for its     *)
(* names have another id in them.                                          *)
FilesStayOwn ==
  \A p \in Processes : \A i \in DOMAIN removers[p] :
    LET f == removers[p][i] IN files[f] = Absent \/ files[f].of = p

(* The clang of p is given all of p's module or fails: the text that is    *)
(* lost by the stream nobody looks at is missed by clang.                  *)
LinksWholeModule ==
  \A p \in Processes : clang[p] \in {"linking", "0"} =>
    files[Artifact(p)].text = Text

W == INSTANCE ArtifactWriter WITH
  Callers <- Processes,
  TemporaryFiles <- Paths,
  call <- [p \in Processes |->
             CASE pc[p] = "idle" -> outcome[p] [] pc[p] = "dead" -> "killed" [] OTHER -> "running"],
  result <- output,
  held <- [p \in Processes |-> {f \in Paths : files[f].of = p}],
  left <- LeftFiles

(* What main expects of a writer. *)
ImplementsArtifactWriter == W!Spec

(* clang has no time limit, but once it ends so does the call. *)
CallsEnd == \A p \in Processes : pc[p] # "idle" ~> pc[p] = "idle"
=============================================================================
