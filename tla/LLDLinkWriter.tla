---------------------------- MODULE LLDLinkWriter ----------------------------
(***************************************************************************)
(* LLDLinkWriter::write of src/bfc/llvm/lld_link_writer.cpp, called any    *)
(* number of times by several threads of one process.  A call owns its     *)
(* temporary files through llvm::FileRemover objects, which remove them in *)
(* reverse order when their scope ends, by return or by exception; LLD     *)
(* itself is entered under lld_mutex, and never again once it has said     *)
(* that it cannot run again.  Every step that can fail may fail here.      *)
(***************************************************************************)
EXTENDS Integers, Sequences, SequencesExt, FiniteSets

CONSTANTS
  Writers,   \* the threads that call write, one module each
  Linux,     \* those whose target is Linux
  Windows,   \* those whose target is x86_64 Windows: they need an import library
  Paths,     \* the names createTemporaryFile can choose from
  NoWriter
ASSUME WritersAssumption ==
  /\ Linux \subseteq Writers /\ Windows \subseteq Writers
  /\ Linux \cap Windows = {}
  /\ Writers \cap {NoWriter, "nothing", "partial"} = {}

VARIABLES
  pc,           \* pc[w]: where the call of w is, "idle" outside of any
  removers,     \* removers[w]: files of w's FileRemovers: object, executable, library
  outcome,      \* outcome[w]: how the last call of w ends or ended, "none" before that
  output,       \* output[w]: what the last call of w put in its output stream
  files,        \* files[p]: the content of a temporary file, Absent without one
  lld_mutex,    \* the writer that holds it
  can_run_lld

vars == <<pc, removers, outcome, output, files, lld_mutex, can_run_lld>>

Absent == [is |-> "absent", of |-> NoWriter]
File(kind, w) == [is |-> kind, of |-> w]
Kinds == {"empty", "partial", "object", "library", "executable"}
Exists(p) == files[p] # Absent

ObjectFile(w) == removers[w][1]
ExecutableFile(w) == removers[w][2]
LibraryFile(w) == removers[w][3]

Goto(w, label) == pc' = [pc EXCEPT ![w] = label]

(* An exception: the rest of write is skipped, the scopes are left. *)
Throw(w) ==
  /\ outcome' = [outcome EXCEPT ![w] = "thrown"]
  /\ Goto(w, "unwind")

-----------------------------------------------------------------------------
Init ==
  /\ pc = [w \in Writers |-> "idle"]
  /\ removers = [w \in Writers |-> <<>>]
  /\ outcome = [w \in Writers |-> "none"]
  /\ output = [w \in Writers |-> "nothing"]
  /\ files = [p \in Paths |-> Absent]
  /\ lld_mutex = NoWriter
  /\ can_run_lld = TRUE

(* write() is called with a fresh output stream. *)
Call(w) ==
  /\ pc[w] = "idle"
  /\ Goto(w, "object")
  /\ outcome' = [outcome EXCEPT ![w] = "none"]
  /\ output' = [output EXCEPT ![w] = "nothing"]
  /\ UNCHANGED <<removers, files, lld_mutex, can_run_lld>>

(* create_temporary_file picks a name no file has, or fails; the file is   *)
(* put under a FileRemover.                                                *)
CreateTemporaryFile(w, here, there) ==
  /\ pc[w] = here
  /\ \/ /\ \E p \in Paths :
             /\ ~Exists(p)
             /\ files' = [files EXCEPT ![p] = File("empty", w)]
             /\ removers' = [removers EXCEPT ![w] = Append(@, p)]
        /\ Goto(w, there)
        /\ UNCHANGED outcome
     \/ Throw(w) /\ UNCHANGED <<files, removers>>
  /\ UNCHANGED <<output, lld_mutex, can_run_lld>>

(* Variant: every target links against an import library. *)
AfterObjectAlways(w) == IF w \in Linux \cup Windows THEN "library" ELSE "unsupported"

(* link_executable *)
AfterObject(w) ==
  IF w \in Linux THEN "lock" ELSE IF w \in Windows THEN "library" ELSE "unsupported"

CreateObject(w) == CreateTemporaryFile(w, "object", "executable")
CreateExecutable(w) == CreateTemporaryFile(w, "executable", "write")
CreateLibrary(w) == CreateTemporaryFile(w, "library", "import")

(* Variant: the stream is not looked at after it was closed. *)
WriteFileUnchecked(w, here, p, kind, there) ==
  /\ pc[w] = here
  /\ \E content \in {kind, "partial"} : files' = [files EXCEPT ![p] = File(content, w)]
  /\ Goto(w, there)
  /\ UNCHANGED <<removers, outcome, output, lld_mutex, can_run_lld>>

(* write_object and write_windows_import_library: the whole file, or an    *)
(* exception that leaves nothing or a part of it.                          *)
WriteFile(w, here, p, kind, there) ==
  /\ pc[w] = here
  /\ \/ files' = [files EXCEPT ![p] = File(kind, w)] /\ Goto(w, there) /\ UNCHANGED outcome
     \/ files' \in {files, [files EXCEPT ![p] = File("partial", w)]} /\ Throw(w)
  /\ UNCHANGED <<removers, output, lld_mutex, can_run_lld>>

WriteObject(w) == WriteFile(w, "write", ObjectFile(w), "object", AfterObject(w))
WriteImportLibrary(w) == WriteFile(w, "import", LibraryFile(w), "library", "lock")

(* link_executable knows only the two. *)
UnsupportedTarget(w) ==
  /\ pc[w] = "unsupported"
  /\ Throw(w)
  /\ UNCHANGED <<removers, output, files, lld_mutex, can_run_lld>>

(* Variant: run_lld does not take the mutex. *)
LockNothing(w) ==
  /\ pc[w] = "lock"
  /\ Goto(w, "check")
  /\ UNCHANGED <<removers, outcome, output, files, lld_mutex, can_run_lld>>

(* std::lock_guard lock(lld_mutex) *)
Lock(w) ==
  /\ pc[w] = "lock" /\ lld_mutex = NoWriter
  /\ lld_mutex' = w
  /\ Goto(w, "check")
  /\ UNCHANGED <<removers, outcome, output, files, can_run_lld>>

(* Variants: the flag is not looked at; the exception leaves the mutex     *)
(* locked.                                                                 *)
CheckNothing(w) ==
  /\ pc[w] = "check"
  /\ Goto(w, "lldMain")
  /\ UNCHANGED <<removers, outcome, output, files, lld_mutex, can_run_lld>>
CheckKeepsMutex(w) ==
  /\ pc[w] = "check"
  /\ IF can_run_lld
       THEN Goto(w, "lldMain") /\ UNCHANGED outcome
       ELSE Throw(w)
  /\ UNCHANGED <<removers, output, files, lld_mutex, can_run_lld>>

(* if (!can_run_lld) throw *)
CheckCanRun(w) ==
  /\ pc[w] = "check"
  /\ IF can_run_lld
       THEN Goto(w, "lldMain") /\ UNCHANGED <<outcome, lld_mutex>>
       ELSE Throw(w) /\ lld_mutex' = NoWriter
  /\ UNCHANGED <<removers, output, files, can_run_lld>>

(* What lldMain needs to link: the files its arguments name, complete. *)
InputsComplete(w) ==
  /\ files[ObjectFile(w)].is = "object"
  /\ w \in Windows => files[LibraryFile(w)].is = "library"

(* Variant: the caller goes on whatever LLD returned. *)
LinkedWhatever(retCode, canRunAgain) == TRUE

(* The result of lldMain is an executable. *)
Linked(retCode, canRunAgain) == canRunAgain /\ retCode = 0

(* Variant: a failed link is tried again. *)
NotLinkedRetries(w) == Goto(w, "lldMain") /\ UNCHANGED outcome

NotLinked(w) == Throw(w)

(* lldMain returns: the executable of the object it was given, or a        *)
(* failure that may leave a part of one, after which it may be unable to   *)
(* run again.  The mutex is released when run_lld returns or throws.       *)
LldMain(w) ==
  /\ pc[w] = "lldMain"
  /\ \E retCode \in {0, 1}, canRunAgain \in BOOLEAN :
       /\ retCode = 0 => InputsComplete(w)
       /\ can_run_lld' = canRunAgain
       /\ IF retCode = 0
            THEN files' = [files EXCEPT ![ExecutableFile(w)] =
                             File("executable", files[ObjectFile(w)].of)]
            ELSE files' \in {files, [files EXCEPT ![ExecutableFile(w)] = File("partial", w)]}
       /\ IF Linked(retCode, canRunAgain)
            THEN Goto(w, "linked") /\ UNCHANGED outcome
            ELSE NotLinked(w)
  /\ lld_mutex' = NoWriter
  /\ UNCHANGED <<removers, output>>

(* The last FileRemover of w removes its file. *)
RemoveLast(w) ==
  /\ files' = [files EXCEPT ![Last(removers[w])] = Absent]
  /\ removers' = [removers EXCEPT ![w] = Front(@)]

(* Variant: the import library has no FileRemover. *)
LeaveLinkerKeepsLibrary(w) ==
  /\ pc[w] = "linked"
  /\ Goto(w, "copy")
  /\ removers' = [removers EXCEPT ![w] = SubSeq(@, 1, 2)]
  /\ UNCHANGED <<outcome, output, files, lld_mutex, can_run_lld>>

(* link_elf or link_coff returns; the latter's scope owned the library. *)
LeaveLinker(w) ==
  /\ pc[w] = "linked"
  /\ Goto(w, "copy")
  /\ IF w \in Windows THEN RemoveLast(w) ELSE UNCHANGED <<files, removers>>
  /\ UNCHANGED <<outcome, output, lld_mutex, can_run_lld>>

(* copy_executable: the whole file to the output stream, or an exception.  *)
CopyExecutable(w) ==
  /\ pc[w] = "copy"
  /\ \/ /\ output' = [output EXCEPT ![w] =
              IF files[ExecutableFile(w)].is = "executable"
                THEN files[ExecutableFile(w)].of ELSE "partial"]
        /\ outcome' = [outcome EXCEPT ![w] = "returned"]
        /\ Goto(w, "unwind")
     \/ \E written \in {"nothing", "partial"} :
          output' = [output EXCEPT ![w] = written] /\ Throw(w)
  /\ UNCHANGED <<removers, files, lld_mutex, can_run_lld>>

(* The scopes of write (and after an exception of link_coff) end. *)
Unwind(w) ==
  /\ pc[w] = "unwind" /\ removers[w] # <<>>
  /\ RemoveLast(w)
  /\ UNCHANGED <<pc, outcome, output, lld_mutex, can_run_lld>>

Leave(w) ==
  /\ pc[w] = "unwind" /\ removers[w] = <<>>
  /\ Goto(w, "idle")
  /\ UNCHANGED <<removers, outcome, output, files, lld_mutex, can_run_lld>>

Step(w) ==
  \/ CreateObject(w) \/ CreateExecutable(w) \/ WriteObject(w)
  \/ UnsupportedTarget(w) \/ CreateLibrary(w) \/ WriteImportLibrary(w)
  \/ Lock(w) \/ CheckCanRun(w) \/ LldMain(w) \/ LeaveLinker(w)
  \/ CopyExecutable(w) \/ Unwind(w) \/ Leave(w)

Next == \E w \in Writers : Call(w) \/ Step(w)

Spec == Init /\ [][Next]_vars

(* Every thread runs and lldMain returns.  std::mutex promises no turn to  *)
(* a thread that waits for it, so nothing stronger is assumed of Lock.     *)
FairSpec == Spec /\ \A w \in Writers : WF_vars(Step(w))

-----------------------------------------------------------------------------
Labels == {"idle", "object", "executable", "write", "unsupported", "library", "import",
           "lock", "check", "lldMain", "linked", "copy", "unwind"}

(* Types; a call owns an object and an executable file, and an import      *)
(* library only when it links for Windows.                                 *)
TypeOK ==
  /\ pc \in [Writers -> Labels]
  /\ removers \in [Writers -> Seq(Paths)]
  /\ \A w \in Writers : Len(removers[w]) <= IF w \in Windows THEN 3 ELSE 2
  /\ outcome \in [Writers -> {"none", "returned", "thrown"}]
  /\ output \in [Writers -> {"nothing", "partial"} \cup Writers]
  /\ files \in [Paths -> {Absent} \cup [is : Kinds, of : Writers]]
  /\ lld_mutex \in Writers \cup {NoWriter}
  /\ can_run_lld \in BOOLEAN

(* Every temporary file that exists has exactly one FileRemover, of a call *)
(* that has not ended: whatever fails, and however calls interleave, no    *)
(* call leaves a file behind and none removes a file of another.           *)
FilesAreGuarded ==
  /\ \A p \in Paths : Exists(p) <=> \E w \in Writers : p \in Range(removers[w])
  /\ \A v, w \in Writers : \A i \in DOMAIN removers[v], j \in DOMAIN removers[w] :
       removers[v][i] = removers[w][j] => v = w /\ i = j
  /\ \A w \in Writers : pc[w] = "idle" => removers[w] = <<>>

(* LLD's global state is used by one thread at a time, the one that holds  *)
(* lld_mutex.                                                              *)
OneLinkerAtATime ==
  \A w \in Writers : pc[w] \in {"check", "lldMain"} => lld_mutex = w

(* Once LLD cannot run again it is not entered again. *)
NeverAfterFailure ==
  (\E w \in Writers : pc[w] = "lldMain") => can_run_lld

(* While LLD runs for a writer, the files it was given are those this      *)
(* writer wrote, complete.                                                 *)
InputsStayWhole ==
  \A w \in Writers : pc[w] = "lldMain" =>
    /\ files[ObjectFile(w)] = File("object", w)
    /\ files[ExecutableFile(w)].of = w
    /\ w \in Windows => files[LibraryFile(w)] = File("library", w)

(* write returns without an exception only when its output stream holds    *)
(* the complete executable of its own module.                              *)
ReturnMeansOwnExecutable ==
  \A w \in Writers : pc[w] = "unwind" /\ outcome[w] = "returned" => output[w] = w

(* No thread keeps the mutex for ever. *)
MutexIsReleased == []<>(lld_mutex = NoWriter)

(* A call that does not wait for the mutex ends, by return or exception. *)
CallsEnd ==
  \A w \in Writers : pc[w] \notin {"idle", "lock"} ~> pc[w] \in {"idle", "lock"}

W == INSTANCE ArtifactWriter WITH
  Callers <- Writers,
  TemporaryFiles <- Paths,
  call <- [w \in Writers |-> IF pc[w] = "idle" THEN outcome[w] ELSE "running"],
  result <- output,
  held <- [w \in Writers |-> {p \in Paths : files[p].of = w}],
  left <- {}

(* What main expects of a writer. *)
ImplementsArtifactWriter == W!Spec
=============================================================================
