----------------------- MODULE LLDLinkWriterRefinement -----------------------
(***************************************************************************)
(* LLDLinkWriter implements ArtifactWriter for any number of threads,      *)
(* targets and names of temporary files.                                   *)
(***************************************************************************)
EXTENDS LLDLinkWriterProofs

-----------------------------------------------------------------------------
(* A file that a FileRemover of w owns is written by w, or by LLD for w.   *)

Owned(rem, con) ==
  \A w \in Writers, p \in Paths : Owns(rem, w, p) => con[p].of = w

LEMMA OwnedWrite ==
  ASSUME NEW rem \in [Writers -> Seq(Paths)], NEW con, con = [p \in Paths |-> con[p]],
         Guarded(rem, con), Owned(rem, con),
         NEW w \in Writers, NEW q \in Paths, Owns(rem, w, q), NEW c, c.of = w
  PROVE  Owned(rem, [con EXCEPT ![q] = c])
<1> SUFFICES ASSUME NEW v \in Writers, NEW p \in Paths, Owns(rem, v, p)
             PROVE  [con EXCEPT ![q] = c][p].of = v
  BY DEF Owned
<1>1. CASE p = q
  <2>1. v = w
    BY <1>1 DEF Guarded, Owns
  <2> QED
    BY <1>1, <2>1
<1>2. CASE p # q
  BY <1>2 DEF Owned
<1> QED
  BY <1>1, <1>2

LEMMA OwnedCreate ==
  ASSUME NEW rem \in [Writers -> Seq(Paths)], NEW con, con = [p \in Paths |-> con[p]],
         Guarded(rem, con), Owned(rem, con),
         NEW w \in Writers, NEW q \in Paths, con[q] = Absent, NEW c, c.of = w
  PROVE  Owned([rem EXCEPT ![w] = Append(@, q)], [con EXCEPT ![q] = c])
<1> DEFINE new == [rem EXCEPT ![w] = Append(@, q)]
<1> SUFFICES ASSUME NEW v \in Writers, NEW p \in Paths, Owns(new, v, p)
             PROVE  [con EXCEPT ![q] = c][p].of = v
  BY DEF Owned
<1>1. Owns(rem, v, p) \/ (v = w /\ p = q)
  <2>1. CASE v # w
    BY <2>1 DEF Owns
  <2>2. CASE v = w
    <3>1. new[w] = Append(rem[w], q) /\ rem[w] \in Seq(Paths)
      OBVIOUS
    <3>2. /\ Len(new[w]) = Len(rem[w]) + 1 /\ Len(rem[w]) \in Nat
          /\ new[w][Len(rem[w]) + 1] = q
          /\ \A i \in 1 .. Len(rem[w]) : new[w][i] = rem[w][i]
      BY <3>1, Appended, LenProperties
    <3>3. PICK i \in 1 .. Len(new[w]) : new[w][i] = p
      BY <2>2 DEF Owns
    <3>4. i \in 1 .. Len(rem[w]) \/ i = Len(rem[w]) + 1
      BY <3>2, <3>3
    <3> QED
      BY <2>2, <3>2, <3>3, <3>4 DEF Owns
  <2> QED
    BY <2>1, <2>2
<1>2. ~Owns(rem, v, q)
  BY DEF Guarded
<1> QED
  BY <1>1, <1>2 DEF Owned

LEMMA OwnedRemove ==
  ASSUME NEW rem \in [Writers -> Seq(Paths)], NEW con, con = [p \in Paths |-> con[p]],
         Guarded(rem, con), Owned(rem, con),
         NEW w \in Writers, rem[w] # <<>>, NEW c
  PROVE  Owned([rem EXCEPT ![w] = Front(@)], [con EXCEPT ![Last(rem[w])] = c])
<1> DEFINE new == [rem EXCEPT ![w] = Front(@)]
           q == Last(rem[w])
<1>1. /\ Len(rem[w]) \in Nat \ {0}
      /\ Len(Front(rem[w])) = Len(rem[w]) - 1
      /\ q = rem[w][Len(rem[w])]
      /\ \A i \in 1 .. Len(rem[w]) - 1 : Front(rem[w])[i] = rem[w][i]
  BY WithoutLast
<1> SUFFICES ASSUME NEW v \in Writers, NEW p \in Paths, Owns(new, v, p)
             PROVE  [con EXCEPT ![q] = c][p].of = v
  BY DEF Owned
<1>2. Owns(rem, v, p) /\ p # q
  <2>1. CASE v # w
    <3>1. Owns(rem, v, p)
      BY <2>1 DEF Owns
    <3>2. Len(rem[w]) \in 1 .. Len(rem[w])
      BY <1>1
    <3> QED
      BY <1>1, <2>1, <3>1, <3>2 DEF Owns, Guarded
  <2>2. CASE v = w
    <3>1. new[w] = Front(rem[w])
      OBVIOUS
    <3>2. PICK i \in 1 .. Len(rem[w]) - 1 : rem[w][i] = p
      BY <1>1, <2>2, <3>1 DEF Owns
    <3>3. i \in 1 .. Len(rem[w]) /\ Len(rem[w]) \in 1 .. Len(rem[w]) /\ i # Len(rem[w])
      BY <1>1, <3>2
    <3> QED
      BY <1>1, <2>2, <3>2, <3>3 DEF Owns, Guarded
  <2> QED
    BY <2>1, <2>2
<1> QED
  BY <1>2 DEF Owned
-----------------------------------------------------------------------------
(* What a step does to the files: nothing, or one of three things to files *)
(* of its own.                                                             *)

WritesOwn(w) ==
  /\ UNCHANGED removers
  /\ \E q \in Paths, kind \in Kinds :
       Owns(removers, w, q) /\ files' = [files EXCEPT ![q] = File(kind, w)]

Creates(w) ==
  \E q \in Paths :
    /\ ~Exists(q)
    /\ files' = [files EXCEPT ![q] = File("empty", w)]
    /\ removers' = [removers EXCEPT ![w] = Append(@, q)]

Removes(w) == removers[w] # <<>> /\ RemoveLast(w)

LEMMA OwnsItsFiles ==
  ASSUME FileInv, NEW w \in Writers
  PROVE  /\ Len(removers[w]) >= 1 => ObjectFile(w) \in Paths /\ Owns(removers, w, ObjectFile(w))
         /\ Len(removers[w]) >= 2 =>
              ExecutableFile(w) \in Paths /\ Owns(removers, w, ExecutableFile(w))
         /\ Len(removers[w]) >= 3 => LibraryFile(w) \in Paths /\ Owns(removers, w, LibraryFile(w))
<1>1. removers[w] \in Seq(Paths) /\ Len(removers[w]) \in Nat
  BY LenProperties DEF FileInv, Typed
<1>2. \A i \in 1 .. Len(removers[w]) : removers[w][i] \in Paths
  BY <1>1, ElementOfSeq
<1> QED
  BY <1>1, <1>2 DEF Owns, ObjectFile, ExecutableFile, LibraryFile

LEMMA FileSteps ==
  ASSUME FileInv, NEW w \in Writers, Call(w) \/ Step(w)
  PROVE  UNCHANGED <<removers, files>> \/ WritesOwn(w) \/ Creates(w) \/ Removes(w)
<1>0. Shape(w) /\ Content(w) /\ Len(removers[w]) \in Nat /\ removers[w] \in Seq(Paths)
  BY LenProperties DEF FileInv, Typed
<1>1. CASE Call(w)
  BY <1>1 DEF Call
<1>2. CASE CreateObject(w) \/ CreateExecutable(w) \/ CreateLibrary(w)
  BY <1>2 DEF CreateObject, CreateExecutable, CreateLibrary, CreateTemporaryFile, Creates
<1>3. CASE WriteObject(w)
  <2>1. Len(removers[w]) = 2
    BY <1>0, <1>3 DEF WriteObject, WriteFile, Shape
  <2>2. ObjectFile(w) \in Paths /\ Owns(removers, w, ObjectFile(w))
    BY <2>1, OwnsItsFiles
  <2> QED
    BY <1>3, <2>2 DEF WriteObject, WriteFile, WritesOwn, Kinds
<1>4. CASE WriteImportLibrary(w)
  <2>1. Len(removers[w]) = 3
    BY <1>0, <1>4 DEF WriteImportLibrary, WriteFile, Shape, Most
  <2>2. LibraryFile(w) \in Paths /\ Owns(removers, w, LibraryFile(w))
    BY <2>1, OwnsItsFiles
  <2> QED
    BY <1>4, <2>2 DEF WriteImportLibrary, WriteFile, WritesOwn, Kinds
<1>5. CASE UnsupportedTarget(w) \/ Lock(w) \/ CheckCanRun(w) \/ CopyExecutable(w) \/ Leave(w)
  BY <1>5 DEF UnsupportedTarget, Lock, CheckCanRun, CopyExecutable, Leave
<1>6. CASE LldMain(w)
  <2>1. Len(removers[w]) >= 2 /\ files[ObjectFile(w)] = File("object", w)
    BY <1>0, <1>6 DEF LldMain, Shape, Most, Content, Written
  <2>2. ExecutableFile(w) \in Paths /\ Owns(removers, w, ExecutableFile(w))
    BY <2>1, OwnsItsFiles
  <2>3. files[ObjectFile(w)].of = w
    BY <2>1 DEF File
  <2>4. UNCHANGED removers
    BY <1>6 DEF LldMain
  <2>5. \/ UNCHANGED files
        \/ files' = [files EXCEPT ![ExecutableFile(w)] = File("executable", w)]
        \/ files' = [files EXCEPT ![ExecutableFile(w)] = File("partial", w)]
    BY <1>6, <2>3 DEF LldMain
  <2> QED
    BY <2>2, <2>4, <2>5 DEF WritesOwn, Kinds
<1>7. CASE LeaveLinker(w)
  <2>1. CASE w \in Windows
    <3>1. Len(removers[w]) = 3
      BY <1>0, <1>7, <2>1 DEF LeaveLinker, Shape, Most
    <3>2. removers[w] # <<>>
      BY <3>1, EmptySeq
    <3> QED
      BY <1>7, <2>1, <3>2 DEF LeaveLinker, Removes
  <2>2. CASE w \notin Windows
    BY <1>7, <2>2 DEF LeaveLinker
  <2> QED
    BY <2>1, <2>2
<1>8. CASE Unwind(w)
  BY <1>8 DEF Unwind, Removes
<1> QED
  BY <1>1, <1>2, <1>3, <1>4, <1>5, <1>6, <1>7, <1>8 DEF Step

LEMMA OwnedStep ==
  ASSUME FileInv, Owned(removers, files), NEW w \in Writers, Call(w) \/ Step(w)
  PROVE  Owned(removers', files')
<1>1. /\ removers \in [Writers -> Seq(Paths)] /\ files = [p \in Paths |-> files[p]]
      /\ Guarded(removers, files)
  BY DEF FileInv, Typed
<1>2. \A kind : File(kind, w).of = w
  BY DEF File
<1>3. CASE UNCHANGED <<removers, files>>
  BY <1>3
<1>4. CASE WritesOwn(w)
  <2>1. PICK q \in Paths, kind \in Kinds :
          Owns(removers, w, q) /\ files' = [files EXCEPT ![q] = File(kind, w)]
    BY <1>4 DEF WritesOwn
  <2>2. Owned(removers, [files EXCEPT ![q] = File(kind, w)])
    BY <1>1, <1>2, <2>1, OwnedWrite
  <2> QED
    BY <1>4, <2>1, <2>2 DEF WritesOwn
<1>5. CASE Creates(w)
  <2>1. PICK q \in Paths :
          /\ files[q] = Absent
          /\ files' = [files EXCEPT ![q] = File("empty", w)]
          /\ removers' = [removers EXCEPT ![w] = Append(@, q)]
    BY <1>5 DEF Creates, Exists
  <2> QED
    BY <1>1, <1>2, <2>1, OwnedCreate
<1>6. CASE Removes(w)
  BY <1>1, <1>6, OwnedRemove DEF Removes, RemoveLast
<1> QED
  BY <1>3, <1>4, <1>5, <1>6, FileSteps
-----------------------------------------------------------------------------
(* What a call has put in its output stream, and how it will end.          *)

Result(w) ==
  /\ pc[w] \notin {"idle", "unwind"} => output[w] = "nothing"
  /\ pc[w] = "unwind" => outcome[w] \in {"returned", "thrown"}
  /\ pc[w] = "unwind" /\ outcome[w] = "thrown" => output[w] \in {"nothing", "partial"}

RefInv == FileInv /\ Owned(removers, files) /\ \A w \in Writers : Result(w)

(* The steps as a caller sees them. *)
Begins(w) ==
  /\ pc[w] = "idle" /\ pc'[w] = "object"
  /\ outcome' = [outcome EXCEPT ![w] = "none"] /\ output' = [output EXCEPT ![w] = "nothing"]
Works(w) ==
  /\ pc[w] \notin {"idle", "unwind"} /\ pc'[w] # "idle"
  /\ \/ pc'[w] # "unwind" /\ UNCHANGED <<outcome, output>>
     \/ /\ pc'[w] = "unwind" /\ outcome' = [outcome EXCEPT ![w] = "thrown"]
        /\ \/ UNCHANGED output
           \/ output' = [output EXCEPT ![w] = "partial"]
Returns(w) ==
  /\ pc[w] \notin {"idle", "unwind"} /\ pc'[w] = "unwind"
  /\ outcome' = [outcome EXCEPT ![w] = "returned"]
  /\ output' = [output EXCEPT ![w] = w]
Unwinds(w) == pc[w] = "unwind" /\ pc'[w] = "unwind" /\ UNCHANGED <<outcome, output>>
Leaves(w) == pc[w] = "unwind" /\ pc'[w] = "idle" /\ UNCHANGED <<outcome, output>>

LEMMA CallSteps ==
  ASSUME RefInv, NEW w \in Writers, Call(w) \/ Step(w)
  PROVE  /\ \E label \in Labels : pc' = [pc EXCEPT ![w] = label]
         /\ \/ Begins(w) /\ UNCHANGED <<removers, files>>
            \/ Works(w) /\ (output' = output \/ UNCHANGED <<removers, files>>)
            \/ Returns(w) /\ UNCHANGED <<removers, files>>
            \/ Unwinds(w)
            \/ Leaves(w) /\ UNCHANGED <<removers, files>> /\ removers[w] = <<>>
<1>0. /\ pc \in [Writers -> Labels] /\ Content(w) /\ Result(w)
      /\ output \in [Writers -> {"nothing", "partial"} \cup Writers]
  BY DEF RefInv, FileInv, Typed
<1>1. CASE Call(w)
  BY <1>0, <1>1 DEF Call, Goto, Begins, Labels
<1>2. CASE CreateObject(w) \/ CreateExecutable(w) \/ CreateLibrary(w)
  BY <1>0, <1>2
  DEF CreateObject, CreateExecutable, CreateLibrary, CreateTemporaryFile, Throw, Goto,
      Works, Labels
<1>3. CASE WriteObject(w)
  <2>1. AfterObject(w) \in {"lock", "library", "unsupported"}
    BY DEF AfterObject
  <2> QED
    BY <1>0, <1>3, <2>1 DEF WriteObject, WriteFile, Throw, Goto, Works, Labels
<1>4. CASE WriteImportLibrary(w)
  BY <1>0, <1>4 DEF WriteImportLibrary, WriteFile, Throw, Goto, Works, Labels
<1>5. CASE UnsupportedTarget(w) \/ Lock(w)
  BY <1>0, <1>5 DEF UnsupportedTarget, Lock, Throw, Goto, Works, Labels
<1>6. CASE CheckCanRun(w)
  BY <1>0, <1>6 DEF CheckCanRun, Throw, Goto, Works, Labels
<1>7. CASE LldMain(w)
  BY <1>0, <1>7 DEF LldMain, NotLinked, Throw, Goto, Works, Labels
<1>8. CASE LeaveLinker(w)
  BY <1>0, <1>8 DEF LeaveLinker, Goto, Works, Labels
<1>9. CASE CopyExecutable(w)
  <2>1. pc[w] = "copy" /\ output[w] = "nothing" /\ UNCHANGED <<removers, files>>
    BY <1>0, <1>9 DEF CopyExecutable, Result
  <2>2. files[ExecutableFile(w)].is = "executable" /\ files[ExecutableFile(w)].of = w
    BY <1>0, <2>1 DEF Content, File
  <2>3. CASE output' = [output EXCEPT ![w] = w] /\ outcome' = [outcome EXCEPT ![w] = "returned"]
               /\ Goto(w, "unwind")
    BY <1>0, <2>1, <2>3 DEF Goto, Returns, Labels
  <2>4. CASE output' = [output EXCEPT ![w] = "nothing"] /\ Throw(w)
    <3>1. output' = output
      BY <1>0, <2>1, <2>4
    <3> QED
      BY <1>0, <2>1, <2>4, <3>1 DEF Throw, Goto, Works, Labels
  <2>5. CASE output' = [output EXCEPT ![w] = "partial"] /\ Throw(w)
    BY <1>0, <2>1, <2>5 DEF Throw, Goto, Works, Labels
  <2> QED
    BY <1>9, <2>2, <2>3, <2>4, <2>5 DEF CopyExecutable
<1>10. CASE Unwind(w)
  BY <1>0, <1>10 DEF Unwind, Unwinds
<1>11. CASE Leave(w)
  BY <1>0, <1>11 DEF Leave, Goto, Leaves, Labels
<1> QED
  BY <1>1, <1>2, <1>3, <1>4, <1>5, <1>6, <1>7, <1>8, <1>9, <1>10, <1>11 DEF Step

LEMMA RefInvStep == RefInv /\ [Next]_vars => RefInv'
<1> SUFFICES ASSUME RefInv, [Next]_vars PROVE RefInv'
  OBVIOUS
<1>1. FileInv'
  BY FileInvStep DEF RefInv
<1>2. CASE UNCHANGED vars
  BY <1>1, <1>2 DEF vars, RefInv, Owned, Owns, Result
<1>3. ASSUME NEW w \in Writers, Call(w) \/ Step(w)
      PROVE  RefInv'
  <2>1. Owned(removers', files')
    BY <1>3, OwnedStep DEF RefInv
  <2>2. /\ \E label \in Labels : pc' = [pc EXCEPT ![w] = label]
        /\ Begins(w) \/ Works(w) \/ Returns(w) \/ Unwinds(w) \/ Leaves(w)
    BY <1>3, CallSteps
  <2>3. /\ pc \in [Writers -> Labels]
        /\ outcome \in [Writers -> {"none", "returned", "thrown"}]
        /\ output \in [Writers -> {"nothing", "partial"} \cup Writers]
    BY DEF RefInv, FileInv, Typed
  <2>4. \A v \in Writers \ {w} :
          pc'[v] = pc[v] /\ outcome'[v] = outcome[v] /\ output'[v] = output[v]
    BY <2>2, <2>3 DEF Begins, Works, Returns, Unwinds, Leaves
  <2>5. \A v \in Writers \ {w} : Result(v)'
    BY <2>4 DEF RefInv, Result
  <2>6. Result(w)'
    BY <2>2, <2>3 DEF RefInv, Result, Begins, Works, Returns, Unwinds, Leaves
  <2> QED
    BY <1>1, <2>1, <2>5, <2>6 DEF RefInv
<1> QED
  BY <1>2, <1>3 DEF Next

LEMMA RefInvAlways == Spec => []RefInv
<1>1. Init => RefInv
  <2> SUFFICES ASSUME Init PROVE RefInv
    OBVIOUS
  <2>1. FileInv
    BY FileInvInitially
  <2>2. Owned(removers, files)
    BY EmptySeq DEF Init, Owned, Owns
  <2> QED
    BY <2>1, <2>2 DEF Init, RefInv, Result
<1> QED
  BY <1>1, RefInvStep, PTL DEF Spec

-----------------------------------------------------------------------------
(* The variables of ArtifactWriter, and its actions on them.               *)

callBar == [w \in Writers |-> IF pc[w] = "idle" THEN outcome[w] ELSE "running"]
heldBar == [w \in Writers |-> {p \in Paths : files[p].of = w}]

LEMMA AbstractStep ==
  ASSUME NEW w \in Writers,
         \/ /\ callBar[w] \notin {"running", "killed"}
            /\ callBar' = [callBar EXCEPT ![w] = "running"]
            /\ output' = [output EXCEPT ![w] = "nothing"]
            /\ heldBar' = heldBar
         \/ /\ callBar[w] = "running" /\ callBar' = callBar /\ output' = output
            /\ \E q \in Paths :
                 \/ /\ \A v \in Writers : q \notin heldBar[v]
                    /\ heldBar' = [heldBar EXCEPT ![w] = @ \cup {q}]
                 \/ q \in heldBar[w] /\ heldBar' = [heldBar EXCEPT ![w] = @ \ {q}]
         \/ /\ callBar[w] = "running" /\ output[w] = "nothing"
            /\ \E r \in {"partial", w} : output' = [output EXCEPT ![w] = r]
            /\ callBar' = callBar /\ heldBar' = heldBar
         \/ /\ callBar[w] = "running" /\ heldBar[w] = {}
            /\ callBar' = [callBar EXCEPT ![w] =
                 IF output[w] = w THEN "returned" ELSE "thrown"]
            /\ output' = output /\ heldBar' = heldBar
         \/ callBar' = callBar /\ output' = output /\ heldBar' = heldBar
  PROVE  [W!Next]_W!writerVars
BY DEF W!Next, W!Begin, W!Create, W!Remove, W!Deliver, W!End, W!writerVars, callBar, heldBar

LEMMA HeldSteps ==
  ASSUME RefInv, NEW w \in Writers, Call(w) \/ Step(w)
  PROVE  \/ heldBar' = heldBar
         \/ \E q \in Paths :
              \/ /\ \A v \in Writers : q \notin heldBar[v]
                 /\ heldBar' = [heldBar EXCEPT ![w] = @ \cup {q}]
              \/ q \in heldBar[w] /\ heldBar' = [heldBar EXCEPT ![w] = @ \ {q}]
<1>1. /\ files \in [Paths -> {Absent} \cup [is : Kinds, of : Writers]]
      /\ removers \in [Writers -> Seq(Paths)] /\ Owned(removers, files)
  BY DEF RefInv, FileInv, Typed
<1>2. \A kind : File(kind, w).of = w
  BY DEF File
<1>3. Absent.of = NoWriter /\ NoWriter \notin Writers
  BY WritersAssumption DEF Absent
<1>4. CASE UNCHANGED <<removers, files>>
  BY <1>4 DEF heldBar
<1>5. CASE WritesOwn(w)
  <2>1. PICK q \in Paths, kind \in Kinds :
          Owns(removers, w, q) /\ files' = [files EXCEPT ![q] = File(kind, w)]
    BY <1>5 DEF WritesOwn
  <2>2. files[q].of = w
    BY <1>1, <2>1 DEF Owned
  <2>3. \A p \in Paths : files'[p].of = files[p].of
    BY <1>1, <1>2, <2>1, <2>2
  <2> QED
    BY <2>3 DEF heldBar
<1>6. CASE Creates(w)
  <2>1. PICK q \in Paths : files[q] = Absent /\ files' = [files EXCEPT ![q] = File("empty", w)]
    BY <1>6 DEF Creates, Exists
  <2>2. \A v \in Writers : q \notin heldBar[v]
    BY <1>3, <2>1 DEF heldBar
  <2>3. files'[q].of = w /\ \A p \in Paths \ {q} : files'[p] = files[p]
    BY <1>1, <1>2, <2>1
  <2>4. \A v \in Writers : heldBar'[v] = IF v = w THEN heldBar[w] \cup {q} ELSE heldBar[v]
    BY <2>2, <2>3 DEF heldBar
  <2>5. heldBar' = [heldBar EXCEPT ![w] = @ \cup {q}]
    BY <2>4 DEF heldBar
  <2> QED
    BY <2>2, <2>5
<1>7. CASE Removes(w)
  <2> DEFINE q == Last(removers[w])
  <2>1. files' = [files EXCEPT ![q] = Absent] /\ removers[w] # <<>>
    BY <1>7 DEF Removes, RemoveLast
  <2>2. q \in Paths /\ Owns(removers, w, q)
    <3>1. /\ Len(removers[w]) \in Nat \ {0} /\ q \in Paths
          /\ q = removers[w][Len(removers[w])]
      BY <1>1, <2>1, WithoutLast
    <3> QED
      BY <3>1 DEF Owns
  <2> HIDE DEF q
  <2>3. files[q].of = w /\ q \in heldBar[w]
    BY <1>1, <2>2 DEF Owned, heldBar
  <2>4. files'[q].of = NoWriter /\ \A p \in Paths \ {q} : files'[p] = files[p]
    BY <1>1, <1>3, <2>1, <2>2
  <2>5. \A v \in Writers : heldBar'[v] = IF v = w THEN heldBar[w] \ {q} ELSE heldBar[v]
    BY <1>3, <2>3, <2>4 DEF heldBar
  <2>6. heldBar' = [heldBar EXCEPT ![w] = @ \ {q}]
    BY <2>5 DEF heldBar
  <2> QED
    BY <2>2, <2>3, <2>6
<1> QED
  BY <1>4, <1>5, <1>6, <1>7, FileSteps DEF RefInv

LEMMA NothingHeld ==
  ASSUME RefInv, NEW w \in Writers, removers[w] = <<>>
  PROVE  heldBar[w] = {}
<1> SUFFICES ASSUME NEW p \in Paths, files[p].of = w PROVE FALSE
  BY DEF heldBar
<1>1. files[p] # Absent
  BY WritersAssumption DEF Absent
<1>2. PICK v \in Writers : Owns(removers, v, p)
  BY <1>1 DEF RefInv, FileInv, Guarded
<1>3. v = w
  BY <1>2 DEF RefInv, Owned
<1> QED
  BY <1>2, <1>3, EmptySeq DEF Owns

LEMMA StepImplements ==
  ASSUME RefInv, NEW w \in Writers, Call(w) \/ Step(w)
  PROVE  [W!Next]_W!writerVars
<1>1. /\ pc \in [Writers -> Labels] /\ Result(w) /\ Content(w)
      /\ outcome \in [Writers -> {"none", "returned", "thrown"}]
      /\ output \in [Writers -> {"nothing", "partial"} \cup Writers]
  BY DEF RefInv, FileInv, Typed
<1>2. /\ \E label \in Labels : pc' = [pc EXCEPT ![w] = label]
      /\ \/ Begins(w) /\ UNCHANGED <<removers, files>>
         \/ Works(w) /\ (output' = output \/ UNCHANGED <<removers, files>>)
         \/ Returns(w) /\ UNCHANGED <<removers, files>>
         \/ Unwinds(w)
         \/ Leaves(w) /\ UNCHANGED <<removers, files>> /\ removers[w] = <<>>
  BY CallSteps
<1>3. UNCHANGED <<removers, files>> => heldBar' = heldBar
  BY DEF heldBar
<1>4. CASE Begins(w) /\ UNCHANGED <<removers, files>>
  <2>1. callBar[w] \notin {"running", "killed"}
    BY <1>1, <1>4 DEF Begins, callBar
  <2>2. callBar' = [callBar EXCEPT ![w] = "running"]
    BY <1>1, <1>2, <1>4 DEF Begins, callBar
  <2> QED
    BY <1>3, <1>4, <2>1, <2>2, AbstractStep DEF Begins
<1>5. CASE Works(w) \/ Returns(w) \/ Unwinds(w)
  <2>1. callBar[w] = "running" /\ callBar' = callBar
    BY <1>1, <1>2, <1>5 DEF Works, Returns, Unwinds, callBar
  <2>2. CASE output' = output
    BY <2>1, <2>2, HeldSteps, AbstractStep
  <2>3. CASE output' # output
    <3>1. heldBar' = heldBar
      BY <1>2, <1>3, <1>5, <2>3 DEF Works, Returns, Unwinds, Begins, Leaves
    <3>2. output[w] = "nothing" /\ \E r \in {"partial", w} : output' = [output EXCEPT ![w] = r]
      BY <1>1, <1>5, <2>3 DEF Works, Returns, Unwinds, Result
    <3> QED
      BY <2>1, <3>1, <3>2, AbstractStep
  <2> QED
    BY <2>2, <2>3
<1>6. CASE Leaves(w) /\ UNCHANGED <<removers, files>> /\ removers[w] = <<>>
  <2>1. callBar[w] = "running" /\ heldBar[w] = {} /\ output' = output
    BY <1>6, NothingHeld DEF Leaves, callBar
  <2>2. outcome[w] = IF output[w] = w THEN "returned" ELSE "thrown"
    BY <1>1, <1>6, WritersAssumption DEF Leaves, Result, Content
  <2>3. callBar' = [callBar EXCEPT ![w] = IF output[w] = w THEN "returned" ELSE "thrown"]
    BY <1>1, <1>2, <1>6, <2>2 DEF Leaves, callBar
  <2> QED
    BY <1>3, <1>6, <2>1, <2>3, AbstractStep
<1> QED
  BY <1>2, <1>4, <1>5, <1>6

(* Every behaviour of any number of threads that link at the same time is  *)
(* one that main expects of its writer: a call returns with the executable *)
(* of its own module or throws, its files are its own, and gone when it    *)
(* ends.                                                                   *)
THEOREM WriteCorrect == Spec => ImplementsArtifactWriter
<1>1. Init => W!Init
  <2> SUFFICES ASSUME Init PROVE W!Init
    OBVIOUS
  <2>1. \A w \in Writers : {p \in Paths : files[p].of = w} = {}
    BY WritersAssumption DEF Init, Absent
  <2> QED
    BY <2>1 DEF Init, W!Init
<1>2. RefInv /\ [Next]_vars => [W!Next]_W!writerVars
  <2> SUFFICES ASSUME RefInv, [Next]_vars PROVE [W!Next]_W!writerVars
    OBVIOUS
  <2>1. CASE UNCHANGED vars
    BY <2>1 DEF vars, W!writerVars
  <2>2. CASE Next
    BY <2>2, StepImplements DEF Next
  <2> QED
    BY <2>1, <2>2
<1> QED
  BY <1>1, <1>2, RefInvAlways, PTL DEF Spec, ImplementsArtifactWriter, W!Spec
=============================================================================
