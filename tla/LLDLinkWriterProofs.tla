------------------------- MODULE LLDLinkWriterProofs -------------------------
(***************************************************************************)
(* The safety of LLDLinkWriter for any number of threads, targets and      *)
(* names of temporary files.                                               *)
(***************************************************************************)
EXTENDS LLDLinkWriter, SequenceTheorems, TLAPS

-----------------------------------------------------------------------------
(* Mutual exclusion, which does not depend on any file. *)

LockInv ==
  /\ pc \in [Writers -> Labels]
  /\ can_run_lld \in BOOLEAN
  /\ OneLinkerAtATime
  /\ NeverAfterFailure

(* A step that keeps pc inside the critical section, the mutex and the     *)
(* flag as they are, for a writer that is outside before and after.        *)
LEMMA OutsideStep ==
  ASSUME LockInv, NEW w \in Writers, NEW label \in Labels,
         pc' = [pc EXCEPT ![w] = label],
         label \notin {"check", "lldMain"},
         UNCHANGED <<lld_mutex, can_run_lld>>
  PROVE  LockInv'
<1>1. pc' \in [Writers -> Labels]
  BY DEF LockInv
<1>2. \A v \in Writers : pc'[v] \in {"check", "lldMain"} => pc'[v] = pc[v]
  BY DEF LockInv
<1> QED
  BY <1>1, <1>2 DEF LockInv, OneLinkerAtATime, NeverAfterFailure

LEMMA LockInvInitially == Init => LockInv
BY DEF Init, LockInv, Labels, OneLinkerAtATime, NeverAfterFailure

LEMMA LockInvStep == LockInv /\ [Next]_vars => LockInv'
<1> SUFFICES ASSUME LockInv, [Next]_vars PROVE LockInv'
  OBVIOUS
<1>1. CASE UNCHANGED vars
  BY <1>1 DEF vars, LockInv, OneLinkerAtATime, NeverAfterFailure
<1>2. CASE Next
  <2>1. PICK w \in Writers : Call(w) \/ Step(w)
    BY <1>2 DEF Next
  <2>2. CASE Call(w)
    BY <2>2, OutsideStep DEF Call, Goto, Labels
  <2>3. CASE CreateObject(w)
    BY <2>3, OutsideStep DEF CreateObject, CreateTemporaryFile, Throw, Goto, Labels
  <2>4. CASE CreateExecutable(w)
    BY <2>4, OutsideStep DEF CreateExecutable, CreateTemporaryFile, Throw, Goto, Labels
  <2>5. CASE WriteObject(w)
    <3>1. AfterObject(w) \in Labels \ {"check", "lldMain"}
      BY DEF AfterObject, Labels
    <3> QED
      BY <2>5, <3>1, OutsideStep DEF WriteObject, WriteFile, Throw, Goto, Labels
  <2>6. CASE UnsupportedTarget(w)
    BY <2>6, OutsideStep DEF UnsupportedTarget, Throw, Goto, Labels
  <2>7. CASE CreateLibrary(w)
    BY <2>7, OutsideStep DEF CreateLibrary, CreateTemporaryFile, Throw, Goto, Labels
  <2>8. CASE WriteImportLibrary(w)
    BY <2>8, OutsideStep DEF WriteImportLibrary, WriteFile, Throw, Goto, Labels
  <2>9. CASE Lock(w)
    BY <2>9, WritersAssumption
    DEF Lock, Goto, LockInv, OneLinkerAtATime, NeverAfterFailure, Labels
  <2>10. CASE CheckCanRun(w)
    BY <2>10, WritersAssumption
    DEF CheckCanRun, Goto, Throw, LockInv, OneLinkerAtATime, NeverAfterFailure, Labels
  <2>11. CASE LldMain(w)
    <3>1. /\ lld_mutex = w /\ lld_mutex' = NoWriter
          /\ can_run_lld' \in BOOLEAN
          /\ \/ pc' = [pc EXCEPT ![w] = "linked"]
             \/ pc' = [pc EXCEPT ![w] = "unwind"]
      BY <2>11 DEF LldMain, NotLinked, Throw, Goto, LockInv, OneLinkerAtATime
    <3>2. \A v \in Writers : pc'[v] \notin {"check", "lldMain"}
      BY <3>1 DEF LockInv, OneLinkerAtATime
    <3> QED
      BY <3>1, <3>2 DEF LockInv, OneLinkerAtATime, NeverAfterFailure, Labels
  <2>12. CASE LeaveLinker(w)
    BY <2>12, OutsideStep DEF LeaveLinker, Goto, Labels
  <2>13. CASE CopyExecutable(w)
    BY <2>13, OutsideStep DEF CopyExecutable, Throw, Goto, Labels
  <2>14. CASE Unwind(w)
    BY <2>14 DEF Unwind, LockInv, OneLinkerAtATime, NeverAfterFailure
  <2>15. CASE Leave(w)
    BY <2>15, OutsideStep DEF Leave, Goto, Labels
  <2> QED
    BY <2>1, <2>2, <2>3, <2>4, <2>5, <2>6, <2>7, <2>8, <2>9, <2>10, <2>11,
       <2>12, <2>13, <2>14, <2>15 DEF Step
<1> QED
  BY <1>1, <1>2

LEMMA LockInvAlways == Spec => []LockInv
BY LockInvInitially, LockInvStep, PTL DEF Spec

(* However many threads link, LLD is entered by one at a time.             *)
THEOREM MutualExclusion == Spec => []OneLinkerAtATime
<1>1. LockInv => OneLinkerAtATime
  BY DEF LockInv
<1> QED
  BY <1>1, LockInvAlways, PTL

(* No thread enters LLD after it has said that it cannot run again, even   *)
(* one that was already waiting for the mutex.                             *)
THEOREM NoLinkAfterFailure == Spec => []NeverAfterFailure
<1>1. LockInv => NeverAfterFailure
  BY DEF LockInv
<1> QED
  BY <1>1, LockInvAlways, PTL
-----------------------------------------------------------------------------
(* Facts about the sequences of FileRemovers. *)

LEMMA Appended ==
  ASSUME NEW S, NEW s \in Seq(S), NEW p \in S
  PROVE  /\ Append(s, p) \in Seq(S)
         /\ Len(Append(s, p)) = Len(s) + 1
         /\ Append(s, p)[Len(s) + 1] = p
         /\ \A i \in 1 .. Len(s) : Append(s, p)[i] = s[i]
OBVIOUS

LEMMA WithoutLast ==
  ASSUME NEW S, NEW s \in Seq(S), s # <<>>
  PROVE  /\ Len(s) \in Nat \ {0}
         /\ Front(s) \in Seq(S)
         /\ Len(Front(s)) = Len(s) - 1
         /\ Last(s) = s[Len(s)] /\ Last(s) \in S
         /\ \A i \in 1 .. Len(s) - 1 : Front(s)[i] = s[i]
<1> DEFINE n == Len(s)
<1>1. n \in Nat \ {0}
  BY LenProperties, EmptySeq
<1>2. \A i \in 1 .. n : s[i] \in S
  BY ElementOfSeq
<1> HIDE DEF n
<1> DEFINE m == n - 1
           f == SubSeq(s, 1, m)
<1>3. m \in Nat /\ m < n
  BY <1>1
<1> HIDE DEF m
<1>4. \A i \in 1 .. m : s[i] \in S
  BY <1>1, <1>2, <1>3
<1>5. /\ f \in Seq(S)
      /\ Len(f) = IF 1 <= m THEN m - 1 + 1 ELSE 0
      /\ \A i \in 1 .. m - 1 + 1 : f[i] = s[1 + i - 1]
  BY <1>3, <1>4, SubSeqProperties
<1> HIDE DEF f
<1>6. Len(f) = m /\ \A i \in 1 .. m : f[i] = s[i]
  BY <1>3, <1>5
<1>7. s[n] \in S
  BY <1>1, <1>2
<1> QED
  BY <1>1, <1>5, <1>6, <1>7 DEF Front, Last, f, m, n

-----------------------------------------------------------------------------
(* Ownership, for any assignment `rem' of files to writers and any         *)
(* contents `con' of the files.                                            *)

Owns(rem, w, p) == \E i \in 1 .. Len(rem[w]) : rem[w][i] = p

Guarded(rem, con) ==
  /\ \A p \in Paths : con[p] # Absent <=> \E w \in Writers : Owns(rem, w, p)
  /\ \A v, w \in Writers : \A i \in 1 .. Len(rem[v]), j \in 1 .. Len(rem[w]) :
       rem[v][i] = rem[w][j] => v = w /\ i = j

(* A file that is written by its owner stays owned. *)
LEMMA GuardedWrite ==
  ASSUME NEW rem \in [Writers -> Seq(Paths)], NEW con, con = [p \in Paths |-> con[p]],
         Guarded(rem, con),
         NEW w \in Writers, NEW i \in 1 .. Len(rem[w]), NEW c, c # Absent
  PROVE  Guarded(rem, [con EXCEPT ![rem[w][i]] = c])
<1> DEFINE new == [con EXCEPT ![rem[w][i]] = c]
<1>1. rem[w][i] \in Paths
  BY ElementOfSeq
<1>2. con[rem[w][i]] # Absent
  BY <1>1 DEF Guarded, Owns
<1>3. \A p \in Paths : new[p] # Absent <=> con[p] # Absent
  BY <1>1, <1>2
<1> HIDE DEF new
<1>4. Guarded(rem, new)
  BY <1>3 DEF Guarded
<1> QED
  BY <1>4 DEF new

(* A new file, and a FileRemover for it. *)
LEMMA GuardedCreate ==
  ASSUME NEW rem \in [Writers -> Seq(Paths)], NEW con, con = [p \in Paths |-> con[p]],
         Guarded(rem, con),
         NEW w \in Writers, NEW q \in Paths, con[q] = Absent, NEW c, c # Absent
  PROVE  Guarded([rem EXCEPT ![w] = Append(@, q)], [con EXCEPT ![q] = c])
<1> DEFINE r2 == [rem EXCEPT ![w] = Append(@, q)]
           c2 == [con EXCEPT ![q] = c]
<1>1. /\ Len(r2[w]) = Len(rem[w]) + 1
      /\ r2[w][Len(rem[w]) + 1] = q
      /\ \A i \in 1 .. Len(rem[w]) : r2[w][i] = rem[w][i]
      /\ \A v \in Writers \ {w} : r2[v] = rem[v]
  BY Appended
<1>2. \A v \in Writers : Len(rem[v]) \in Nat
  BY LenProperties
<1>3. \A v \in Writers : ~Owns(rem, v, q)
  BY DEF Guarded
<1>4. c2[q] = c /\ \A p \in Paths \ {q} : c2[p] = con[p]
  OBVIOUS
<1> HIDE DEF r2, c2
<1>5. \A v \in Writers, p \in Paths : Owns(r2, v, p) <=> Owns(rem, v, p) \/ (v = w /\ p = q)
  <2> SUFFICES ASSUME NEW v \in Writers, NEW p \in Paths
               PROVE  Owns(r2, v, p) <=> Owns(rem, v, p) \/ (v = w /\ p = q)
    OBVIOUS
  <2>1. CASE v # w
    BY <1>1, <2>1 DEF Owns
  <2>2. CASE v = w
    <3> DEFINE n == Len(rem[w])
    <3>1. n \in Nat
      BY <1>2
    <3>2. /\ Len(r2[w]) = n + 1 /\ r2[w][n + 1] = q
          /\ \A i \in 1 .. n : r2[w][i] = rem[w][i]
      BY <1>1
    <3>3. (\E i \in 1 .. n + 1 : r2[w][i] = p) <=> (\E i \in 1 .. n : rem[w][i] = p) \/ p = q
      <4> HIDE DEF n
      <4>1. 1 .. n + 1 = 1 .. n \cup {n + 1}
        BY <3>1
      <4> QED
        BY <3>2, <4>1
    <3> QED
      BY <2>2, <3>2, <3>3 DEF Owns
  <2> QED
    BY <2>1, <2>2
<1>6. \A p \in Paths : c2[p] # Absent <=> \E v \in Writers : Owns(r2, v, p)
  BY <1>3, <1>4, <1>5 DEF Guarded
<1>7. ASSUME NEW v \in Writers, NEW u \in Writers,
             NEW i \in 1 .. Len(r2[v]), NEW j \in 1 .. Len(r2[u]), r2[v][i] = r2[u][j]
      PROVE  v = u /\ i = j
  <2>1. ASSUME NEW x \in Writers, NEW k \in 1 .. Len(r2[x])
        PROVE  \/ k \in 1 .. Len(rem[x]) /\ r2[x][k] = rem[x][k] /\ r2[x][k] # q
               \/ x = w /\ k = Len(rem[w]) + 1 /\ r2[x][k] = q
    <3>1. ASSUME k \in 1 .. Len(rem[x])
          PROVE  r2[x][k] = rem[x][k] /\ r2[x][k] # q
      <4>1. r2[x][k] = rem[x][k]
        BY <1>1, <3>1
      <4>2. rem[x][k] # q
        BY <1>3, <3>1 DEF Owns
      <4> QED
        BY <4>1, <4>2
    <3>2. k \in 1 .. Len(rem[x]) \/ (x = w /\ k = Len(rem[w]) + 1)
      <4>1. CASE x # w
        BY <1>1, <4>1
      <4>2. CASE x = w
        <5> DEFINE n == Len(rem[w])
        <5>1. n \in Nat /\ k \in 1 .. n + 1
          BY <1>1, <1>2, <4>2
        <5> HIDE DEF n
        <5>2. k \in 1 .. n \/ k = n + 1
          BY <5>1
        <5> QED
          BY <4>2, <5>2 DEF n
      <4> QED
        BY <4>1, <4>2
    <3> QED
      BY <1>1, <3>1, <3>2
  <2>2. \/ i \in 1 .. Len(rem[v]) /\ r2[v][i] = rem[v][i] /\ r2[v][i] # q
        \/ v = w /\ i = Len(rem[w]) + 1 /\ r2[v][i] = q
    BY <2>1
  <2>3. \/ j \in 1 .. Len(rem[u]) /\ r2[u][j] = rem[u][j] /\ r2[u][j] # q
        \/ u = w /\ j = Len(rem[w]) + 1 /\ r2[u][j] = q
    BY <2>1
  <2> QED
    BY <1>7, <2>2, <2>3 DEF Guarded
<1>8. Guarded(r2, c2)
  BY <1>6, <1>7 DEF Guarded
<1> QED
  BY <1>8 DEF r2, c2

(* A FileRemover removes its file and is gone. *)
LEMMA GuardedRemove ==
  ASSUME NEW rem \in [Writers -> Seq(Paths)], NEW con, con = [p \in Paths |-> con[p]],
         Guarded(rem, con),
         NEW w \in Writers, rem[w] # <<>>
  PROVE  Guarded([rem EXCEPT ![w] = Front(@)], [con EXCEPT ![Last(rem[w])] = Absent])
<1> DEFINE r2 == [rem EXCEPT ![w] = Front(@)]
           q == Last(rem[w])
           c2 == [con EXCEPT ![q] = Absent]
           n == Len(rem[w])
<1>1. /\ n \in Nat \ {0}
      /\ Len(r2[w]) = n - 1
      /\ q = rem[w][n] /\ q \in Paths
      /\ \A i \in 1 .. n - 1 : r2[w][i] = rem[w][i]
      /\ \A v \in Writers \ {w} : r2[v] = rem[v]
  <2>1. rem[w] \in Seq(Paths) /\ r2[w] = Front(rem[w])
    OBVIOUS
  <2>2. \A v \in Writers \ {w} : r2[v] = rem[v]
    OBVIOUS
  <2> HIDE DEF r2, c2
  <2>3. /\ Len(rem[w]) \in Nat \ {0}
        /\ Len(Front(rem[w])) = Len(rem[w]) - 1
        /\ Last(rem[w]) = rem[w][Len(rem[w])] /\ Last(rem[w]) \in Paths
        /\ \A i \in 1 .. Len(rem[w]) - 1 : Front(rem[w])[i] = rem[w][i]
    BY <2>1, WithoutLast
  <2> QED
    BY <2>1, <2>2, <2>3
<1>2. c2[q] = Absent /\ \A p \in Paths \ {q} : c2[p] = con[p]
  BY <1>1
<1> HIDE DEF r2, c2, q, n
<1>3. n \in 1 .. n /\ (1 .. n = (1 .. n - 1) \cup {n}) /\ n \notin 1 .. n - 1
  BY <1>1
<1>4. ASSUME NEW v \in Writers, NEW i \in 1 .. Len(r2[v])
      PROVE  /\ i \in 1 .. Len(rem[v]) /\ r2[v][i] = rem[v][i]
             /\ rem[v][i] # q
  <2>1. CASE v # w
    <3>1. r2[v] = rem[v] /\ i \in 1 .. Len(rem[v])
      BY <1>1, <2>1
    <3>2. n \in 1 .. Len(rem[w])
      BY <1>3 DEF n
    <3>3. rem[v][i] # rem[w][n]
      BY <2>1, <3>1, <3>2 DEF Guarded
    <3> QED
      BY <1>1, <3>1, <3>3
  <2>2. CASE v = w
    <3>1. i \in 1 .. n /\ i # n /\ r2[v][i] = rem[v][i]
      BY <1>1, <1>3, <2>2
    <3> QED
      BY <1>1, <1>3, <2>2, <3>1 DEF Guarded, n
  <2> QED
    BY <2>1, <2>2
<1>5. \A v \in Writers, p \in Paths : Owns(r2, v, p) <=> Owns(rem, v, p) /\ p # q
  <2> SUFFICES ASSUME NEW v \in Writers, NEW p \in Paths
               PROVE  Owns(r2, v, p) <=> Owns(rem, v, p) /\ p # q
    OBVIOUS
  <2>1. Owns(r2, v, p) => Owns(rem, v, p) /\ p # q
    BY <1>4 DEF Owns
  <2>2. ASSUME NEW i \in 1 .. Len(rem[v]), rem[v][i] = p, p # q
        PROVE  Owns(r2, v, p)
    <3>1. CASE v # w
      BY <1>1, <2>2, <3>1 DEF Owns
    <3>2. CASE v = w
      <4>1. i \in 1 .. n - 1
        BY <1>1, <1>3, <2>2, <3>2 DEF n
      <4> QED
        BY <1>1, <2>2, <3>2, <4>1 DEF Owns
    <3> QED
      BY <3>1, <3>2
  <2> QED
    BY <2>1, <2>2 DEF Owns
<1>6. \A p \in Paths : c2[p] # Absent <=> \E v \in Writers : Owns(r2, v, p)
  BY <1>1, <1>2, <1>5 DEF Guarded
<1>7. ASSUME NEW v \in Writers, NEW u \in Writers,
             NEW i \in 1 .. Len(r2[v]), NEW j \in 1 .. Len(r2[u]), r2[v][i] = r2[u][j]
      PROVE  v = u /\ i = j
  BY <1>4, <1>7 DEF Guarded
<1>8. Guarded(r2, c2)
  BY <1>6, <1>7 DEF Guarded
<1> QED
  BY <1>8 DEF r2, c2, q
-----------------------------------------------------------------------------
(* What a call of w holds, at each place of write, and what is in it. *)

Most(w) == IF w \in Windows THEN 3 ELSE 2

Shape(w) ==
  /\ Len(removers[w]) \in 0 .. Most(w)
  /\ pc[w] \in {"idle", "object"} => Len(removers[w]) = 0
  /\ pc[w] = "executable" => Len(removers[w]) = 1
  /\ pc[w] \in {"write", "unsupported", "library", "copy"} => Len(removers[w]) = 2
  /\ pc[w] \in {"import", "lock", "check", "lldMain", "linked"} =>
       Len(removers[w]) = Most(w)
  /\ pc[w] \in {"library", "import"} => w \in Windows

Written == {"unsupported", "library", "import", "lock", "check", "lldMain"}

Content(w) ==
  /\ pc[w] \in Written => files[ObjectFile(w)] = File("object", w)
  /\ pc[w] \in Written \cup {"write"} => files[ExecutableFile(w)] = File("empty", w)
  /\ pc[w] \in {"linked", "copy"} => files[ExecutableFile(w)] = File("executable", w)
  /\ pc[w] \in {"lock", "check", "lldMain"} /\ w \in Windows =>
       files[LibraryFile(w)] = File("library", w)
  /\ pc[w] = "unwind" /\ outcome[w] = "returned" => output[w] = w

Typed ==
  /\ pc \in [Writers -> Labels]
  /\ removers \in [Writers -> Seq(Paths)]
  /\ outcome \in [Writers -> {"none", "returned", "thrown"}]
  /\ output \in [Writers -> {"nothing", "partial"} \cup Writers]
  /\ files \in [Paths -> {Absent} \cup [is : Kinds, of : Writers]]
  /\ lld_mutex \in Writers \cup {NoWriter}
  /\ can_run_lld \in BOOLEAN

FileInv ==
  /\ Typed
  /\ Guarded(removers, files)
  /\ \A w \in Writers : Shape(w) /\ Content(w)

(* The files of a writer keep their content when a step only touches files *)
(* that another one owns before or after it.                               *)
LEMMA Undisturbed ==
  ASSUME Typed, Guarded(removers, files), Guarded(removers', files'),
         NEW w \in Writers, NEW p \in Paths,
         \A v \in Writers \ {w} : removers'[v] = removers[v],
         \A q \in Paths \ {p} : files'[q] = files[q],
         \/ Owns(removers, w, p)
         \/ Owns(removers', w, p)
  PROVE  \A v \in Writers \ {w} : \A i \in 1 .. Len(removers[v]) :
           files'[removers[v][i]] = files[removers[v][i]]
<1> SUFFICES ASSUME NEW v \in Writers \ {w}, NEW i \in 1 .. Len(removers[v])
             PROVE  files'[removers[v][i]] = files[removers[v][i]]
  OBVIOUS
<1>1. removers[v][i] \in Paths
  BY ElementOfSeq DEF Typed
<1>2. removers[v][i] # p
  <2>1. CASE Owns(removers, w, p)
    BY <2>1 DEF Guarded, Owns
  <2>2. CASE Owns(removers', w, p)
    <3>1. PICK j \in 1 .. Len(removers'[w]) : removers'[w][j] = p
      BY <2>2 DEF Owns
    <3>2. removers'[v] = removers[v]
      OBVIOUS
    <3> QED
      BY <3>1, <3>2 DEF Guarded
  <2> QED
    BY <2>1, <2>2
<1> QED
  BY <1>1, <1>2

(* It is enough to look at the writer that takes the step. *)
LEMMA OneWriterStep ==
  ASSUME FileInv, NEW w \in Writers, NEW label \in Labels,
         pc' = [pc EXCEPT ![w] = label],
         Typed', Guarded(removers', files'),
         \A v \in Writers \ {w} :
           /\ removers'[v] = removers[v]
           /\ outcome'[v] = outcome[v] /\ output'[v] = output[v],
         \A v \in Writers \ {w} : \A i \in 1 .. Len(removers[v]) :
           files'[removers[v][i]] = files[removers[v][i]],
         Shape(w)', Content(w)'
  PROVE  FileInv'
<1>1. ASSUME NEW v \in Writers \ {w}
      PROVE  Shape(v)' /\ Content(v)'
  <2>1. /\ pc'[v] = pc[v] /\ removers'[v] = removers[v]
        /\ outcome'[v] = outcome[v] /\ output'[v] = output[v]
    BY DEF FileInv, Typed
  <2>2. Shape(v) /\ Content(v)
    BY DEF FileInv
  <2>3. Shape(v)'
    BY <2>1, <2>2 DEF Shape
  <2>4. /\ Len(removers[v]) >= 1 => files'[removers[v][1]] = files[removers[v][1]]
        /\ Len(removers[v]) >= 2 => files'[removers[v][2]] = files[removers[v][2]]
        /\ Len(removers[v]) >= 3 => files'[removers[v][3]] = files[removers[v][3]]
    BY <2>2 DEF Shape
  <2>5. Content(v)'
    BY <2>1, <2>2, <2>4
    DEF Shape, Content, Written, Most, ObjectFile, ExecutableFile, LibraryFile
  <2> QED
    BY <2>3, <2>5
<1> QED
  BY <1>1 DEF FileInv
-----------------------------------------------------------------------------
(* Every step keeps FileInv. *)

LEMMA FileInvInitially == Init => FileInv
<1> SUFFICES ASSUME Init PROVE FileInv
  OBVIOUS
<1>1. \A w \in Writers : removers[w] = <<>> /\ Len(removers[w]) = 0
  BY EmptySeq DEF Init
<1>2. Typed
  BY EmptySeq DEF Init, Typed, Labels
<1>3. Guarded(removers, files)
  BY <1>1 DEF Init, Guarded, Owns
<1>4. \A w \in Writers : Shape(w) /\ Content(w)
  BY <1>1 DEF Init, Shape, Content, Written, Most
<1> QED
  BY <1>2, <1>3, <1>4 DEF FileInv

(* A step that leaves the files and their owners alone. *)
LEMMA SameFilesStep ==
  ASSUME FileInv, NEW w \in Writers, NEW label \in Labels,
         pc' = [pc EXCEPT ![w] = label],
         Typed', UNCHANGED <<removers, files>>,
         \A v \in Writers \ {w} : outcome'[v] = outcome[v] /\ output'[v] = output[v],
         Shape(w)', Content(w)'
  PROVE  FileInv'
<1>1. Guarded(removers', files')
  BY DEF FileInv
<1> QED
  BY <1>1, OneWriterStep

(* An exception with the files as they are. *)
LEMMA ThrowStep ==
  ASSUME FileInv, NEW w \in Writers, Throw(w),
         lld_mutex' \in Writers \cup {NoWriter}, can_run_lld' \in BOOLEAN,
         output' \in [Writers -> {"nothing", "partial"} \cup Writers],
         \A v \in Writers \ {w} : output'[v] = output[v],
         UNCHANGED <<removers, files>>
  PROVE  FileInv'
<1>1. pc' = [pc EXCEPT ![w] = "unwind"] /\ outcome' = [outcome EXCEPT ![w] = "thrown"]
  BY DEF Throw, Goto
<1>2. Typed'
  BY <1>1 DEF FileInv, Typed, Labels
<1>3. Shape(w)' /\ Content(w)'
  BY <1>1 DEF FileInv, Typed, Shape, Content, Written, Most
<1> QED
  BY <1>1, <1>2, <1>3, SameFilesStep DEF Labels, FileInv, Typed

LEMMA FileTyped ==
  ASSUME NEW w \in Writers, NEW kind \in Kinds
  PROVE  /\ File(kind, w) \in {Absent} \cup [is : Kinds, of : Writers]
         /\ File(kind, w) # Absent
BY DEF File, Absent, Kinds

(* A step that writes a file that w owns. *)
LEMMA WriteStep ==
  ASSUME FileInv, NEW w \in Writers, NEW label \in Labels,
         pc' = [pc EXCEPT ![w] = label],
         Typed', NEW i \in 1 .. Len(removers[w]), NEW kind \in Kinds,
         files' = [files EXCEPT ![removers[w][i]] = File(kind, w)],
         UNCHANGED removers,
         \A v \in Writers \ {w} : outcome'[v] = outcome[v] /\ output'[v] = output[v],
         Shape(w)', Content(w)'
  PROVE  FileInv'
<1>1. removers[w][i] \in Paths
  BY ElementOfSeq DEF FileInv, Typed
<1>2. File(kind, w) # Absent
  BY FileTyped
<1>3. Guarded(removers, [files EXCEPT ![removers[w][i]] = File(kind, w)])
  BY <1>2, GuardedWrite DEF FileInv, Typed
<1>4. Guarded(removers', files')
  BY <1>3
<1>5. \A v \in Writers \ {w} : \A j \in 1 .. Len(removers[v]) :
        files'[removers[v][j]] = files[removers[v][j]]
  <2>1. Owns(removers, w, removers[w][i])
    BY DEF Owns
  <2>2. \A q \in Paths \ {removers[w][i]} : files'[q] = files[q]
    BY DEF FileInv, Typed
  <2> QED
    BY <1>1, <1>4, <2>1, <2>2, Undisturbed DEF FileInv
<1> QED
  BY <1>4, <1>5, OneWriterStep

(* The three files of a call are different ones. *)
LEMMA Distinct ==
  ASSUME FileInv, NEW w \in Writers
  PROVE  /\ Len(removers[w]) \in Nat
         /\ Len(removers[w]) >= 1 => ObjectFile(w) \in Paths
         /\ Len(removers[w]) >= 2 => /\ ExecutableFile(w) \in Paths
                                     /\ ExecutableFile(w) # ObjectFile(w)
         /\ Len(removers[w]) >= 3 => /\ LibraryFile(w) \in Paths
                                     /\ LibraryFile(w) # ObjectFile(w)
                                     /\ LibraryFile(w) # ExecutableFile(w)
<1>1. Len(removers[w]) \in Nat
  BY LenProperties DEF FileInv, Typed
<1>2. \A i \in 1 .. Len(removers[w]) : removers[w][i] \in Paths
  BY ElementOfSeq DEF FileInv, Typed
<1>3. \A i, j \in 1 .. Len(removers[w]) : removers[w][i] = removers[w][j] => i = j
  BY DEF FileInv, Guarded
<1> DEFINE n == Len(removers[w])
<1> HIDE DEF n
<1>4. /\ n \in Nat
      /\ \A i \in 1 .. n : removers[w][i] \in Paths
      /\ \A i, j \in 1 .. n : removers[w][i] = removers[w][j] => i = j
  BY <1>1, <1>2, <1>3 DEF n
<1>5. /\ n >= 1 => 1 \in 1 .. n
      /\ n >= 2 => 1 \in 1 .. n /\ 2 \in 1 .. n
      /\ n >= 3 => 1 \in 1 .. n /\ 2 \in 1 .. n /\ 3 \in 1 .. n
  BY <1>4
<1> QED
  BY <1>4, <1>5 DEF n, ObjectFile, ExecutableFile, LibraryFile

(* A new temporary file. *)
LEMMA CreateStep ==
  ASSUME FileInv, NEW w \in Writers, NEW here \in Labels, NEW there \in Labels,
         CreateTemporaryFile(w, here, there),
         \/ here = "object" /\ there = "executable"
         \/ here = "executable" /\ there = "write"
         \/ here = "library" /\ there = "import"
  PROVE  FileInv'
<1>1. CASE Throw(w) /\ UNCHANGED <<files, removers>>
  BY <1>1, ThrowStep DEF CreateTemporaryFile, FileInv, Typed
<1>2. ASSUME NEW p \in Paths, ~Exists(p),
             files' = [files EXCEPT ![p] = File("empty", w)],
             removers' = [removers EXCEPT ![w] = Append(@, p)],
             pc' = [pc EXCEPT ![w] = there], UNCHANGED outcome
      PROVE  FileInv'
  <2>1. /\ pc[w] = here /\ pc'[w] = there
        /\ UNCHANGED <<output, lld_mutex, can_run_lld>>
    BY <1>2 DEF CreateTemporaryFile, FileInv, Typed
  <2>2. /\ removers[w] \in Seq(Paths) /\ removers'[w] = Append(removers[w], p)
        /\ files' = [files EXCEPT ![p] = File("empty", w)]
        /\ files[p] = Absent
    BY <1>2 DEF FileInv, Typed, Exists
  <2>3. /\ removers'[w] \in Seq(Paths)
        /\ Len(removers'[w]) = Len(removers[w]) + 1
        /\ removers'[w][Len(removers[w]) + 1] = p
        /\ \A i \in 1 .. Len(removers[w]) : removers'[w][i] = removers[w][i]
    BY <2>2, Appended
  <2>4. File("empty", w) # Absent /\ File("empty", w) \in {Absent} \cup [is : Kinds, of : Writers]
    BY FileTyped DEF Kinds
  <2>5. Guarded(removers', files')
    <3>1. /\ removers \in [Writers -> Seq(Paths)]
          /\ files = [x \in Paths |-> files[x]]
          /\ Guarded(removers, files)
      BY DEF FileInv, Typed
    <3> DEFINE empty == File("empty", w)
    <3>2. empty # Absent
      BY <2>4
    <3>3. files' = [files EXCEPT ![p] = empty]
      BY <2>2
    <3> HIDE DEF empty
    <3>4. Guarded([removers EXCEPT ![w] = Append(@, p)], [files EXCEPT ![p] = empty])
      BY <2>2, <3>1, <3>2, GuardedCreate
    <3> QED
      BY <1>2, <3>3, <3>4
  <2>6. Typed'
    <3>1. removers' \in [Writers -> Seq(Paths)]
      BY <1>2, <2>2, <2>3 DEF FileInv, Typed
    <3>2. files' \in [Paths -> {Absent} \cup [is : Kinds, of : Writers]]
      BY <1>2, <2>4 DEF FileInv, Typed
    <3> QED
      BY <1>2, <2>1, <3>1, <3>2 DEF FileInv, Typed
  <2>7. \A v \in Writers \ {w} : removers'[v] = removers[v]
    BY <1>2 DEF FileInv, Typed
  <2>8. /\ files'[p] = File("empty", w)
        /\ \A q \in Paths \ {p} : files'[q] = files[q]
    BY <1>2 DEF FileInv, Typed
  <2>9. Owns(removers', w, p)
    <3>1. Len(removers[w]) \in Nat
      BY Distinct
    <3>2. Len(removers[w]) + 1 \in 1 .. Len(removers'[w])
      BY <2>3, <3>1
    <3> QED
      BY <2>3, <3>2 DEF Owns
  <2>10. \A v \in Writers \ {w} : \A i \in 1 .. Len(removers[v]) :
           files'[removers[v][i]] = files[removers[v][i]]
    BY <1>2, <2>5, <2>7, <2>8, <2>9, Undisturbed DEF FileInv
  <2>11. Shape(w)'
    <3>1. CASE here = "object" /\ there = "executable"
      <4>1. Len(removers[w]) = 0
        BY <2>1, <3>1 DEF FileInv, Shape
      <4>2. Len(removers'[w]) = 1
        BY <2>3, <4>1
      <4> QED
        BY <2>1, <3>1, <4>2 DEF Shape, Most
    <3>2. CASE here = "executable" /\ there = "write"
      <4>1. Len(removers[w]) = 1
        BY <2>1, <3>2 DEF FileInv, Shape
      <4>2. Len(removers'[w]) = 2
        BY <2>3, <4>1
      <4> QED
        BY <2>1, <3>2, <4>2 DEF Shape, Most
    <3>3. CASE here = "library" /\ there = "import"
      <4>1. Len(removers[w]) = 2 /\ w \in Windows
        BY <2>1, <3>3 DEF FileInv, Shape
      <4>2. Len(removers'[w]) = 3
        BY <2>3, <4>1
      <4> QED
        BY <2>1, <3>3, <4>1, <4>2 DEF Shape, Most
    <3> QED
      BY <3>1, <3>2, <3>3
  <2>12. Content(w)'
    <3>1. CASE there = "executable"
      BY <2>1, <3>1 DEF Content, Written
    <3>2. CASE there = "write"
      <4>1. Len(removers[w]) = 1
        BY <2>1, <3>2 DEF FileInv, Shape
      <4> QED
        BY <2>1, <2>3, <2>8, <3>2, <4>1 DEF Content, Written, ExecutableFile
    <3>3. CASE there = "import"
      <4>1. Len(removers[w]) = 2 /\ Content(w) /\ pc[w] = "library"
        BY <2>1, <3>3 DEF FileInv, Shape
      <4>2. files[ObjectFile(w)] = File("object", w) /\ files[ExecutableFile(w)] = File("empty", w)
        BY <4>1 DEF Content, Written
      <4>3. ObjectFile(w)' = ObjectFile(w) /\ ExecutableFile(w)' = ExecutableFile(w)
        BY <2>3, <4>1 DEF ObjectFile, ExecutableFile
      <4>4. ObjectFile(w) \in Paths \ {p} /\ ExecutableFile(w) \in Paths \ {p}
        BY <2>2, <4>1, <4>2, Distinct, FileTyped DEF Kinds
      <4>5. files'[ObjectFile(w)'] = File("object", w) /\ files'[ExecutableFile(w)'] = File("empty", w)
        BY <2>8, <4>2, <4>3, <4>4
      <4> QED
        BY <2>1, <3>3, <4>5 DEF Content, Written
    <3> QED
      BY <3>1, <3>2, <3>3
  <2> QED
    BY <1>2, <2>1, <2>5, <2>6, <2>7, <2>10, <2>11, <2>12, OneWriterStep
<1> QED
  BY <1>1, <1>2 DEF CreateTemporaryFile, Goto

(* The end of a scope: the last FileRemover of w removes its file. *)
LEMMA RemoveStep ==
  ASSUME FileInv, NEW w \in Writers, NEW label \in {"copy", "unwind"},
         pc' = [pc EXCEPT ![w] = label],
         removers[w] # <<>>, RemoveLast(w),
         (pc[w] = "linked" /\ w \in Windows) \/ pc[w] = "unwind",
         pc[w] = "linked" <=> label = "copy",
         UNCHANGED <<outcome, output, lld_mutex, can_run_lld>>
  PROVE  FileInv'
<1> DEFINE q == Last(removers[w])
<1>1. /\ removers' = [removers EXCEPT ![w] = Front(@)]
      /\ files' = [files EXCEPT ![q] = Absent]
      /\ removers[w] \in Seq(Paths) /\ removers'[w] = Front(removers[w])
  BY DEF RemoveLast, FileInv, Typed
<1>2. /\ Len(removers[w]) \in Nat \ {0}
      /\ removers'[w] \in Seq(Paths)
      /\ Len(removers'[w]) = Len(removers[w]) - 1
      /\ q = removers[w][Len(removers[w])] /\ q \in Paths
      /\ \A i \in 1 .. Len(removers[w]) - 1 : removers'[w][i] = removers[w][i]
  BY <1>1, WithoutLast
<1> HIDE DEF q
<1>3. Guarded(removers', files')
  BY <1>1, GuardedRemove DEF FileInv, Typed, q
<1>4. Typed'
  <2>1. removers' \in [Writers -> Seq(Paths)]
    BY <1>1, <1>2 DEF FileInv, Typed
  <2>2. files' \in [Paths -> {Absent} \cup [is : Kinds, of : Writers]]
    BY <1>1 DEF FileInv, Typed
  <2> QED
    BY <2>1, <2>2 DEF FileInv, Typed, Labels
<1>5. \A v \in Writers \ {w} : removers'[v] = removers[v]
  BY <1>1 DEF FileInv, Typed
<1>6. \A p \in Paths \ {q} : files'[p] = files[p]
  BY <1>1 DEF FileInv, Typed
<1>7. Owns(removers, w, q)
  <2>1. Len(removers[w]) \in 1 .. Len(removers[w])
    BY <1>2
  <2> QED
    BY <1>2, <2>1 DEF Owns
<1>8. \A v \in Writers \ {w} : \A i \in 1 .. Len(removers[v]) :
        files'[removers[v][i]] = files[removers[v][i]]
  BY <1>2, <1>3, <1>5, <1>6, <1>7, Undisturbed DEF FileInv
<1>9. pc'[w] = label /\ Shape(w) /\ Content(w)
  BY DEF FileInv, Typed
<1>10. Shape(w)'
  <2>1. Len(removers[w]) \in 1 .. Most(w)
    BY <1>2, <1>9 DEF Shape
  <2>2. pc[w] = "linked" => Len(removers'[w]) = 2
    BY <1>2, <1>9 DEF Shape, Most
  <2> QED
    BY <1>2, <1>9, <2>1, <2>2 DEF Shape, Most
<1>11. Content(w)'
  <2>1. CASE label = "copy"
    <3>1. pc[w] = "linked" /\ w \in Windows /\ Len(removers[w]) = 3
      BY <1>9, <2>1 DEF Shape, Most
    <3>2. /\ ExecutableFile(w)' = ExecutableFile(w)
          /\ q = LibraryFile(w)
      BY <1>2, <3>1 DEF ExecutableFile, LibraryFile
    <3>3. ExecutableFile(w) \in Paths \ {q}
      <4>1. Len(removers[w]) >= 2 /\ Len(removers[w]) >= 3
        BY <3>1
      <4>2. ExecutableFile(w) \in Paths /\ LibraryFile(w) # ExecutableFile(w)
        BY <4>1, Distinct
      <4> QED
        BY <3>2, <4>2
    <3>4. files[ExecutableFile(w)] = File("executable", w)
      BY <1>9, <3>1 DEF Content
    <3>5. files'[ExecutableFile(w)'] = File("executable", w)
      BY <1>6, <3>2, <3>3, <3>4
    <3> QED
      BY <1>9, <2>1, <3>5 DEF Content, Written
  <2>2. CASE label = "unwind"
    BY <1>9, <2>2 DEF Content, Written
  <2> QED
    BY <2>1, <2>2
<1> QED
  BY <1>3, <1>4, <1>5, <1>8, <1>10, <1>11, OneWriterStep DEF Labels

(* write_object and write_windows_import_library write a file the call owns. *)
LEMMA WriteFileStep ==
  ASSUME FileInv, NEW w \in Writers, NEW here, NEW there \in Labels,
         NEW i \in 1 .. Len(removers[w]), NEW kind \in {"object", "library"},
         WriteFile(w, here, removers[w][i], kind, there),
         files' = [files EXCEPT ![removers[w][i]] = File(kind, w)] /\ Goto(w, there)
         /\ UNCHANGED outcome => Shape(w)' /\ Content(w)'
  PROVE  FileInv'
<1>1. UNCHANGED <<removers, output, lld_mutex, can_run_lld>>
  BY DEF WriteFile
<1>2. ASSUME NEW k \in Kinds
      PROVE  [files EXCEPT ![removers[w][i]] = File(k, w)]
               \in [Paths -> {Absent} \cup [is : Kinds, of : Writers]]
  BY FileTyped DEF FileInv, Typed
<1>3. CASE /\ files' = [files EXCEPT ![removers[w][i]] = File(kind, w)]
           /\ Goto(w, there) /\ UNCHANGED outcome
  <2>1. kind \in Kinds
    BY DEF Kinds
  <2>2. Typed'
    BY <1>1, <1>2, <1>3, <2>1 DEF FileInv, Typed, Goto
  <2> QED
    BY <1>1, <1>3, <2>1, <2>2, WriteStep DEF Goto
<1>4. CASE files' = files /\ Throw(w)
  BY <1>1, <1>4, ThrowStep DEF FileInv, Typed
<1>5. CASE files' = [files EXCEPT ![removers[w][i]] = File("partial", w)] /\ Throw(w)
  <2>1. pc' = [pc EXCEPT ![w] = "unwind"] /\ outcome' = [outcome EXCEPT ![w] = "thrown"]
    BY <1>5 DEF Throw, Goto
  <2>2. "partial" \in Kinds
    BY DEF Kinds
  <2>3. Typed'
    BY <1>1, <1>2, <1>5, <2>1, <2>2 DEF FileInv, Typed, Labels
  <2>4. Shape(w)' /\ Content(w)'
    BY <1>1, <2>1 DEF FileInv, Typed, Shape, Content, Written, Most
  <2>5. \A v \in Writers \ {w} : outcome'[v] = outcome[v] /\ output'[v] = output[v]
    BY <1>1, <2>1 DEF FileInv, Typed
  <2> QED
    BY <1>1, <1>5, <2>1, <2>2, <2>3, <2>4, <2>5, WriteStep DEF Labels
<1> QED
  BY <1>3, <1>4, <1>5 DEF WriteFile

LEMMA WriteObjectStep ==
  ASSUME FileInv, NEW w \in Writers, WriteObject(w)
  PROVE  FileInv'
<1>1. pc[w] = "write" /\ Shape(w) /\ Content(w) /\ UNCHANGED removers
  BY DEF WriteObject, WriteFile, FileInv
<1>2. Len(removers[w]) = 2
  BY <1>1 DEF Shape
<1>3. 1 \in 1 .. Len(removers[w])
  BY <1>2
<1>4. AfterObject(w) \in Labels
  BY DEF AfterObject, Labels
<1>5. ASSUME files' = [files EXCEPT ![removers[w][1]] = File("object", w)],
             Goto(w, AfterObject(w)), UNCHANGED outcome
      PROVE  Shape(w)' /\ Content(w)'
  <2>1. /\ pc'[w] = AfterObject(w)
        /\ AfterObject(w) \in {"lock", "library", "unsupported"}
        /\ AfterObject(w) = "lock" => w \notin Windows
        /\ AfterObject(w) = "library" => w \in Windows
    BY <1>5, WritersAssumption DEF Goto, AfterObject, FileInv, Typed
  <2>2. Shape(w)'
    BY <1>1, <1>2, <2>1 DEF Shape, Most
  <2>3. Len(removers[w]) >= 1 /\ Len(removers[w]) >= 2
    BY <1>2
  <2>4. /\ ObjectFile(w) \in Paths /\ ExecutableFile(w) \in Paths
        /\ ObjectFile(w) # ExecutableFile(w)
    BY <2>3, Distinct
  <2>5. files[ExecutableFile(w)] = File("empty", w)
    BY <1>1 DEF Content
  <2>6. files'[ObjectFile(w)] = File("object", w) /\ files'[ExecutableFile(w)] = File("empty", w)
    BY <1>5, <2>4, <2>5 DEF ObjectFile, FileInv, Typed
  <2>7. ObjectFile(w)' = ObjectFile(w) /\ ExecutableFile(w)' = ExecutableFile(w)
    BY <1>1 DEF ObjectFile, ExecutableFile
  <2>8. Content(w)'
    BY <2>1, <2>6, <2>7 DEF Content, Written
  <2> QED
    BY <2>2, <2>8
<1>6. WriteFile(w, "write", removers[w][1], "object", AfterObject(w))
  BY DEF WriteObject, ObjectFile
<1> QED
  BY <1>3, <1>4, <1>5, <1>6, WriteFileStep

LEMMA WriteImportLibraryStep ==
  ASSUME FileInv, NEW w \in Writers, WriteImportLibrary(w)
  PROVE  FileInv'
<1>1. pc[w] = "import" /\ Shape(w) /\ Content(w) /\ UNCHANGED removers
  BY DEF WriteImportLibrary, WriteFile, FileInv
<1>2. Len(removers[w]) = 3 /\ w \in Windows
  BY <1>1 DEF Shape, Most
<1>3. 3 \in 1 .. Len(removers[w])
  BY <1>2
<1>4. ASSUME files' = [files EXCEPT ![removers[w][3]] = File("library", w)],
             Goto(w, "lock"), UNCHANGED outcome
      PROVE  Shape(w)' /\ Content(w)'
  <2>1. pc'[w] = "lock"
    BY <1>4 DEF Goto, FileInv, Typed
  <2>2. Shape(w)'
    BY <1>1, <1>2, <2>1 DEF Shape, Most
  <2>3. Len(removers[w]) >= 1 /\ Len(removers[w]) >= 2 /\ Len(removers[w]) >= 3
    BY <1>2
  <2>4. /\ ObjectFile(w) \in Paths /\ ExecutableFile(w) \in Paths /\ LibraryFile(w) \in Paths
        /\ LibraryFile(w) # ExecutableFile(w) /\ LibraryFile(w) # ObjectFile(w)
    BY <2>3, Distinct
  <2>5. files[ObjectFile(w)] = File("object", w) /\ files[ExecutableFile(w)] = File("empty", w)
    BY <1>1 DEF Content, Written
  <2>6. /\ files'[ObjectFile(w)] = File("object", w)
        /\ files'[ExecutableFile(w)] = File("empty", w)
        /\ files'[LibraryFile(w)] = File("library", w)
    BY <1>4, <2>4, <2>5 DEF LibraryFile, FileInv, Typed
  <2>7. /\ ObjectFile(w)' = ObjectFile(w) /\ ExecutableFile(w)' = ExecutableFile(w)
        /\ LibraryFile(w)' = LibraryFile(w)
    BY <1>1 DEF ObjectFile, ExecutableFile, LibraryFile
  <2>8. Content(w)'
    BY <2>1, <2>6, <2>7 DEF Content, Written
  <2> QED
    BY <2>2, <2>8
<1>5. WriteFile(w, "import", removers[w][3], "library", "lock")
  BY DEF WriteImportLibrary, LibraryFile
<1> QED
  BY <1>3, <1>4, <1>5, WriteFileStep DEF Labels

(* LLD runs with the complete files of w, so what it links is w's.          *)
LEMMA LldMainStep ==
  ASSUME FileInv, NEW w \in Writers, LldMain(w)
  PROVE  FileInv'
<1>1. /\ pc[w] = "lldMain" /\ Shape(w) /\ Content(w)
      /\ UNCHANGED <<removers, output>>
      /\ lld_mutex' = NoWriter /\ can_run_lld' \in BOOLEAN
  BY DEF LldMain, FileInv
<1>2. Len(removers[w]) \in Nat /\ Len(removers[w]) >= 2
  BY <1>1 DEF Shape, Most
<1>3. 2 \in 1 .. Len(removers[w])
  BY <1>2
<1>4. files[ObjectFile(w)].of = w
  BY <1>1 DEF Content, Written, File
<1>5. \/ /\ files' = [files EXCEPT ![removers[w][2]] = File("executable", w)]
         /\ Goto(w, "linked") /\ UNCHANGED outcome
      \/ /\ \/ files' = [files EXCEPT ![removers[w][2]] = File("executable", w)]
            \/ files' = [files EXCEPT ![removers[w][2]] = File("partial", w)]
         /\ Throw(w)
      \/ files' = files /\ Throw(w)
  BY <1>4 DEF LldMain, Linked, NotLinked, ExecutableFile
<1>6. ASSUME NEW kind \in {"executable", "partial"},
             files' = [files EXCEPT ![removers[w][2]] = File(kind, w)]
      PROVE  /\ kind \in Kinds
             /\ files' \in [Paths -> {Absent} \cup [is : Kinds, of : Writers]]
  BY <1>6, FileTyped DEF FileInv, Typed, Kinds
<1>7. CASE /\ files' = [files EXCEPT ![removers[w][2]] = File("executable", w)]
           /\ Goto(w, "linked") /\ UNCHANGED outcome
  <2>1. pc' = [pc EXCEPT ![w] = "linked"] /\ pc'[w] = "linked"
    BY <1>7 DEF Goto, FileInv, Typed
  <2>2. Typed'
    BY <1>1, <1>6, <1>7, <2>1 DEF FileInv, Typed, Labels
  <2>3. Shape(w)'
    BY <1>1, <2>1 DEF Shape
  <2>4. ExecutableFile(w) \in Paths
    BY <1>2, Distinct
  <2>5. files'[ExecutableFile(w)'] = File("executable", w)
    BY <1>1, <1>7, <2>4 DEF ExecutableFile, FileInv, Typed
  <2>6. Content(w)'
    BY <2>1, <2>5 DEF Content, Written
  <2> QED
    BY <1>1, <1>3, <1>6, <1>7, <2>1, <2>2, <2>3, <2>6, WriteStep DEF Labels
<1>8. ASSUME NEW kind \in {"executable", "partial"},
             files' = [files EXCEPT ![removers[w][2]] = File(kind, w)], Throw(w)
      PROVE  FileInv'
  <2>1. /\ pc' = [pc EXCEPT ![w] = "unwind"] /\ pc'[w] = "unwind"
        /\ outcome' = [outcome EXCEPT ![w] = "thrown"]
    BY <1>8 DEF Throw, Goto, FileInv, Typed
  <2>2. Typed'
    BY <1>1, <1>6, <1>8, <2>1 DEF FileInv, Typed, Labels
  <2>3. Shape(w)' /\ Content(w)'
    BY <1>1, <2>1 DEF FileInv, Typed, Shape, Content, Written, Most
  <2>4. \A v \in Writers \ {w} : outcome'[v] = outcome[v] /\ output'[v] = output[v]
    BY <1>1, <2>1 DEF FileInv, Typed
  <2> QED
    BY <1>1, <1>3, <1>6, <1>8, <2>1, <2>2, <2>3, <2>4, WriteStep DEF Labels
<1>9. CASE files' = files /\ Throw(w)
  BY <1>1, <1>9, ThrowStep DEF FileInv, Typed
<1> QED
  BY <1>5, <1>7, <1>8, <1>9

(* A step that only moves w on, within the critical section or towards it. *)
LEMMA MoveStep ==
  ASSUME FileInv, NEW w \in Writers, NEW label \in Labels,
         pc' = [pc EXCEPT ![w] = label],
         lld_mutex' \in Writers \cup {NoWriter}, can_run_lld' \in BOOLEAN,
         UNCHANGED <<removers, files, output, outcome>>,
         \/ pc[w] = "lock" /\ label = "check"
         \/ pc[w] = "check" /\ label = "lldMain"
         \/ pc[w] = "linked" /\ w \notin Windows /\ label = "copy"
  PROVE  FileInv'
<1>1. pc'[w] = label /\ Shape(w) /\ Content(w)
  BY DEF FileInv, Typed
<1>2. Typed'
  BY DEF FileInv, Typed
<1>3. Shape(w)'
  BY <1>1 DEF Shape, Most
<1>4. Content(w)'
  BY <1>1 DEF Content, Written, ObjectFile, ExecutableFile, LibraryFile
<1> QED
  BY <1>2, <1>3, <1>4, SameFilesStep

LEMMA CopyExecutableStep ==
  ASSUME FileInv, NEW w \in Writers, CopyExecutable(w)
  PROVE  FileInv'
<1>1. /\ pc[w] = "copy" /\ Shape(w) /\ Content(w)
      /\ UNCHANGED <<removers, files, lld_mutex, can_run_lld>>
  BY DEF CopyExecutable, FileInv
<1>2. files[ExecutableFile(w)] = File("executable", w)
  BY <1>1 DEF Content
<1>3. CASE /\ output' = [output EXCEPT ![w] = w]
           /\ outcome' = [outcome EXCEPT ![w] = "returned"]
           /\ Goto(w, "unwind")
  <2>1. pc' = [pc EXCEPT ![w] = "unwind"] /\ pc'[w] = "unwind" /\ output'[w] = w
    BY <1>3 DEF Goto, FileInv, Typed
  <2>2. Typed'
    BY <1>1, <1>3, <2>1 DEF FileInv, Typed, Labels
  <2>3. Shape(w)' /\ Content(w)'
    BY <1>1, <2>1 DEF Shape, Content, Written, Most
  <2>4. \A v \in Writers \ {w} : outcome'[v] = outcome[v] /\ output'[v] = output[v]
    BY <1>3 DEF FileInv, Typed
  <2> QED
    BY <1>1, <2>1, <2>2, <2>3, <2>4, SameFilesStep DEF Labels
<1>4. CASE \E written \in {"nothing", "partial"} :
             output' = [output EXCEPT ![w] = written] /\ Throw(w)
  <2>1. Throw(w)
    BY <1>4
  <2>2. /\ output' \in [Writers -> {"nothing", "partial"} \cup Writers]
        /\ \A v \in Writers \ {w} : output'[v] = output[v]
    BY <1>4 DEF FileInv, Typed
  <2> QED
    BY <1>1, <2>1, <2>2, ThrowStep DEF FileInv, Typed
<1>5. \/ /\ output' = [output EXCEPT ![w] = w]
         /\ outcome' = [outcome EXCEPT ![w] = "returned"]
         /\ Goto(w, "unwind")
      \/ \E written \in {"nothing", "partial"} :
           output' = [output EXCEPT ![w] = written] /\ Throw(w)
  BY <1>2 DEF CopyExecutable, File
<1> QED
  BY <1>3, <1>4, <1>5

(* The beginning and the end of a call, outside of which it holds nothing. *)
LEMMA CallOrLeaveStep ==
  ASSUME FileInv, NEW w \in Writers, Call(w) \/ Leave(w)
  PROVE  FileInv'
<1>1. /\ Shape(w) /\ removers[w] \in Seq(Paths)
      /\ UNCHANGED <<removers, files, lld_mutex, can_run_lld>>
  BY DEF Call, Leave, FileInv, Typed
<1>2. Len(removers[w]) = 0
  BY <1>1, EmptySeq DEF Call, Leave, Shape
<1>3. PICK label \in {"object", "idle"} : pc' = [pc EXCEPT ![w] = label]
  BY DEF Call, Leave, Goto
<1>4. pc'[w] = label /\ label \in Labels
  BY <1>3 DEF FileInv, Typed, Labels
<1>5. /\ outcome' \in [Writers -> {"none", "returned", "thrown"}]
      /\ output' \in [Writers -> {"nothing", "partial"} \cup Writers]
      /\ \A v \in Writers \ {w} : outcome'[v] = outcome[v] /\ output'[v] = output[v]
  <2>1. CASE Call(w)
    BY <2>1 DEF Call, FileInv, Typed
  <2>2. CASE Leave(w)
    BY <2>2 DEF Leave, FileInv, Typed
  <2> QED
    BY <2>1, <2>2
<1>6. Typed'
  BY <1>1, <1>3, <1>4, <1>5 DEF FileInv, Typed
<1>7. Shape(w)' /\ Content(w)'
  BY <1>1, <1>2, <1>4 DEF Shape, Content, Written, Most
<1> QED
  BY <1>1, <1>3, <1>4, <1>5, <1>6, <1>7, SameFilesStep

LEMMA FileInvStep == FileInv /\ [Next]_vars => FileInv'
<1> SUFFICES ASSUME FileInv, [Next]_vars PROVE FileInv'
  OBVIOUS
<1>1. CASE UNCHANGED vars
  BY <1>1 DEF vars, FileInv, Typed, Guarded, Owns, Shape, Content, Exists,
     ObjectFile, ExecutableFile, LibraryFile
<1>2. ASSUME NEW w \in Writers, Call(w) \/ Step(w)
      PROVE  FileInv'
  <2>1. CASE CreateObject(w)
    BY <2>1, CreateStep DEF CreateObject, Labels
  <2>2. CASE CreateExecutable(w)
    BY <2>2, CreateStep DEF CreateExecutable, Labels
  <2>3. CASE CreateLibrary(w)
    BY <2>3, CreateStep DEF CreateLibrary, Labels
  <2>4. CASE UnsupportedTarget(w)
    BY <2>4, ThrowStep DEF UnsupportedTarget, FileInv, Typed
  <2>5. CASE Lock(w)
    BY <2>5, MoveStep DEF Lock, Goto, FileInv, Typed, Labels
  <2>6. CASE CheckCanRun(w)
    <3>1. CASE can_run_lld
      BY <2>6, <3>1, MoveStep DEF CheckCanRun, Goto, FileInv, Typed, Labels
    <3>2. CASE ~can_run_lld
      BY <2>6, <3>2, ThrowStep DEF CheckCanRun, FileInv, Typed
    <3> QED
      BY <3>1, <3>2
  <2>7. CASE LeaveLinker(w)
    <3>1. pc[w] = "linked" /\ pc' = [pc EXCEPT ![w] = "copy"]
      BY <2>7 DEF LeaveLinker, Goto
    <3>2. CASE w \in Windows
      <4>1. Len(removers[w]) = 3
        BY <3>1, <3>2 DEF FileInv, Shape, Most
      <4>2. removers[w] # <<>>
        BY <4>1, EmptySeq
      <4> QED
        BY <2>7, <3>1, <3>2, <4>2, RemoveStep DEF LeaveLinker
    <3>3. CASE w \notin Windows
      BY <2>7, <3>1, <3>3, MoveStep DEF LeaveLinker, FileInv, Typed, Labels
    <3> QED
      BY <3>2, <3>3
  <2>8. CASE Unwind(w)
    <3>1. pc' = [pc EXCEPT ![w] = "unwind"]
      BY <2>8 DEF Unwind, FileInv, Typed
    <3> QED
      BY <2>8, <3>1, RemoveStep DEF Unwind
  <2> QED
    BY <1>2, <2>1, <2>2, <2>3, <2>4, <2>5, <2>6, <2>7, <2>8, CallOrLeaveStep,
       WriteObjectStep, WriteImportLibraryStep, LldMainStep, CopyExecutableStep DEF Step
<1> QED
  BY <1>1, <1>2 DEF Next

LEMMA FileInvAlways == Spec => []FileInv
BY FileInvInitially, FileInvStep, PTL DEF Spec

-----------------------------------------------------------------------------
(* The variables have their types, and a call holds an import library only *)
(* when it links for Windows.                                              *)
THEOREM TypeCorrect == Spec => []TypeOK
<1>1. FileInv => TypeOK
  <2> SUFFICES ASSUME FileInv PROVE TypeOK
    OBVIOUS
  <2>1. \A w \in Writers : Len(removers[w]) <= IF w \in Windows THEN 3 ELSE 2
    BY DEF FileInv, Shape, Most
  <2> QED
    BY <2>1 DEF FileInv, Typed, TypeOK
<1> QED
  BY <1>1, FileInvAlways, PTL

(* Whatever fails, and however many calls interleave, every temporary file *)
(* has exactly one FileRemover of a call in progress: none is left behind, *)
(* none is removed under another call.                                     *)
THEOREM NoFileLeaks == Spec => []FilesAreGuarded
<1>1. FileInv => FilesAreGuarded
  <2> SUFFICES ASSUME FileInv PROVE FilesAreGuarded
    OBVIOUS
  <2>1. \A w \in Writers : /\ removers[w] \in Seq(Paths)
                           /\ DOMAIN removers[w] = 1 .. Len(removers[w])
    BY LenProperties DEF FileInv, Typed
  <2>2. \A w \in Writers, p \in Paths : p \in Range(removers[w]) <=> Owns(removers, w, p)
    BY <2>1 DEF Range, Owns
  <2>3. \A p \in Paths : Exists(p) <=> \E w \in Writers : p \in Range(removers[w])
    BY <2>2 DEF FileInv, Guarded, Exists
  <2>4. \A v, w \in Writers : \A i \in DOMAIN removers[v], j \in DOMAIN removers[w] :
          removers[v][i] = removers[w][j] => v = w /\ i = j
    BY <2>1 DEF FileInv, Guarded
  <2>5. \A w \in Writers : pc[w] = "idle" => removers[w] = <<>>
    BY <2>1, EmptySeq DEF FileInv, Shape
  <2> QED
    BY <2>3, <2>4, <2>5 DEF FilesAreGuarded
<1> QED
  BY <1>1, FileInvAlways, PTL

(* The files LLD reads are complete and written by the thread that called. *)
THEOREM InputsAreWhole == Spec => []InputsStayWhole
<1>1. FileInv => InputsStayWhole
  <2> SUFFICES ASSUME FileInv, NEW w \in Writers, pc[w] = "lldMain"
               PROVE  /\ files[ObjectFile(w)] = File("object", w)
                      /\ files[ExecutableFile(w)].of = w
                      /\ w \in Windows => files[LibraryFile(w)] = File("library", w)
    BY DEF InputsStayWhole
  <2>1. /\ files[ObjectFile(w)] = File("object", w)
        /\ files[ExecutableFile(w)] = File("empty", w)
        /\ w \in Windows => files[LibraryFile(w)] = File("library", w)
    BY DEF FileInv, Content, Written
  <2>2. File("empty", w).of = w
    BY DEF File
  <2> QED
    BY <2>1, <2>2
<1> QED
  BY <1>1, FileInvAlways, PTL

(* write returns normally only with the complete executable of its module. *)
THEOREM ReturnCorrect == Spec => []ReturnMeansOwnExecutable
<1>1. FileInv => ReturnMeansOwnExecutable
  BY DEF FileInv, Content, ReturnMeansOwnExecutable
<1> QED
  BY <1>1, FileInvAlways, PTL
=============================================================================
