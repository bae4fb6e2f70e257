----------------------- MODULE ExternalLinkWriterProofs -----------------------
(***************************************************************************)
(* The safety of ExternalLinkWriter, and that it implements                *)
(* ArtifactWriter, for any number of processes, any names of temporary     *)
(* files and any set of library functions.                                 *)
(***************************************************************************)
EXTENDS ExternalLinkWriter, FiniteSetTheorems, SequenceTheorems, TLAPS

-----------------------------------------------------------------------------
(* The text of a module, and what clang makes an executable of.            *)

LEMMA SetToSeqType ==
  ASSUME NEW S, IsFiniteSet(S)
  PROVE  /\ Cardinality(S) \in Nat
         /\ SetToSeq(S) \in [1 .. Cardinality(S) -> S]
         /\ IsInjective(SetToSeq(S))
<1>1. Cardinality(S) \in Nat /\ ExistsBijection(1 .. Cardinality(S), S)
  BY FS_CardinalityType
<1>2. PICK f \in [1 .. Cardinality(S) -> S] : \A a, b \in 1 .. Cardinality(S) : f[a] = f[b] => a = b
  BY <1>1 DEF ExistsBijection, Bijection, Injection, IsInjective
<1>3. IsInjective(f)
  BY <1>2 DEF IsInjective
<1> QED
  BY <1>1, <1>3 DEF SetToSeq

(* Every symbol of the text occurs once. *)
LEMMA TextType ==
  /\ Text \in Seq({"tape", "main"} \cup Functions)
  /\ Len(Text) \in Nat
  /\ \A i, j \in 1 .. Len(Text) : Text[i] = Text[j] => i = j
<1> DEFINE s == SetToSeq(Functions)
           n == Cardinality(Functions)
           h == <<"tape", "main">>
           S == {"tape", "main"} \cup Functions
<1>1. n \in Nat /\ s \in [1 .. n -> Functions] /\ \A i, j \in 1 .. n : s[i] = s[j] => i = j
  BY FunctionsAssumption, SetToSeqType DEF IsInjective
<1> HIDE DEF s, n
<1>2. s \in Seq(S) /\ Len(s) = n
  <2>1. s \in Seq(Functions)
    BY <1>1
  <2>2. Len(s) = n
    BY <1>1, <2>1
  <2> QED
    BY <1>1, <2>2
<1>3. h \in Seq(S) /\ Len(h) = 2 /\ h[1] = "tape" /\ h[2] = "main"
  OBVIOUS
<1> HIDE DEF h
<1>4. Text = h \o s
  BY DEF Text, h, s
<1>5. /\ Text \in Seq(S) /\ Len(Text) = n + 2
      /\ \A i \in 1 .. n + 2 : Text[i] = IF i <= 2 THEN h[i] ELSE s[i - 2]
  <2>1. h \o s \in Seq(S) /\ Len(h \o s) = Len(h) + Len(s)
    BY <1>2, <1>3, ConcatProperties
  <2>2. \A i \in 1 .. Len(h) + Len(s) : (h \o s)[i] = IF i <= Len(h) THEN h[i] ELSE s[i - Len(h)]
    BY <1>2, <1>3, ConcatProperties
  <2> QED
    BY <1>1, <1>2, <1>3, <1>4, <2>1, <2>2
<1>6. ASSUME NEW i \in 1 .. n + 2, NEW j \in 1 .. n + 2, Text[i] = Text[j]
      PROVE  i = j
  <2>1. CASE i <= 2 /\ j <= 2
    BY <1>3, <1>5, <1>6, <2>1
  <2>2. CASE i > 2 /\ j > 2
    <3>1. i - 2 \in 1 .. n /\ j - 2 \in 1 .. n
      BY <1>1, <2>2
    <3>2. s[i - 2] = s[j - 2]
      BY <1>1, <1>5, <1>6, <2>2
    <3> QED
      BY <1>1, <3>1, <3>2
  <2>3. CASE i <= 2 /\ j > 2
    <3>1. j - 2 \in 1 .. n /\ Text[j] = s[j - 2] /\ Text[i] \in {"tape", "main"}
      BY <1>1, <1>3, <1>5, <2>3
    <3> QED
      BY <1>1, <1>6, <3>1, FunctionsAssumption
  <2>4. CASE i > 2 /\ j <= 2
    <3>1. i - 2 \in 1 .. n /\ Text[i] = s[i - 2] /\ Text[j] \in {"tape", "main"}
      BY <1>1, <1>3, <1>5, <2>4
    <3> QED
      BY <1>1, <1>6, <3>1, FunctionsAssumption
  <2> QED
    BY <1>1, <2>1, <2>2, <2>3, <2>4
<1> QED
  BY <1>1, <1>5, <1>6

(* What the stream may have lost is missed by clang. *)
LEMMA CompilesTheWhole ==
  ASSUME NEW text \in Written \cup {Torn}, Compiles(text)
  PROVE  text = Text
<1> DEFINE m == Len(Text)
           S == {"tape", "main"} \cup Functions
<1>1. /\ m \in Nat /\ Text \in Seq(S)
      /\ \A i, j \in 1 .. m : Text[i] = Text[j] => i = j
  BY TextType
<1>2. \A i \in 1 .. m : Text[i] \in S
  BY <1>1, ElementOfSeq
<1>3. PICK n \in 0 .. m : text = SubSeq(Text, 1, n)
  BY DEF Compiles, Written
<1> HIDE DEF m
<1>4. Len(text) = n /\ DOMAIN text = 1 .. n /\ \A i \in 1 .. n : text[i] = Text[i]
  BY <1>1, <1>2, <1>3 DEF m
<1>5. ASSUME n < m
      PROVE  FALSE
  <2>1. n + 1 \in 1 .. m
    BY <1>1, <1>5
  <2>2. Text[n + 1] \in Range(text)
    BY <1>2, <2>1 DEF Compiles
  <2>3. PICK i \in 1 .. n : text[i] = Text[n + 1]
    BY <1>4, <2>2 DEF Range
  <2>4. i \in 1 .. m /\ i # n + 1
    BY <1>1, <1>5
  <2> QED
    BY <1>1, <1>4, <2>1, <2>3, <2>4
<1>6. n = m
  BY <1>1, <1>5
<1>7. SubSeq(Text, 1, Len(Text)) = Text
  BY <1>1
<1> QED
  BY <1>3, <1>6, <1>7 DEF m
-----------------------------------------------------------------------------
(* The files that the FileRemovers of a call can be of.                    *)

LEMMA Removers ==
  ASSUME NEW a, NEW e
  PROVE  /\ Append(<<>>, a) = <<a>> /\ Append(<<a>>, e) = <<a, e>>
         /\ <<a>> # <<>> /\ Last(<<a>>) = a /\ Front(<<a>>) = <<>>
         /\ <<a, e>> # <<>> /\ Last(<<a, e>>) = e /\ Front(<<a, e>>) = <<a>>
         /\ <<a>>[1] = a /\ <<a, e>>[1] = a /\ <<a, e>>[2] = e
         /\ Range(<<>>) = {} /\ Range(<<a>>) = {a} /\ Range(<<a, e>>) = {a, e}
<1>0. /\ <<>> \in Seq({a, e}) /\ <<a>> \in Seq({a, e}) /\ <<a, e>> \in Seq({a, e})
      /\ Len(<<>>) = 0 /\ Len(<<a>>) = 1 /\ Len(<<a, e>>) = 2
      /\ <<a>>[1] = a /\ <<a, e>>[1] = a /\ <<a, e>>[2] = e
  OBVIOUS
<1>1. Append(<<>>, a) = <<a>> /\ Append(<<a>>, e) = <<a, e>>
  <2>1. Append(<<>>, a) \in Seq({a, e}) /\ Append(<<a>>, e) \in Seq({a, e})
    BY <1>0, AppendProperties
  <2>2. Len(Append(<<>>, a)) = 1 /\ Append(<<>>, a)[1] = a
    BY <1>0, AppendProperties
  <2>3. Len(Append(<<a>>, e)) = 2 /\ Append(<<a>>, e)[1] = a /\ Append(<<a>>, e)[2] = e
    BY <1>0, AppendProperties
  <2>4. Append(<<>>, a) = <<a>>
    BY <1>0, <2>1, <2>2, SeqEqual
  <2>5. Append(<<a>>, e) = <<a, e>>
    <3> DEFINE s == Append(<<a>>, e)
               t == <<a, e>>
    <3>1. /\ s \in Seq({a, e}) /\ t \in Seq({a, e}) /\ Len(s) = 2 /\ Len(t) = 2
          /\ s[1] = t[1] /\ s[2] = t[2]
      BY <1>0, <2>1, <2>3
    <3> HIDE DEF s, t
    <3>2. \A i \in 1 .. Len(s) : s[i] = t[i]
      BY <3>1
    <3>3. s = t
      BY <3>1, <3>2, SeqEqual
    <3> QED
      BY <3>3 DEF s, t
  <2> QED
    BY <2>4, <2>5
<1>2. <<a>> # <<>> /\ <<a, e>> # <<>> /\ Last(<<a>>) = a /\ Last(<<a, e>>) = e
  BY DEF Last
<1>3. Front(<<a>>) = <<>>
  BY DEF Front
<1>4. Front(<<a, e>>) = <<a>>
  <2>1. Front(<<a, e>>) = SubSeq(<<a, e>>, 1, 1)
    BY <1>0 DEF Front
  <2>2. /\ SubSeq(<<a, e>>, 1, 1) \in Seq({a, e})
        /\ Len(SubSeq(<<a, e>>, 1, 1)) = 1 /\ SubSeq(<<a, e>>, 1, 1)[1] = a
    BY <1>0
  <2> QED
    BY <1>0, <2>1, <2>2, SeqEqual
<1>5. Range(<<>>) = {} /\ Range(<<a>>) = {a} /\ Range(<<a, e>>) = {a, e}
  BY DEF Range
<1> QED
  BY <1>1, <1>2, <1>3, <1>4, <1>5

-----------------------------------------------------------------------------
(* The invariant.  A process and its clang have to do with the files whose *)
(* names have its id in them, and with nothing else: it is enough to say   *)
(* of every process how its own variables and its own files belong         *)
(* together.                                                               *)

Own(p) == {f \in Paths : f[1] = p}

Kinds == {"absent", "empty", "IR", "partial", "executable", "left"}

Typed ==
  /\ pc \in [Processes -> Labels]
  /\ removers = [p \in Processes |-> removers[p]]
  /\ outcome \in [Processes -> {"none", "returned", "thrown"}]
  /\ output \in [Processes -> {"nothing", "partial"} \cup Processes]
  /\ files = [f \in Paths |-> files[f]]
  /\ \A f \in Paths : files[f].is \in Kinds
  /\ clang \in [Processes -> {"none", "compiling", "linking", "failing", "0", "1"}]

NoFile(p) == removers[p] = <<>>
OneFile(p) == \E a \in Own(p) : removers[p] = <<a>>
TwoFiles(p) == \E a, e \in Own(p) : a # e /\ removers[p] = <<a, e>>

(* How many FileRemovers there are; a call that is unwound or killed may   *)
(* have any number.                                                        *)
Shape(p) ==
  /\ NoFile(p) \/ OneFile(p) \/ TwoFiles(p)
  /\ pc[p] \in {"idle", "artifact"} => NoFile(p)
  /\ pc[p] = "executable" => OneFile(p)
  /\ pc[p] \in {"write", "link", "wait", "copy"} \/ clang[p] # "none" => TwoFiles(p)
  /\ clang[p] # "none" => pc[p] \in {"wait", "dead"}

Left == File("left", Nobody)

(* A file of its own has a FileRemover or is left by a dead predecessor. *)
Guarded(p) ==
  \A f \in Own(p) :
    \/ files[f] = Absent
    \/ files[f] = Left /\ f \notin Range(removers[p])
    \/ files[f].of = p /\ f \in Range(removers[p])

Content(p) ==
  /\ pc[p] \in {"executable", "link", "wait"} \/ clang[p] # "none" => files[Artifact(p)].of = p
  /\ pc[p] \in {"link", "wait"} \/ clang[p] # "none" =>
       files[Artifact(p)].text \in Written \cup {Torn}
  /\ clang[p] \in {"linking", "0"} => files[Artifact(p)].text = Text
  /\ clang[p] = "0" \/ pc[p] = "copy" => files[Executable(p)] = File("executable", p)

Result(p) ==
  /\ pc[p] \notin {"idle", "unwind", "dead"} => output[p] = "nothing"
  /\ pc[p] = "unwind" =>
       \/ outcome[p] = "returned" /\ output[p] = p
       \/ outcome[p] = "thrown" /\ output[p] \in {"nothing", "partial"}

ProcessInv(p) == Shape(p) /\ Guarded(p) /\ Content(p) /\ Result(p)

Inv == Typed /\ \A p \in Processes : ProcessInv(p)

-----------------------------------------------------------------------------
LEMMA AbsentIsNobodys ==
  ASSUME NEW p \in Processes
  PROVE  /\ Absent.of = Nobody /\ Left.of = Nobody /\ Nobody # p
         /\ \A kind : File(kind, p).of = p
BY ProcessesAssumption DEF Absent, Left, File

(* What the names of its files are when there are two. *)
LEMMA TwoNames ==
  ASSUME NEW p \in Processes, TwoFiles(p)
  PROVE  /\ removers[p] = <<Artifact(p), Executable(p)>>
         /\ Artifact(p) \in Own(p) /\ Executable(p) \in Own(p) /\ Artifact(p) # Executable(p)
         /\ Range(removers[p]) = {Artifact(p), Executable(p)}
<1>1. PICK a \in Own(p), e \in Own(p) : a # e /\ removers[p] = <<a, e>>
  BY DEF TwoFiles
<1>2. Artifact(p) = a /\ Executable(p) = e /\ Range(removers[p]) = {a, e}
  <2>1. <<a, e>>[1] = a /\ <<a, e>>[2] = e /\ Range(<<a, e>>) = {a, e}
    BY Removers
  <2> QED
    BY <1>1, <2>1 DEF Artifact, Executable
<1> QED
  BY <1>1, <1>2

LEMMA OneName ==
  ASSUME NEW p \in Processes, OneFile(p)
  PROVE  /\ removers[p] = <<Artifact(p)>> /\ Artifact(p) \in Own(p)
         /\ Range(removers[p]) = {Artifact(p)}
<1>1. PICK a \in Own(p) : removers[p] = <<a>>
  BY DEF OneFile
<1>2. Artifact(p) = a /\ Range(removers[p]) = {a}
  BY <1>1, Removers DEF Artifact
<1> QED
  BY <1>1, <1>2

(* A step of p leaves everything of another process alone, and so what is  *)
(* said of it.                                                             *)
Kept(p) ==
  \A q \in Processes \ {p} :
    /\ pc'[q] = pc[q] /\ removers'[q] = removers[q] /\ outcome'[q] = outcome[q]
    /\ output'[q] = output[q] /\ clang'[q] = clang[q]
    /\ \A f \in Own(q) : files'[f] = files[f]

LEMMA KeptInv ==
  ASSUME NEW p \in Processes, Kept(p), NEW q \in Processes, q # p, ProcessInv(q)
  PROVE  ProcessInv(q)'
<1>1. /\ pc'[q] = pc[q] /\ removers'[q] = removers[q] /\ outcome'[q] = outcome[q]
      /\ output'[q] = output[q] /\ clang'[q] = clang[q]
      /\ \A f \in Own(q) : files'[f] = files[f]
  BY DEF Kept
<1>2. /\ Artifact(q)' = Artifact(q) /\ Executable(q)' = Executable(q) /\ Own(q)' = Own(q)
      /\ (NoFile(q)' <=> NoFile(q)) /\ (OneFile(q)' <=> OneFile(q))
      /\ (TwoFiles(q)' <=> TwoFiles(q))
  BY <1>1 DEF Artifact, Executable, Own, NoFile, OneFile, TwoFiles
<1>3. Shape(q)'
  BY <1>1, <1>2 DEF ProcessInv, Shape
<1>4. Guarded(q)'
  BY <1>1, <1>2 DEF ProcessInv, Guarded
<1>5. /\ OneFile(q) \/ TwoFiles(q) => Artifact(q) \in Own(q)
      /\ TwoFiles(q) => Executable(q) \in Own(q)
  BY OneName, TwoNames
<1>6. Content(q)'
  BY <1>1, <1>2, <1>5 DEF ProcessInv, Content, Shape
<1>7. Result(q)'
  BY <1>1 DEF ProcessInv, Result
<1> QED
  BY <1>3, <1>4, <1>6, <1>7 DEF ProcessInv

(* A file of p is no file of another process. *)
LEMMA SetFile ==
  ASSUME Typed, NEW p \in Processes, NEW f \in Own(p), NEW c, files' = [files EXCEPT ![f] = c],
         c.is \in Kinds
  PROVE  /\ files' = [g \in Paths |-> files'[g]]
         /\ files'[f] = c /\ \A g \in Paths \ {f} : files'[g] = files[g]
         /\ \A g \in Paths : files'[g].is \in Kinds
         /\ \A q \in Processes \ {p} : \A g \in Own(q) : files'[g] = files[g]
BY DEF Typed, Own

StepInv(p) == Typed' /\ ProcessInv(p)' /\ Kept(p)

(* A step that touches no file. *)
LEMMA CallInv ==
  ASSUME Inv, NEW p \in Processes, Call(p)
  PROVE  StepInv(p)
<1>1. Typed /\ ProcessInv(p)
  BY DEF Inv
<1>2. /\ pc' = [pc EXCEPT ![p] = "artifact"] /\ pc[p] = "idle"
      /\ outcome' = [outcome EXCEPT ![p] = "none"] /\ output' = [output EXCEPT ![p] = "nothing"]
      /\ UNCHANGED <<removers, files, clang>>
  BY DEF Call, Goto
<1>3. Typed' /\ Kept(p)
  BY <1>1, <1>2 DEF Typed, Labels, Kept, Own
<1>4. Shape(p)' /\ Guarded(p)'
  BY <1>1, <1>2 DEF Typed, ProcessInv, Shape, Guarded, NoFile, OneFile, TwoFiles, Own
<1>5. Content(p)' /\ Result(p)'
  BY <1>1, <1>2 DEF Typed, ProcessInv, Shape, Content, Result
<1> QED
  BY <1>3, <1>4, <1>5 DEF StepInv, ProcessInv

(* An exception, perhaps after a part of the executable has been written. *)
LEMMA ThrowInv ==
  ASSUME Inv, NEW p \in Processes, pc[p] \notin {"idle", "unwind", "dead"},
         Throw(p), UNCHANGED <<removers, files>>,
         clang' = [clang EXCEPT ![p] = "none"],
         \E r \in {"nothing", "partial"} : output' = [output EXCEPT ![p] = r]
  PROVE  StepInv(p)
<1>1. Typed /\ ProcessInv(p)
  BY DEF Inv
<1>2. pc' = [pc EXCEPT ![p] = "unwind"] /\ outcome' = [outcome EXCEPT ![p] = "thrown"]
  BY DEF Throw, Goto
<1>3. Typed' /\ Kept(p)
  BY <1>1, <1>2 DEF Typed, Labels, Kept, Own
<1>4. Shape(p)' /\ Guarded(p)'
  BY <1>1, <1>2 DEF Typed, ProcessInv, Shape, Guarded, NoFile, OneFile, TwoFiles, Own
<1>5. Content(p)' /\ Result(p)'
  BY <1>1, <1>2 DEF Typed, ProcessInv, Content, Result
<1> QED
  BY <1>3, <1>4, <1>5 DEF StepInv, ProcessInv

(* The same for a step at which neither clang nor the output is touched. *)
LEMMA ThrowAloneInv ==
  ASSUME Inv, NEW p \in Processes, pc[p] \in {"artifact", "executable", "write", "link"},
         Throw(p), UNCHANGED <<removers, files, clang, output>>
  PROVE  StepInv(p)
<1>1. clang[p] = "none" /\ output[p] = "nothing"
  BY DEF Inv, ProcessInv, Shape, Result
<1>2. clang' = [clang EXCEPT ![p] = "none"] /\ output' = [output EXCEPT ![p] = "nothing"]
  BY <1>1 DEF Inv, Typed
<1> QED
  BY <1>2, ThrowInv

LEMMA CreateArtifactInv ==
  ASSUME Inv, NEW p \in Processes, CreateArtifact(p)
  PROVE  StepInv(p)
<1>1. /\ Typed /\ ProcessInv(p) /\ pc[p] = "artifact" /\ UNCHANGED <<output, clang>>
      /\ removers[p] = <<>> /\ clang[p] = "none" /\ output[p] = "nothing"
  BY DEF Inv, ProcessInv, Shape, NoFile, Result, CreateArtifact, CreateTemporaryFile
<1>2. CASE Throw(p) /\ UNCHANGED <<files, removers>>
  BY <1>1, <1>2, ThrowAloneInv
<1>3. ASSUME NEW f \in Own(p), files[f] = Absent,
             files' = [files EXCEPT ![f] = File("empty", p)],
             removers' = [removers EXCEPT ![p] = Append(@, f)],
             pc' = [pc EXCEPT ![p] = "executable"], UNCHANGED outcome
      PROVE  StepInv(p)
  <2>1. File("empty", p).of = p /\ File("empty", p).is = "empty"
    BY DEF File
  <2>2. removers'[p] = <<f>> /\ Range(removers[p]) = {} /\ Range(removers'[p]) = {f}
    <3>1. removers'[p] = Append(<<>>, f)
      BY <1>1, <1>3 DEF Typed
    <3>2. Append(<<>>, f) = <<f>> /\ Range(<<>>) = {} /\ Range(<<f>>) = {f}
      BY Removers
    <3> QED
      BY <1>1, <3>1, <3>2
  <2>3. /\ files' = [g \in Paths |-> files'[g]]
        /\ files'[f] = File("empty", p) /\ \A g \in Paths \ {f} : files'[g] = files[g]
        /\ \A g \in Paths : files'[g].is \in Kinds
        /\ \A q \in Processes \ {p} : \A g \in Own(q) : files'[g] = files[g]
    BY <1>1, <1>3, <2>1, SetFile DEF Kinds
  <2>4. Typed' /\ Kept(p)
    BY <1>1, <1>3, <2>3 DEF Typed, Labels, Kept
  <2>5. Own(p)' = Own(p) /\ f \in Own(p) /\ pc'[p] = "executable"
    BY <1>1, <1>3 DEF Own, Typed
  <2>6. Shape(p)'
    BY <1>1, <2>2, <2>5 DEF Shape, OneFile
  <2>7. Guarded(p)'
    BY <1>1, <2>1, <2>2, <2>3, <2>5 DEF ProcessInv, Guarded, Own
  <2>8. Artifact(p)' = f
    BY <2>2, Removers DEF Artifact
  <2>9. Content(p)' /\ Result(p)'
    BY <1>1, <2>1, <2>3, <2>5, <2>8 DEF Content, Result
  <2> QED
    BY <2>4, <2>6, <2>7, <2>9 DEF StepInv, ProcessInv
<1> QED
  BY <1>2, <1>3 DEF CreateArtifact, CreateTemporaryFile, Prefix, Exists, Own, Goto

LEMMA CreateExecutableInv ==
  ASSUME Inv, NEW p \in Processes, CreateExecutable(p)
  PROVE  StepInv(p)
<1> DEFINE a == Artifact(p)
<1>1. /\ Typed /\ ProcessInv(p) /\ pc[p] = "executable" /\ UNCHANGED <<output, clang>>
      /\ OneFile(p) /\ clang[p] = "none" /\ output[p] = "nothing" /\ files[a].of = p
  BY DEF Inv, ProcessInv, Shape, Content, Result, CreateExecutable, CreateTemporaryFile
<1>2. removers[p] = <<a>> /\ a \in Own(p) /\ Range(removers[p]) = {a}
  BY <1>1, OneName
<1> HIDE DEF a
<1>3. CASE Throw(p) /\ UNCHANGED <<files, removers>>
  BY <1>1, <1>3, ThrowAloneInv
<1>4. ASSUME NEW f \in Own(p), files[f] = Absent,
             files' = [files EXCEPT ![f] = File("empty", p)],
             removers' = [removers EXCEPT ![p] = Append(@, f)],
             pc' = [pc EXCEPT ![p] = "write"], UNCHANGED outcome
      PROVE  StepInv(p)
  <2>1. File("empty", p).of = p /\ File("empty", p).is = "empty" /\ a # f
    BY <1>1, <1>4, AbsentIsNobodys DEF File
  <2>2. removers'[p] = <<a, f>> /\ Range(removers'[p]) = {a, f}
    <3>1. removers'[p] = Append(<<a>>, f)
      BY <1>1, <1>2, <1>4 DEF Typed
    <3>2. Append(<<a>>, f) = <<a, f>> /\ Range(<<a, f>>) = {a, f}
      BY Removers
    <3> QED
      BY <3>1, <3>2
  <2>3. /\ files' = [g \in Paths |-> files'[g]]
        /\ files'[f] = File("empty", p) /\ \A g \in Paths \ {f} : files'[g] = files[g]
        /\ \A g \in Paths : files'[g].is \in Kinds
        /\ \A q \in Processes \ {p} : \A g \in Own(q) : files'[g] = files[g]
    BY <1>1, <1>4, <2>1, SetFile DEF Kinds
  <2>4. Typed' /\ Kept(p)
    BY <1>1, <1>4, <2>3 DEF Typed, Labels, Kept
  <2>5. Own(p)' = Own(p) /\ f \in Own(p) /\ pc'[p] = "write"
    BY <1>1, <1>4 DEF Own, Typed
  <2>6. Shape(p)'
    BY <1>1, <1>2, <2>1, <2>2, <2>5 DEF Shape, TwoFiles
  <2>7. Guarded(p)'
    BY <1>1, <1>2, <2>1, <2>2, <2>3, <2>5 DEF ProcessInv, Guarded, Own
  <2>8. Content(p)' /\ Result(p)'
    BY <1>1, <2>5 DEF Content, Result
  <2> QED
    BY <2>4, <2>6, <2>7, <2>8 DEF StepInv, ProcessInv
<1> QED
  BY <1>3, <1>4 DEF CreateExecutable, CreateTemporaryFile, Prefix, Exists, Own, Goto

LEMMA WriteArtifactInv ==
  ASSUME Inv, NEW p \in Processes, WriteArtifact(p)
  PROVE  StepInv(p)
<1> DEFINE a == Artifact(p)
<1>1. /\ Typed /\ ProcessInv(p) /\ pc[p] = "write" /\ UNCHANGED <<removers, output, clang>>
      /\ TwoFiles(p) /\ clang[p] = "none" /\ output[p] = "nothing"
  BY DEF Inv, ProcessInv, Shape, Result, WriteArtifact
<1>2. a \in Own(p) /\ a \in Range(removers[p])
  BY <1>1, TwoNames
<1>3. CASE Throw(p) /\ UNCHANGED files
  <2>1. UNCHANGED <<removers, files, clang, output>>
    BY <1>1, <1>3
  <2> QED
    BY <1>1, <1>3, <2>1, ThrowAloneInv
<1>4. ASSUME NEW text \in Written \cup {Torn},
             files' = [files EXCEPT ![a] = [is |-> "IR", of |-> p, text |-> text]],
             pc' = [pc EXCEPT ![p] = "link"], UNCHANGED outcome
      PROVE  StepInv(p)
  <2> DEFINE c == [is |-> "IR", of |-> p, text |-> text]
  <2>1. c.of = p /\ c.is = "IR" /\ c.text = text
    OBVIOUS
  <2> HIDE DEF c
  <2>2. files' = [files EXCEPT ![a] = c]
    BY <1>4 DEF c
  <2>3. Artifact(p)' = a /\ Own(p)' = Own(p) /\ TwoFiles(p)' /\ pc'[p] = "link"
    BY <1>1, <1>4 DEF Artifact, Own, TwoFiles, Typed
  <2> HIDE DEF a
  <2>4. /\ files' = [g \in Paths |-> files'[g]]
        /\ files'[a] = c /\ \A g \in Paths \ {a} : files'[g] = files[g]
        /\ \A g \in Paths : files'[g].is \in Kinds
        /\ \A q \in Processes \ {p} : \A g \in Own(q) : files'[g] = files[g]
    BY <1>1, <1>2, <2>1, <2>2, SetFile DEF Kinds
  <2>5. Typed' /\ Kept(p)
    BY <1>1, <1>4, <2>4 DEF Typed, Labels, Kept
  <2>6. Shape(p)'
    BY <1>1, <2>3 DEF Shape
  <2>7. Guarded(p)'
    BY <1>1, <1>2, <2>1, <2>3, <2>4 DEF ProcessInv, Guarded, Own
  <2>8. Content(p)' /\ Result(p)'
    BY <1>1, <1>4, <2>1, <2>3, <2>4 DEF Content, Result
  <2> QED
    BY <2>5, <2>6, <2>7, <2>8 DEF StepInv, ProcessInv
<1> QED
  BY <1>3, <1>4 DEF WriteArtifact, Goto

LEMMA ExecuteClangInv ==
  ASSUME Inv, NEW p \in Processes, ExecuteClang(p)
  PROVE  StepInv(p)
<1>1. /\ Typed /\ ProcessInv(p) /\ pc[p] = "link" /\ UNCHANGED <<removers, output, files>>
  BY DEF Inv, ExecuteClang
<1>2. CASE Throw(p) /\ UNCHANGED clang
  <2>1. UNCHANGED <<removers, files, clang, output>>
    BY <1>1, <1>2
  <2> QED
    BY <1>1, <1>2, <2>1, ThrowAloneInv
<1>3. CASE /\ clang' = [clang EXCEPT ![p] = "compiling"]
           /\ pc' = [pc EXCEPT ![p] = "wait"] /\ UNCHANGED outcome
  <2>1. Typed' /\ Kept(p)
    BY <1>1, <1>3 DEF Typed, Labels, Kept, Own
  <2>2. Shape(p)' /\ Guarded(p)'
    BY <1>1, <1>3 DEF Typed, ProcessInv, Shape, Guarded, NoFile, OneFile, TwoFiles, Own
  <2>3. Content(p)' /\ Result(p)'
    BY <1>1, <1>3 DEF Typed, ProcessInv, Content, Result, Artifact
  <2> QED
    BY <2>1, <2>2, <2>3 DEF StepInv, ProcessInv
<1> QED
  BY <1>2, <1>3 DEF ExecuteClang, Goto

LEMMA WaitForClangInv ==
  ASSUME Inv, NEW p \in Processes, WaitForClang(p)
  PROVE  StepInv(p)
<1>1. /\ Typed /\ ProcessInv(p) /\ pc[p] = "wait" /\ UNCHANGED <<removers, output, files>>
      /\ clang' = [clang EXCEPT ![p] = "none"] /\ output[p] = "nothing"
  BY DEF Inv, ProcessInv, Result, WaitForClang
<1>2. CASE Throw(p)
  <2>1. output' = [output EXCEPT ![p] = "nothing"]
    BY <1>1 DEF Typed
  <2> QED
    BY <1>1, <1>2, <2>1, ThrowInv
<1>3. CASE clang[p] = "0" /\ pc' = [pc EXCEPT ![p] = "copy"] /\ UNCHANGED outcome
  <2>1. Typed' /\ Kept(p)
    BY <1>1, <1>3 DEF Typed, Labels, Kept, Own
  <2>2. Shape(p)' /\ Guarded(p)'
    BY <1>1, <1>3 DEF Typed, ProcessInv, Shape, Guarded, NoFile, OneFile, TwoFiles, Own
  <2>3. Content(p)' /\ Result(p)'
    BY <1>1, <1>3 DEF Typed, ProcessInv, Content, Result, Artifact, Executable
  <2> QED
    BY <2>1, <2>2, <2>3 DEF StepInv, ProcessInv
<1> QED
  BY <1>2, <1>3 DEF WaitForClang, Linked, NotLinked, Goto

LEMMA CopyExecutableInv ==
  ASSUME Inv, NEW p \in Processes, CopyExecutable(p)
  PROVE  StepInv(p)
<1>1. /\ Typed /\ ProcessInv(p) /\ pc[p] = "copy" /\ UNCHANGED <<removers, files, clang>>
      /\ clang[p] = "none" /\ files[Executable(p)] = File("executable", p)
  BY DEF Inv, ProcessInv, Shape, Content, CopyExecutable
<1>2. CASE Throw(p) /\ \E r \in {"nothing", "partial"} : output' = [output EXCEPT ![p] = r]
  <2>1. clang' = [clang EXCEPT ![p] = "none"]
    BY <1>1 DEF Typed
  <2> QED
    BY <1>1, <1>2, <2>1, ThrowInv
<1>3. CASE /\ output' = [output EXCEPT ![p] = p] /\ outcome' = [outcome EXCEPT ![p] = "returned"]
           /\ pc' = [pc EXCEPT ![p] = "unwind"]
  <2>1. Typed' /\ Kept(p)
    BY <1>1, <1>3 DEF Typed, Labels, Kept, Own
  <2>2. Shape(p)' /\ Guarded(p)'
    BY <1>1, <1>3 DEF Typed, ProcessInv, Shape, Guarded, NoFile, OneFile, TwoFiles, Own
  <2>3. Content(p)' /\ Result(p)'
    BY <1>1, <1>3 DEF Typed, ProcessInv, Content, Result
  <2> QED
    BY <2>1, <2>2, <2>3 DEF StepInv, ProcessInv
<1>4. files[Executable(p)].is = "executable" /\ files[Executable(p)].of = p
  BY <1>1 DEF File
<1> QED
  BY <1>2, <1>3, <1>4 DEF CopyExecutable, Goto

(* What clang does, before or after its process has been killed. *)
LEMMA ClangInv ==
  ASSUME Inv, NEW p \in Processes, clang[p] # "none",
         UNCHANGED <<pc, removers, outcome, output>>,
         NEW state \in {"linking", "failing", "0", "1"}, clang' = [clang EXCEPT ![p] = state],
         \/ UNCHANGED files
         \/ \E c : /\ c = Absent \/ c.of = p
                   /\ c.is \in {"absent", "executable", "partial"}
                   /\ files' = [files EXCEPT ![Executable(p)] = c],
         state \in {"linking", "0"} => files[Artifact(p)].text = Text,
         state = "0" => files'[Executable(p)] = File("executable", p)
  PROVE  StepInv(p)
<1> DEFINE a == Artifact(p)
           e == Executable(p)
<1>1. Typed /\ ProcessInv(p) /\ TwoFiles(p) /\ pc[p] \in {"wait", "dead"}
  BY DEF Inv, ProcessInv, Shape
<1>2. /\ a \in Own(p) /\ e \in Own(p) /\ a # e
      /\ a \in Range(removers[p]) /\ e \in Range(removers[p])
  BY <1>1, TwoNames
<1>3. /\ Artifact(p)' = a /\ Executable(p)' = e /\ Own(p)' = Own(p)
      /\ TwoFiles(p)' /\ clang'[p] = state
  BY <1>1 DEF Artifact, Executable, Own, TwoFiles, Typed
<1>4. Shape(p)' /\ Result(p)'
  BY <1>1, <1>3 DEF ProcessInv, Shape, Result, NoFile
<1>5. CASE UNCHANGED files
  <2>1. Typed' /\ Kept(p)
    BY <1>1, <1>5 DEF Typed, Kept, Own
  <2>2. Guarded(p)'
    BY <1>1, <1>3, <1>5 DEF ProcessInv, Guarded
  <2>3. Content(p)'
    BY <1>1, <1>3, <1>5 DEF ProcessInv, Content
  <2> QED
    BY <1>4, <2>1, <2>2, <2>3 DEF StepInv, ProcessInv
<1>6. ASSUME NEW c, c = Absent \/ c.of = p, c.is \in {"absent", "executable", "partial"},
             files' = [files EXCEPT ![e] = c]
      PROVE  StepInv(p)
  <2> HIDE DEF a, e
  <2>1. /\ files' = [g \in Paths |-> files'[g]]
        /\ files'[e] = c /\ \A g \in Paths \ {e} : files'[g] = files[g]
        /\ \A g \in Paths : files'[g].is \in Kinds
        /\ \A q \in Processes \ {p} : \A g \in Own(q) : files'[g] = files[g]
    BY <1>1, <1>2, <1>6, SetFile DEF Kinds
  <2>2. Typed' /\ Kept(p)
    BY <1>1, <2>1 DEF Typed, Kept
  <2>3. Guarded(p)'
    BY <1>1, <1>2, <1>3, <1>6, <2>1 DEF ProcessInv, Guarded, Own
  <2>4. files'[a] = files[a]
    BY <1>2, <2>1 DEF Own
  <2>5. Content(p)'
    BY <1>1, <1>3, <2>1, <2>4 DEF ProcessInv, Content, a, e
  <2> QED
    BY <1>4, <2>2, <2>3, <2>5 DEF StepInv, ProcessInv
<1> QED
  BY <1>5, <1>6

LEMMA ClangStepInv ==
  ASSUME Inv, NEW p \in Processes, ClangStep(p)
  PROVE  StepInv(p)
<1>1. /\ clang[p] \in {"compiling", "linking", "failing"}
      /\ UNCHANGED <<pc, removers, outcome, output>>
  BY DEF ClangStep, ClangReplaces, ClangLinks, ClangFails
<1>2. /\ TwoFiles(p) /\ Content(p) /\ files = [f \in Paths |-> files[f]]
      /\ files[Artifact(p)].of = p /\ files[Artifact(p)].text \in Written \cup {Torn}
  BY <1>1 DEF Inv, ProcessInv, Shape, Content, Typed
<1>3. Absent.is = "absent"
  BY DEF Absent
<1>4. \A kind : File(kind, p).is = kind /\ File(kind, p).of = p
  BY DEF File
<1>5. CASE ClangReplaces(p)
  <2>1. files[Artifact(p)].text = Text
    BY <1>2, <1>5, CompilesTheWhole DEF ClangReplaces
  <2> QED
    BY <1>1, <1>3, <1>5, <2>1, ClangInv DEF ClangReplaces
<1>6. CASE ClangLinks(p)
  <2>1. CASE /\ files' = [files EXCEPT ![Executable(p)] = File("executable", files[Artifact(p)].of)]
             /\ clang' = [clang EXCEPT ![p] = "0"]
    <3>1. files' = [files EXCEPT ![Executable(p)] = File("executable", p)]
      BY <1>2, <2>1
    <3>2. files'[Executable(p)] = File("executable", p)
      BY <1>2, <3>1, TwoNames DEF Own
    <3>3. files[Artifact(p)].text = Text
      BY <1>2, <1>6 DEF ClangLinks, Content
    <3> QED
      BY <1>1, <1>4, <2>1, <3>1, <3>2, <3>3, ClangInv
  <2>2. CASE /\ files' = [files EXCEPT ![Executable(p)] = File("partial", p)]
             /\ clang' = [clang EXCEPT ![p] = "failing"]
    BY <1>1, <1>4, <2>2, ClangInv
  <2> QED
    BY <1>6, <2>1, <2>2 DEF ClangLinks
<1>7. CASE ClangFails(p)
  <2>1. /\ clang' = [clang EXCEPT ![p] = "1"]
        /\ UNCHANGED files \/ files' = [files EXCEPT ![Executable(p)] = Absent]
    BY <1>7 DEF ClangFails
  <2> QED
    BY <1>1, <1>3, <2>1, ClangInv
<1> QED
  BY <1>5, <1>6, <1>7 DEF ClangStep

LEMMA UnwindInv ==
  ASSUME Inv, NEW p \in Processes, Unwind(p)
  PROVE  StepInv(p)
<1> DEFINE f == Last(removers[p])
<1>1. /\ Typed /\ ProcessInv(p) /\ pc[p] = "unwind" /\ clang[p] = "none"
      /\ UNCHANGED <<pc, outcome, output, clang>>
      /\ files' = [files EXCEPT ![f] = Absent] /\ removers' = [removers EXCEPT ![p] = Front(@)]
  BY DEF Inv, ProcessInv, Shape, Unwind
<1>2. /\ f \in Own(p)
      /\ OneFile(p)' \/ NoFile(p)'
      /\ Range(removers[p]) \subseteq Range(removers'[p]) \cup {f}
      /\ f \notin Range(removers'[p]) /\ Range(removers'[p]) \subseteq Range(removers[p])
  <2>1. removers'[p] = Front(removers[p]) /\ Own(p)' = Own(p)
    BY <1>1 DEF Typed, Own
  <2>2. CASE OneFile(p)
    <3>1. PICK a \in Own(p) : removers[p] = <<a>>
      BY <2>2 DEF OneFile
    <3>2. /\ Last(<<a>>) = a /\ Front(<<a>>) = <<>>
          /\ Range(<<>>) = {} /\ Range(<<a>>) = {a}
      BY Removers
    <3> QED
      BY <2>1, <3>1, <3>2 DEF NoFile
  <2>3. CASE TwoFiles(p)
    <3>1. PICK a \in Own(p), e \in Own(p) : a # e /\ removers[p] = <<a, e>>
      BY <2>3 DEF TwoFiles
    <3>2. /\ Last(<<a, e>>) = e /\ Front(<<a, e>>) = <<a>>
          /\ Range(<<a>>) = {a} /\ Range(<<a, e>>) = {a, e}
      BY Removers
    <3> QED
      BY <2>1, <3>1, <3>2 DEF OneFile
  <2> QED
    BY <1>1, <2>2, <2>3 DEF ProcessInv, Shape, NoFile, Unwind
<1> HIDE DEF f
<1>3. Absent.is = "absent"
  BY DEF Absent
<1>4. /\ files' = [g \in Paths |-> files'[g]]
      /\ files'[f] = Absent /\ \A g \in Paths \ {f} : files'[g] = files[g]
      /\ \A g \in Paths : files'[g].is \in Kinds
      /\ \A q \in Processes \ {p} : \A g \in Own(q) : files'[g] = files[g]
  BY <1>1, <1>2, <1>3, SetFile DEF Kinds
<1>5. Typed' /\ Kept(p)
  BY <1>1, <1>4 DEF Typed, Kept
<1>6. Shape(p)'
  BY <1>1, <1>2 DEF Shape
<1>7. Guarded(p)'
  <2>1. Own(p)' = Own(p)
    BY DEF Own
  <2> QED
    BY <1>1, <1>2, <1>4, <2>1 DEF ProcessInv, Guarded, Own
<1>8. Content(p)' /\ Result(p)'
  BY <1>1 DEF ProcessInv, Content, Result
<1> QED
  BY <1>5, <1>6, <1>7, <1>8 DEF StepInv, ProcessInv

LEMMA LeaveInv ==
  ASSUME Inv, NEW p \in Processes, Leave(p)
  PROVE  StepInv(p)
<1>1. /\ Typed /\ ProcessInv(p) /\ removers[p] = <<>> /\ pc[p] = "unwind" /\ clang[p] = "none"
      /\ pc' = [pc EXCEPT ![p] = "idle"] /\ UNCHANGED <<removers, outcome, output, files, clang>>
  BY DEF Inv, ProcessInv, Shape, Leave, Goto
<1>2. Typed' /\ Kept(p)
  BY <1>1 DEF Typed, Labels, Kept, Own
<1>3. Shape(p)' /\ Guarded(p)'
  BY <1>1 DEF Typed, ProcessInv, Shape, Guarded, NoFile, Own
<1>4. Content(p)' /\ Result(p)'
  BY <1>1 DEF Typed, Content, Result
<1> QED
  BY <1>2, <1>3, <1>4 DEF StepInv, ProcessInv

LEMMA KillInv ==
  ASSUME Inv, NEW p \in Processes, Kill(p)
  PROVE  StepInv(p)
<1>1. /\ Typed /\ ProcessInv(p)
      /\ pc' = [pc EXCEPT ![p] = "dead"] /\ UNCHANGED <<removers, outcome, output, files, clang>>
  BY DEF Inv, Kill, Goto
<1>2. Typed' /\ Kept(p)
  BY <1>1 DEF Typed, Labels, Kept, Own
<1>3. Shape(p)' /\ Guarded(p)'
  BY <1>1 DEF Typed, ProcessInv, Shape, Guarded, NoFile, OneFile, TwoFiles, Own
<1>4. Content(p)' /\ Result(p)'
  BY <1>1 DEF Typed, ProcessInv, Content, Result, Artifact, Executable
<1> QED
  BY <1>2, <1>3, <1>4 DEF StepInv, ProcessInv

LEMMA BuryInv ==
  ASSUME Inv, NEW p \in Processes, Bury(p)
  PROVE  StepInv(p)
<1>1. /\ Typed /\ ProcessInv(p)
      /\ pc' = [pc EXCEPT ![p] = "idle"] /\ outcome' = [outcome EXCEPT ![p] = "none"]
      /\ clang' = [clang EXCEPT ![p] = "none"] /\ removers' = [removers EXCEPT ![p] = <<>>]
      /\ output' = [output EXCEPT ![p] = "nothing"]
      /\ files' = [f \in Paths |-> IF files[f].of = p THEN Left ELSE files[f]]
  BY DEF Inv, Bury, Goto, Left
<1>2. Left.is = "left"
  BY DEF Left, File
<1>3. \A q \in Processes \ {p} : \A f \in Own(q) : files[f].of # p
  BY AbsentIsNobodys DEF Inv, ProcessInv, Guarded
<1>4. Typed'
  BY <1>1, <1>2 DEF Typed, Kinds, Labels
<1>5. Kept(p)
  BY <1>1, <1>3 DEF Typed, Kept, Own
<1>6. /\ Own(p)' = Own(p) /\ pc'[p] = "idle" /\ clang'[p] = "none" /\ removers'[p] = <<>>
      /\ Range(<<>>) = {}
  BY <1>1, Removers DEF Own, Typed
<1>7. \A f \in Own(p) : files'[f] = Absent \/ files'[f] = Left
  BY <1>1, AbsentIsNobodys DEF ProcessInv, Guarded, Own
<1>8. Shape(p)' /\ Guarded(p)'
  BY <1>6, <1>7 DEF Shape, NoFile, Guarded
<1>9. Content(p)' /\ Result(p)'
  BY <1>6 DEF Content, Result
<1> QED
  BY <1>4, <1>5, <1>8, <1>9 DEF StepInv, ProcessInv

LEMMA InvInitially == Init => Inv
<1> SUFFICES ASSUME Init PROVE Inv
  OBVIOUS
<1>1. Typed
  BY DEF Init, Typed, Kinds, Labels, Absent
<1>2. ASSUME NEW p \in Processes
      PROVE  ProcessInv(p)
  BY <1>2 DEF Init, ProcessInv, Shape, NoFile, Guarded, Own, Content, Result
<1> QED
  BY <1>1, <1>2 DEF Inv

ProcessStep(p) == Call(p) \/ Step(p) \/ ClangStep(p) \/ Kill(p) \/ Bury(p)

LEMMA InvStep == Inv /\ [Next]_vars => Inv'
<1> SUFFICES ASSUME Inv, [Next]_vars PROVE Inv'
  OBVIOUS
<1>1. CASE UNCHANGED vars
  BY <1>1 DEF vars, Inv, Typed, ProcessInv, Shape, NoFile, OneFile, TwoFiles, Own, Guarded,
              Content, Result, Artifact, Executable
<1>2. ASSUME NEW p \in Processes, ProcessStep(p)
      PROVE  Inv'
  <2>1. StepInv(p)
    BY <1>2, CallInv, CreateArtifactInv, CreateExecutableInv, WriteArtifactInv, ExecuteClangInv,
       WaitForClangInv, CopyExecutableInv, UnwindInv, LeaveInv, ClangStepInv, KillInv, BuryInv
    DEF ProcessStep, Step
  <2>2. \A q \in Processes \ {p} : ProcessInv(q)'
    BY <2>1, KeptInv DEF Inv, StepInv
  <2> QED
    BY <2>1, <2>2 DEF Inv, StepInv
<1> QED
  BY <1>1, <1>2 DEF Next, ProcessStep

LEMMA InvAlways == Spec => []Inv
BY InvInitially, InvStep, PTL DEF Spec

-----------------------------------------------------------------------------
LEMMA ProcessOfName == \A f \in Paths : f[1] \in Processes /\ f \in Own(f[1])
BY DEF Paths, Own

(* A process has at most two temporary files, each its own, and a clang    *)
(* only while it waits for it or when it is dead.                          *)
THEOREM TypeCorrect == Spec => []TypeOK
<1>1. Inv => TypeOK
  <2> SUFFICES ASSUME Inv PROVE TypeOK
    OBVIOUS
  <2>1. ASSUME NEW p \in Processes
        PROVE  removers[p] \in Seq(Paths) /\ Len(removers[p]) <= 2
    <3>1. CASE NoFile(p)
      BY <3>1 DEF NoFile
    <3>2. CASE OneFile(p)
      <4>1. PICK a \in Paths : removers[p] = <<a>>
        BY <3>2 DEF OneFile, Own
      <4>2. <<a>> \in Seq(Paths) /\ Len(<<a>>) = 1
        OBVIOUS
      <4> QED
        BY <4>1, <4>2
    <3>3. CASE TwoFiles(p)
      <4>1. PICK a \in Paths, e \in Paths : removers[p] = <<a, e>>
        BY <3>3 DEF TwoFiles, Own
      <4>2. <<a, e>> \in Seq(Paths) /\ Len(<<a, e>>) = 2
        OBVIOUS
      <4> QED
        BY <4>1, <4>2
    <3> QED
      BY <2>1, <3>1, <3>2, <3>3 DEF Inv, ProcessInv, Shape
  <2>2. ASSUME NEW f \in Paths
        PROVE  files[f].of \in Processes \cup {Nobody}
    BY <2>2, ProcessOfName, AbsentIsNobodys DEF Inv, ProcessInv, Guarded
  <2> QED
    BY <2>1, <2>2 DEF Inv, Typed, Kinds, TypeOK, ProcessInv, Shape
<1> QED
  BY <1>1, InvAlways, PTL

(* Whoever is killed, and whenever: what a process or its clang has to do  *)
(* with is a file of its own or none, never one of another process and not *)
(* even one left by a dead process with the same id.                       *)
THEOREM FilesAreKeptApart == Spec => []FilesStayOwn
<1>1. Inv => FilesStayOwn
  <2> SUFFICES ASSUME Inv, NEW p \in Processes, NEW i \in DOMAIN removers[p]
               PROVE  \/ files[removers[p][i]] = Absent
                      \/ files[removers[p][i]].of = p
    BY DEF FilesStayOwn
  <2>1. removers[p][i] \in Range(removers[p])
    BY DEF Range
  <2>2. Range(removers[p]) \subseteq Own(p)
    <3>1. CASE NoFile(p)
      BY <3>1, Removers DEF NoFile
    <3>2. CASE OneFile(p)
      BY <3>2, OneName
    <3>3. CASE TwoFiles(p)
      BY <3>3, TwoNames
    <3> QED
      BY <3>1, <3>2, <3>3 DEF Inv, ProcessInv, Shape
  <2> QED
    BY <2>1, <2>2 DEF Inv, ProcessInv, Guarded
<1> QED
  BY <1>1, InvAlways, PTL

(* Whatever the stream to clang's input has lost, clang makes no           *)
(* executable of less than the whole module.                               *)
THEOREM WholeModule == Spec => []LinksWholeModule
<1>1. Inv => LinksWholeModule
  BY DEF Inv, ProcessInv, Content, LinksWholeModule
<1> QED
  BY <1>1, InvAlways, PTL
-----------------------------------------------------------------------------
(* The variables of ArtifactWriter, and its actions on them.               *)

callBar ==
  [p \in Processes |->
     CASE pc[p] = "idle" -> outcome[p] [] pc[p] = "dead" -> "killed" [] OTHER -> "running"]
heldBar == [p \in Processes |-> {f \in Paths : files[f].of = p}]

Changes(p) ==
  \/ heldBar' = heldBar
  \/ \E f \in Paths :
       \/ /\ f \notin LeftFiles /\ \A q \in Processes : f \notin heldBar[q]
          /\ heldBar' = [heldBar EXCEPT ![p] = @ \cup {f}]
       \/ f \in heldBar[p] /\ heldBar' = [heldBar EXCEPT ![p] = @ \ {f}]

LEMMA AbstractStep ==
  ASSUME NEW p \in Processes,
         \/ /\ callBar[p] \notin {"running", "killed"}
            /\ callBar' = [callBar EXCEPT ![p] = "running"]
            /\ output' = [output EXCEPT ![p] = "nothing"]
            /\ heldBar' = heldBar /\ LeftFiles' = LeftFiles
         \/ /\ callBar[p] \in {"running", "killed"} /\ callBar' = callBar /\ output' = output
            /\ Changes(p) /\ LeftFiles' = LeftFiles
         \/ /\ callBar[p] = "running" /\ output[p] = "nothing"
            /\ \E r \in {"partial", p} : output' = [output EXCEPT ![p] = r]
            /\ callBar' = callBar /\ heldBar' = heldBar /\ LeftFiles' = LeftFiles
         \/ /\ callBar[p] = "running" /\ heldBar[p] = {}
            /\ callBar' = [callBar EXCEPT ![p] =
                 IF output[p] = p THEN "returned" ELSE "thrown"]
            /\ output' = output /\ heldBar' = heldBar /\ LeftFiles' = LeftFiles
         \/ /\ callBar[p] = "running" /\ callBar' = [callBar EXCEPT ![p] = "killed"]
            /\ output' = output /\ heldBar' = heldBar /\ LeftFiles' = LeftFiles
         \/ /\ callBar[p] = "killed" /\ callBar' = [callBar EXCEPT ![p] = "none"]
            /\ LeftFiles' = LeftFiles \cup heldBar[p]
            /\ heldBar' = [heldBar EXCEPT ![p] = {}]
            /\ output' = [output EXCEPT ![p] = "nothing"]
  PROVE  [W!Next]_W!writerVars
BY DEF W!Next, W!Begin, W!Create, W!Remove, W!Deliver, W!End, W!Kill, W!Bury, W!writerVars,
       callBar, heldBar, Changes

LEMMA SameFunction ==
  ASSUME NEW S, NEW g, NEW h, g = [s \in S |-> g[s]], h = [s \in S |-> h[s]],
         \A s \in S : h[s] = g[s]
  PROVE  h = g
OBVIOUS

LEMMA ExceptAt ==
  ASSUME NEW S, NEW g, NEW h, g = [s \in S |-> g[s]], h = [s \in S |-> h[s]],
         NEW t \in S, NEW x, \A s \in S : h[s] = IF s = t THEN x ELSE g[s]
  PROVE  h = [g EXCEPT ![t] = x]
OBVIOUS

(* What a step makes of the call of its process; other calls are kept. *)
LEMMA CallStep ==
  ASSUME Inv, NEW p \in Processes, StepInv(p)
  PROVE  /\ callBar' = [callBar EXCEPT ![p] = callBar'[p]]
         /\ callBar'[p] = callBar[p] => callBar' = callBar
         /\ output' = [output EXCEPT ![p] = output'[p]]
<1>1. \A q \in Processes \ {p} : callBar'[q] = callBar[q] /\ output'[q] = output[q]
  BY DEF StepInv, Kept, callBar
<1>2. output \in [Processes -> {"nothing", "partial"} \cup Processes]
  BY DEF Inv, Typed
<1>3. output' \in [Processes -> {"nothing", "partial"} \cup Processes]
  BY DEF StepInv, Typed
<1>4. callBar' = [callBar EXCEPT ![p] = callBar'[p]]
  BY <1>1 DEF callBar
<1>5. output' = [output EXCEPT ![p] = output'[p]]
  BY <1>1, <1>2, <1>3
<1>6. ASSUME callBar'[p] = callBar[p]
      PROVE  callBar' = callBar
  <2>1. \A q \in Processes : callBar'[q] = callBar[q]
    BY <1>1, <1>6
  <2>2. callBar = [q \in Processes |-> callBar[q]] /\ callBar' = [q \in Processes |-> callBar'[q]]
    BY DEF callBar
  <2> QED
    BY <2>1, <2>2, SameFunction
<1> QED
  BY <1>4, <1>5, <1>6

(* The file that a step changes is its own, or made so. *)
LEMMA FileStep ==
  ASSUME Inv, NEW p \in Processes, NEW f \in Own(p), files[f] = Absent \/ files[f].of = p,
         NEW c, c = Absent \/ c.of = p, files' = [files EXCEPT ![f] = c]
  PROVE  Changes(p) /\ LeftFiles' = LeftFiles
<1>1. f \in Paths /\ files'[f] = c /\ \A g \in Paths \ {f} : files'[g] = files[g]
  BY DEF Own, Inv, Typed
<1>2. Absent.of = Nobody /\ Nobody \notin Processes
  BY ProcessesAssumption DEF Absent
<1>3. LeftFiles' = LeftFiles
  BY <1>1, <1>2 DEF LeftFiles, Exists
<1>4. \A q \in Processes : q # p => f \notin heldBar[q] /\ heldBar'[q] = heldBar[q]
  BY <1>1, <1>2 DEF heldBar
<1>5. CASE files[f] = Absent /\ c # Absent
  <2>1. f \notin LeftFiles /\ \A q \in Processes : f \notin heldBar[q]
    BY <1>2, <1>5 DEF LeftFiles, Exists, heldBar
  <2>2. heldBar'[p] = heldBar[p] \cup {f}
    BY <1>1, <1>5 DEF heldBar
  <2>3. \A q \in Processes :
          heldBar'[q] = IF q = p THEN heldBar[p] \cup {f} ELSE heldBar[q]
    BY <1>4, <2>2
  <2>4. heldBar' = [heldBar EXCEPT ![p] = @ \cup {f}]
    <3>1. heldBar = [q \in Processes |-> heldBar[q]] /\ heldBar' = [q \in Processes |-> heldBar'[q]]
      BY DEF heldBar
    <3> QED
      BY <2>3, <3>1, ExceptAt
  <2> QED
    BY <1>1, <1>3, <2>1, <2>4 DEF Changes
<1>6. CASE files[f] # Absent /\ c = Absent
  <2>1. f \in heldBar[p]
    BY <1>1, <1>6 DEF heldBar
  <2>2. heldBar'[p] = heldBar[p] \ {f}
    BY <1>1, <1>2, <1>6 DEF heldBar
  <2>3. \A q \in Processes :
          heldBar'[q] = IF q = p THEN heldBar[p] \ {f} ELSE heldBar[q]
    BY <1>4, <2>2
  <2>4. heldBar' = [heldBar EXCEPT ![p] = @ \ {f}]
    <3>1. heldBar = [q \in Processes |-> heldBar[q]] /\ heldBar' = [q \in Processes |-> heldBar'[q]]
      BY DEF heldBar
    <3> QED
      BY <2>3, <3>1, ExceptAt
  <2> QED
    BY <1>1, <1>3, <2>1, <2>4 DEF Changes
<1>7. CASE files[f] = Absent <=> c = Absent
  <2>1. heldBar'[p] = heldBar[p]
    BY <1>1, <1>7 DEF heldBar
  <2>2. heldBar' = heldBar
    BY <1>4, <2>1 DEF heldBar
  <2> QED
    BY <1>3, <2>2 DEF Changes
<1>8. \/ files[f] = Absent /\ c # Absent
      \/ files[f] # Absent /\ c = Absent
      \/ files[f] = Absent <=> c = Absent
  OBVIOUS
<1> QED
  BY <1>5, <1>6, <1>7, <1>8

(* A call in progress goes on. *)
LEMMA GoesOn ==
  ASSUME Inv, NEW p \in Processes, StepInv(p), output' = output, Changes(p), LeftFiles' = LeftFiles,
         \/ pc[p] \notin {"idle", "dead"} /\ pc'[p] \notin {"idle", "dead"}
         \/ pc[p] = "dead" /\ pc'[p] = "dead"
  PROVE  [W!Next]_W!writerVars
<1>1. callBar[p] \in {"running", "killed"} /\ callBar'[p] = callBar[p]
  BY DEF callBar
<1>2. callBar' = callBar
  BY <1>1, CallStep
<1> QED
  BY <1>1, <1>2, AbstractStep

LEMMA SameFiles ==
  ASSUME UNCHANGED files
  PROVE  heldBar' = heldBar /\ LeftFiles' = LeftFiles /\ \A p : Changes(p)
BY DEF heldBar, LeftFiles, Exists, Changes

LEMMA CreateImplements ==
  ASSUME Inv, NEW p \in Processes, StepInv(p), CreateArtifact(p) \/ CreateExecutable(p)
  PROVE  [W!Next]_W!writerVars
<1>1. /\ pc[p] \notin {"idle", "dead"} /\ pc'[p] \notin {"idle", "dead"} /\ output' = output
      /\ \/ UNCHANGED files
         \/ \E f \in Own(p) : files[f] = Absent /\ files' = [files EXCEPT ![f] = File("empty", p)]
  BY DEF CreateArtifact, CreateExecutable, CreateTemporaryFile, Prefix, Exists, Own, Goto, Throw,
         Inv, Typed
<1>2. Changes(p) /\ LeftFiles' = LeftFiles
  <2>1. File("empty", p).of = p
    BY DEF File
  <2> QED
    BY <1>1, <2>1, SameFiles, FileStep
<1> QED
  BY <1>1, <1>2, GoesOn

LEMMA WriteImplements ==
  ASSUME Inv, NEW p \in Processes, StepInv(p), WriteArtifact(p)
  PROVE  [W!Next]_W!writerVars
<1>1. /\ pc[p] = "write" /\ pc'[p] \notin {"idle", "dead"} /\ output' = output
      /\ \/ UNCHANGED files
         \/ \E text \in Written \cup {Torn} :
              files' = [files EXCEPT ![Artifact(p)] = [is |-> "IR", of |-> p, text |-> text]]
  BY DEF WriteArtifact, Goto, Throw, Inv, Typed
<1>2. /\ Artifact(p) \in Own(p)
      /\ files[Artifact(p)] = Absent \/ files[Artifact(p)].of = p
  <2>1. TwoFiles(p)
    BY <1>1 DEF Inv, ProcessInv, Shape
  <2>2. Artifact(p) \in Own(p) /\ Artifact(p) \in Range(removers[p])
    BY <2>1, TwoNames
  <2> QED
    BY <2>2 DEF Inv, ProcessInv, Guarded
<1>3. Changes(p) /\ LeftFiles' = LeftFiles
  <2>1. CASE UNCHANGED files
    BY <2>1, SameFiles
  <2>2. ASSUME NEW text,
               files' = [files EXCEPT ![Artifact(p)] = [is |-> "IR", of |-> p, text |-> text]]
        PROVE  Changes(p) /\ LeftFiles' = LeftFiles
    <3>1. [is |-> "IR", of |-> p, text |-> text].of = p
      OBVIOUS
    <3> QED
      BY <1>2, <2>2, <3>1, FileStep
  <2> QED
    BY <1>1, <2>1, <2>2
<1> QED
  BY <1>1, <1>3, GoesOn

LEMMA ClangImplements ==
  ASSUME Inv, NEW p \in Processes, StepInv(p), ClangStep(p)
  PROVE  [W!Next]_W!writerVars
<1>1. clang[p] # "none" /\ pc' = pc /\ output' = output
  BY DEF ClangStep, ClangReplaces, ClangLinks, ClangFails
<1>2. TwoFiles(p) /\ pc[p] \in {"wait", "dead"} /\ files[Artifact(p)].of = p
  BY <1>1 DEF Inv, ProcessInv, Shape, Content
<1>3. Executable(p) \in Own(p) /\ Executable(p) \in Range(removers[p])
  BY <1>2, TwoNames
<1>4. files[Executable(p)] = Absent \/ files[Executable(p)].of = p
  BY <1>3 DEF Inv, ProcessInv, Guarded
<1>5. \/ UNCHANGED files
      \/ \E c \in {Absent, File("executable", p), File("partial", p)} :
           files' = [files EXCEPT ![Executable(p)] = c]
  BY <1>2 DEF ClangStep, ClangReplaces, ClangLinks, ClangFails
<1>6. Changes(p) /\ LeftFiles' = LeftFiles
  <2>1. \A c \in {Absent, File("executable", p), File("partial", p)} : c = Absent \/ c.of = p
    BY DEF File
  <2> QED
    BY <1>3, <1>4, <1>5, <2>1, SameFiles, FileStep
<1> QED
  BY <1>1, <1>2, <1>6, GoesOn

LEMMA CopyImplements ==
  ASSUME Inv, NEW p \in Processes, StepInv(p), CopyExecutable(p)
  PROVE  [W!Next]_W!writerVars
<1>1. /\ pc[p] = "copy" /\ pc'[p] = "unwind" /\ UNCHANGED files /\ output[p] = "nothing"
      /\ files[Executable(p)] = File("executable", p)
  BY DEF CopyExecutable, Goto, Throw, Inv, Typed, ProcessInv, Content, Result
<1>2. heldBar' = heldBar /\ LeftFiles' = LeftFiles /\ Changes(p)
  BY <1>1, SameFiles
<1>3. CASE output' = output
  BY <1>1, <1>2, <1>3, GoesOn
<1>4. CASE \E r \in {"partial", p} : output' = [output EXCEPT ![p] = r]
  <2>1. callBar[p] = "running" /\ callBar'[p] = "running"
    BY <1>1 DEF callBar
  <2>2. callBar' = callBar
    BY <2>1, CallStep
  <2> QED
    BY <1>1, <1>2, <1>4, <2>1, <2>2, AbstractStep
<1>5. output' = output \/ \E r \in {"partial", p} : output' = [output EXCEPT ![p] = r]
  <2>1. File("executable", p).is = "executable" /\ File("executable", p).of = p
    BY DEF File
  <2> QED
    BY <1>1, <2>1 DEF CopyExecutable, Inv, Typed
<1> QED
  BY <1>3, <1>4, <1>5

LEMMA UnwindImplements ==
  ASSUME Inv, NEW p \in Processes, StepInv(p), Unwind(p)
  PROVE  [W!Next]_W!writerVars
<1>1. /\ pc[p] = "unwind" /\ pc' = pc /\ output' = output
      /\ files' = [files EXCEPT ![Last(removers[p])] = Absent]
  BY DEF Unwind
<1>2. Last(removers[p]) \in Own(p) /\ Last(removers[p]) \in Range(removers[p])
  <2>1. CASE OneFile(p)
    <3>1. Last(<<Artifact(p)>>) = Artifact(p)
      BY Removers
    <3> QED
      BY <2>1, <3>1, OneName
  <2>2. CASE TwoFiles(p)
    <3>1. Last(<<Artifact(p), Executable(p)>>) = Executable(p)
      BY Removers
    <3> QED
      BY <2>2, <3>1, TwoNames
  <2> QED
    BY <2>1, <2>2 DEF Inv, ProcessInv, Shape, NoFile, Unwind
<1>3. Changes(p) /\ LeftFiles' = LeftFiles
  BY <1>1, <1>2, FileStep DEF Inv, ProcessInv, Guarded
<1> QED
  BY <1>1, <1>3, GoesOn

LEMMA LeaveImplements ==
  ASSUME Inv, NEW p \in Processes, StepInv(p), Leave(p)
  PROVE  [W!Next]_W!writerVars
<1>1. /\ pc[p] = "unwind" /\ pc'[p] = "idle" /\ UNCHANGED <<files, outcome, output>>
      /\ removers[p] = <<>>
  BY DEF Leave, Goto, Inv, Typed
<1>2. heldBar' = heldBar /\ LeftFiles' = LeftFiles
  BY <1>1, SameFiles
<1>3. heldBar[p] = {}
  <2> SUFFICES ASSUME NEW f \in Paths, files[f].of = p PROVE FALSE
    BY DEF heldBar
  <2>1. f \in Own(p)
    BY ProcessOfName, AbsentIsNobodys DEF Inv, ProcessInv, Guarded
  <2>2. Range(removers[p]) = {}
    BY <1>1, Removers
  <2> QED
    BY <2>1, <2>2, AbsentIsNobodys DEF Inv, ProcessInv, Guarded
<1>4. callBar[p] = "running" /\ callBar'[p] = outcome[p]
  BY <1>1 DEF callBar
<1>5. outcome[p] = IF output[p] = p THEN "returned" ELSE "thrown"
  BY <1>1, ProcessesAssumption DEF Inv, ProcessInv, Result
<1>6. callBar' = [callBar EXCEPT ![p] = IF output[p] = p THEN "returned" ELSE "thrown"]
  BY <1>4, <1>5, CallStep
<1> QED
  BY <1>1, <1>2, <1>3, <1>4, <1>6, AbstractStep

LEMMA BuryImplements ==
  ASSUME Inv, NEW p \in Processes, StepInv(p), Bury(p)
  PROVE  [W!Next]_W!writerVars
<1>1. /\ pc[p] = "dead" /\ pc'[p] = "idle" /\ outcome'[p] = "none"
      /\ output' = [output EXCEPT ![p] = "nothing"]
      /\ files' = [f \in Paths |-> IF files[f].of = p THEN Left ELSE files[f]]
  BY DEF Bury, Goto, Left, Inv, Typed
<1>2. Left.of = Nobody /\ Left # Absent /\ Nobody \notin Processes
  BY ProcessesAssumption DEF Left, File, Absent
<1>3. callBar[p] = "killed" /\ callBar'[p] = "none"
  BY <1>1 DEF callBar
<1>4. callBar' = [callBar EXCEPT ![p] = "none"]
  BY <1>3, CallStep
<1>5. LeftFiles' = LeftFiles \cup heldBar[p]
  BY <1>1, <1>2 DEF LeftFiles, Exists, heldBar
<1>6. heldBar' = [heldBar EXCEPT ![p] = {}]
  <2>1. \A q \in Processes : heldBar'[q] = IF q = p THEN {} ELSE heldBar[q]
    BY <1>1, <1>2 DEF heldBar
  <2>2. heldBar = [q \in Processes |-> heldBar[q]] /\ heldBar' = [q \in Processes |-> heldBar'[q]]
    BY DEF heldBar
  <2> QED
    BY <2>1, <2>2, ExceptAt
<1> QED
  BY <1>1, <1>3, <1>4, <1>5, <1>6, AbstractStep

LEMMA StepImplements ==
  ASSUME Inv, NEW p \in Processes, ProcessStep(p)
  PROVE  [W!Next]_W!writerVars
<1>1. StepInv(p)
  BY CallInv, CreateArtifactInv, CreateExecutableInv, WriteArtifactInv, ExecuteClangInv,
     WaitForClangInv, CopyExecutableInv, UnwindInv, LeaveInv, ClangStepInv, KillInv, BuryInv
  DEF ProcessStep, Step
<1>2. CASE Call(p)
  <2>1. /\ pc[p] = "idle" /\ pc'[p] = "artifact" /\ UNCHANGED files
        /\ output' = [output EXCEPT ![p] = "nothing"]
    BY <1>2 DEF Call, Goto, Inv, Typed
  <2>2. callBar[p] \notin {"running", "killed"} /\ callBar'[p] = "running"
    BY <2>1 DEF callBar, Inv, Typed
  <2>3. callBar' = [callBar EXCEPT ![p] = "running"]
    BY <1>1, <2>2, CallStep
  <2> QED
    BY <2>1, <2>2, <2>3, SameFiles, AbstractStep
<1>3. CASE ExecuteClang(p) \/ WaitForClang(p)
  <2>1. /\ pc[p] \notin {"idle", "dead"} /\ pc'[p] \notin {"idle", "dead"}
        /\ output' = output /\ UNCHANGED files
    BY <1>3 DEF ExecuteClang, WaitForClang, NotLinked, Throw, Goto, Inv, Typed
  <2> QED
    BY <1>1, <2>1, SameFiles, GoesOn
<1>4. CASE Kill(p)
  <2>1. /\ pc[p] \notin {"idle", "dead"} /\ pc'[p] = "dead" /\ UNCHANGED <<output, files>>
    BY <1>4 DEF Kill, Goto, Inv, Typed
  <2>2. callBar[p] = "running" /\ callBar'[p] = "killed"
    BY <2>1 DEF callBar
  <2>3. callBar' = [callBar EXCEPT ![p] = "killed"]
    BY <1>1, <2>2, CallStep
  <2> QED
    BY <2>1, <2>2, <2>3, SameFiles, AbstractStep
<1> QED
  BY <1>1, <1>2, <1>3, <1>4, CreateImplements, WriteImplements, ClangImplements, CopyImplements,
     UnwindImplements, LeaveImplements, BuryImplements DEF ProcessStep, Step

(* Whatever any number of processes do, die and leave, each call is one    *)
(* that main expects of its writer: it returns with the executable of its  *)
(* own module or throws, holds files of its own only, and has none left    *)
(* when it ends; only the dead leave files, and nobody touches those.      *)
THEOREM ExternalWriteCorrect == Spec => ImplementsArtifactWriter
<1>1. Init => W!Init
  <2> SUFFICES ASSUME Init PROVE W!Init
    OBVIOUS
  <2>1. \A p \in Processes : {f \in Paths : files[f].of = p} = {}
    BY AbsentIsNobodys DEF Init
  <2>2. LeftFiles = {}
    BY DEF Init, LeftFiles, Exists
  <2> QED
    BY <2>1, <2>2 DEF Init, W!Init
<1>2. Inv /\ [Next]_vars => [W!Next]_W!writerVars
  <2> SUFFICES ASSUME Inv, [Next]_vars PROVE [W!Next]_W!writerVars
    OBVIOUS
  <2>1. CASE UNCHANGED vars
    BY <2>1 DEF vars, W!writerVars, LeftFiles, Exists
  <2>2. CASE Next
    BY <2>2, StepImplements DEF Next, ProcessStep
  <2> QED
    BY <2>1, <2>2
<1> QED
  BY <1>1, <1>2, InvAlways, PTL DEF Spec, ImplementsArtifactWriter, W!Spec
=============================================================================
