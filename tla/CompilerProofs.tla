--------------------------- MODULE CompilerProofs ---------------------------
(***************************************************************************)
(* Proofs about Compiler: for every source text, the parser hands over a   *)
(* tree whose loops own Sequences that exist, and IRGenerator makes of it  *)
(* a module whose blocks are well formed at every moment, have the shape   *)
(* of the tree, and do at the place of each symbol what the symbol says:   *)
(* the whole chain implements the language.                                *)
(***************************************************************************)
EXTENDS Compiler, LayoutProofs, TLAPS

R == INSTANCE ParserProofs

-----------------------------------------------------------------------------
(* The tree: nodes whose Loops own one of the first n Sequences. *)
NodeUpTo(n) == [op : P!LeafOps] \cup [op : {"Loop"}, inner : 1 .. n]

(* Loops own Sequences that have been constructed, whether they are in the *)
(* vectors of the active calls or in a Sequence; the Program is there when *)
(* parse() has returned.                                                   *)
Tree ==
  /\ sequences \in Seq(Seq(NodeUpTo(Len(sequences))))
  /\ frames \in Seq(Seq(NodeUpTo(Len(sequences))))
  /\ program \in 0 .. Len(sequences)
  /\ outcome = "parsing" => frames # <<>> /\ program = 0

LEMMA MakeNodeType ==
  ASSUME NEW t, NEW n PROVE P!MakeNode(t) \in NodeUpTo(n)
<1>1. P!MakeNode(t) \in [op : P!LeafOps]
  <2>1. CASE t = "INC" BY <2>1 DEF P!MakeNode, P!LeafOps
  <2>2. CASE t = "DEC" BY <2>2 DEF P!MakeNode, P!LeafOps
  <2>3. CASE t = "INC_PTR" BY <2>3 DEF P!MakeNode, P!LeafOps
  <2>4. CASE t = "DEC_PTR" BY <2>4 DEF P!MakeNode, P!LeafOps
  <2>5. CASE t = "READ_CHAR" BY <2>5 DEF P!MakeNode, P!LeafOps
  <2>6. CASE t \notin {"INC", "DEC", "INC_PTR", "DEC_PTR", "READ_CHAR"}
    BY <2>6 DEF P!MakeNode, P!LeafOps
  <2> QED
    BY <2>1, <2>2, <2>3, <2>4, <2>5, <2>6
<1> QED
  BY <1>1 DEF NodeUpTo

LEMMA PushBackType ==
  ASSUME NEW S, NEW calls \in Seq(Seq(S)), calls # <<>>, NEW node \in S
  PROVE  P!PushBack(calls, node) \in Seq(Seq(S)) /\ P!PushBack(calls, node) # <<>>
<1>1. Last(calls) \in Seq(S)
  BY LastType
<1> DEFINE vector == Append(Last(calls), node)
<1>2. vector \in Seq(S)
  BY <1>1, AppendType
<1> HIDE DEF vector
<1>3. Append(Front(calls), vector) \in Seq(Seq(S)) /\ Append(Front(calls), vector) # <<>>
  BY <1>2, LastReplaced
<1> QED
  BY <1>3 DEF vector, P!PushBack, P!Front, P!Last, Front, Last

(* One more Sequence: every Loop still owns one that exists. *)
LEMMA OneMoreSequence ==
  ASSUME NEW trees, trees \in Seq(Seq(NodeUpTo(Len(trees)))),
         NEW vector \in Seq(NodeUpTo(Len(trees)))
  PROVE  /\ Len(Append(trees, vector)) = Len(trees) + 1
         /\ Len(trees) \in Nat
         /\ NodeUpTo(Len(trees)) \subseteq NodeUpTo(Len(trees) + 1)
         /\ Append(trees, vector) \in Seq(Seq(NodeUpTo(Len(trees) + 1)))
<1> DEFINE n == Len(trees)
<1>1. n \in Nat
  BY LenProperties
<1>2. NodeUpTo(n) \subseteq NodeUpTo(n + 1)
  BY <1>1 DEF NodeUpTo
<1>3. Append(trees, vector) \in Seq(Seq(NodeUpTo(n))) /\ Len(Append(trees, vector)) = n + 1
  BY AppendType
<1> HIDE DEF n
<1> DEFINE A == Append(trees, vector)
<1>4. A \in Seq(Seq(NodeUpTo(n)))
  BY <1>3
<1> HIDE DEF A
<1>5. A \in Seq(Seq(NodeUpTo(n + 1)))
  BY <1>2, <1>4, Nested
<1> QED
  BY <1>1, <1>2, <1>3, <1>5 DEF n, A

LEMMA TreeInit == P!Init => Tree
<1> SUFFICES ASSUME P!Init PROVE Tree
  OBVIOUS
<1>1. sequences = <<>> /\ frames = << <<>> >> /\ program = 0 /\ outcome = "parsing"
  BY DEF P!Init
<1>2. \A S : <<>> \in Seq(S) /\ << <<>> >> \in Seq(Seq(S)) /\ << <<>> >> # <<>>
  OBVIOUS
<1>3. program \in 0 .. Len(sequences)
  BY <1>1
<1> QED
  BY <1>1, <1>2, <1>3 DEF Tree

LEMMA TreeStep == Tree /\ P!Next => Tree'
<1> SUFFICES ASSUME Tree, P!Next PROVE Tree'
  OBVIOUS
<1> DEFINE n == Len(sequences)
           N == NodeUpTo(n)
<1>1. /\ sequences \in Seq(Seq(N)) /\ frames \in Seq(Seq(N))
      /\ program \in 0 .. n /\ n \in Nat
      /\ outcome = "parsing" => frames # <<>> /\ program = 0
  BY LenProperties DEF Tree
<1> HIDE DEF n, N
<1>2. CASE P!PushLeaf
  <2>1. frames # <<>> /\ P!MakeNode(P!token) \in N
    BY <1>1, <1>2, MakeNodeType DEF P!PushLeaf, N
  <2> DEFINE node == P!MakeNode(P!token)
  <2> HIDE DEF node
  <2>2. P!PushBack(frames, node) \in Seq(Seq(N)) /\ P!PushBack(frames, node) # <<>>
    BY <1>1, <2>1, PushBackType DEF node
  <2> QED
    BY <1>1, <1>2, <2>2 DEF P!PushLeaf, Tree, node, n, N
<1>3. CASE P!EnterLoop
  <2>1. <<>> \in Seq(N)
    OBVIOUS
  <2>2. Append(frames, <<>>) \in Seq(Seq(N)) /\ Append(frames, <<>>) # <<>>
    BY <1>1, <2>1, AppendType
  <2> QED
    BY <1>1, <1>3, <2>2 DEF P!EnterLoop, Tree, n, N
<1>4. CASE P!LeaveLoop
  <2>1. frames # <<>> /\ Len(frames) > 1 /\ outcome = "parsing"
    BY <1>1, <1>4 DEF P!LeaveLoop, P!InLoop
  <2>2. /\ sequences' = Append(sequences, Last(frames))
        /\ frames' = P!PushBack(Front(frames), [op |-> "Loop", inner |-> n + 1])
        /\ program' = program /\ outcome' = outcome
    BY <1>4 DEF P!LeaveLoop, P!Last, P!Front, Last, Front, n
  <2>3. Last(frames) \in Seq(N)
    BY <1>1, <2>1, LastType
  <2> DEFINE vector == Last(frames)
             calls == Front(frames)
             node == [op |-> "Loop", inner |-> n + 1]
             M == NodeUpTo(n + 1)
  <2> HIDE DEF vector
  <2>4. /\ Len(sequences') = n + 1
        /\ N \subseteq M
        /\ sequences' \in Seq(Seq(M))
    BY <1>1, <2>2, <2>3, OneMoreSequence DEF n, N, vector
  <2>5. calls \in Seq(Seq(N)) /\ Len(calls) = Len(frames) - 1
    BY <1>1, <2>1, FrontType
  <2>6. calls # <<>>
    <3>1. Len(frames) \in Nat
      BY <1>1, LenProperties
    <3> HIDE DEF calls
    <3>2. Len(calls) > 0
      BY <2>1, <2>5, <3>1
    <3> QED
      BY <2>5, <3>2, SeqTypes
  <2>7. node \in M
    BY <1>1 DEF NodeUpTo
  <2> HIDE DEF calls, node, M
  <2>8. calls \in Seq(Seq(M))
    BY <2>4, <2>5, Nested
  <2>9. P!PushBack(calls, node) \in Seq(Seq(M)) /\ P!PushBack(calls, node) # <<>>
    BY <2>6, <2>7, <2>8, PushBackType
  <2> QED
    BY <1>1, <2>1, <2>2, <2>4, <2>9 DEF Tree, calls, node, M
<1>5. CASE P!UnexpectedLoopEnd \/ P!UnclosedLoop
  <2>1. /\ frames' = <<>> /\ sequences' = <<>> /\ program' = 0
        /\ outcome' # "parsing"
    BY <1>1, <1>5 DEF P!UnexpectedLoopEnd, P!UnclosedLoop, P!Throw
  <2>2. \A S : <<>> \in Seq(S)
    OBVIOUS
  <2>3. program' \in 0 .. Len(sequences')
    BY <2>1
  <2> QED
    BY <2>1, <2>2, <2>3 DEF Tree
<1>6. CASE P!Finish
  <2>1. /\ frames # <<>>
        /\ sequences' = Append(sequences, frames[1])
        /\ program' = n + 1 /\ frames' = <<>> /\ outcome' # "parsing"
    BY <1>1, <1>6 DEF P!Finish, n
  <2> DEFINE vector == frames[1]
  <2>2. vector \in Seq(N)
    BY <1>1, <2>1, EmptySeq, ElementOfSeq
  <2> HIDE DEF vector
  <2>3. Len(sequences') = n + 1 /\ sequences' \in Seq(Seq(NodeUpTo(n + 1)))
    BY <1>1, <2>1, <2>2, OneMoreSequence DEF n, N, vector
  <2>4. \A S : <<>> \in Seq(S)
    OBVIOUS
  <2> QED
    BY <1>1, <2>1, <2>3, <2>4 DEF Tree
<1> QED
  BY <1>2, <1>3, <1>4, <1>5, <1>6 DEF P!Next

-----------------------------------------------------------------------------
(* The module: instructions that branch to the blocks 2 .. n only. *)
InstructionUpTo(n) ==
  [op : {"tapeBegin"}, at : Nat]
    \cup [op : {"add", "move"}, amount : {-1, 1}, at : Nat]
    \cup [op : {"call"}, callee : G!Functions, at : Nat]
    \cup [op : {"br"}, to : 2 .. n, at : Nat]
    \cup [op : {"condbr"}, then : 2 .. n, else : 2 .. n, at : Nat]
    \cup [op : {"ret"}, value : {0}, at : Nat]

Closed(b) == b # <<>> /\ Last(b).op \in G!Terminators
Straight(b) == \A k \in DOMAIN b : b[k].op \in G!Terminators => k = Len(b)

ActiveVisit == [seq : 1 .. Len(sequences), next : Nat \ {0}, condition : Nat, end : Nat]

(* The ends of the loops being visited are blocks of their own that wait,  *)
(* with the insertion block, for their terminators; all others have theirs.*)
Waiting ==
  /\ insert \in DOMAIN blocks
  /\ \A v \in 2 .. Len(visits) :
       /\ visits[v].condition \in 2 .. Len(blocks)
       /\ visits[v].end \in DOMAIN blocks /\ visits[v].end # insert
  /\ \A v, w \in 2 .. Len(visits) : visits[v].end = visits[w].end => v = w
  /\ \A b \in DOMAIN blocks :
       ~Closed(blocks[b]) <=> \/ b = insert
                              \/ \E v \in 2 .. Len(visits) : visits[v].end = b

(* The generator has work to do, and the tree is there for it, from the    *)
(* entry block to the return instruction.                                  *)
Module ==
  /\ blocks \in Seq(Seq(InstructionUpTo(Len(blocks))))
  /\ \A b \in DOMAIN blocks : Straight(blocks[b])
  /\ visits \in Seq(ActiveVisit)
  /\ position \in Nat
  /\ blocks # <<>> => program # 0
  /\ visits # <<>> => Waiting
  /\ generated => /\ visits = <<>> /\ blocks # <<>>
                  /\ \A b \in DOMAIN blocks : Closed(blocks[b])

Inv == Tree /\ Module

LEMMA InstructionOp ==
  ASSUME NEW n, NEW i \in InstructionUpTo(n)
  PROVE  /\ i.op \in {"tapeBegin", "add", "move", "call", "br", "condbr", "ret"}
         /\ i.op = "br" => i.to \in 2 .. n
         /\ i.op = "condbr" => i.then \in 2 .. n /\ i.else \in 2 .. n
  BY DEF InstructionUpTo

LEMMA LeafInstruction ==
  ASSUME NEW op \in P!LeafOps, NEW loc \in Nat, NEW n
  PROVE  /\ G!Instruction(op, loc) \in InstructionUpTo(n)
         /\ G!Instruction(op, loc).op \notin G!Terminators
<1>1. CASE op = "Inc" BY <1>1 DEF G!Instruction, InstructionUpTo, G!Terminators
<1>2. CASE op = "Dec" BY <1>2 DEF G!Instruction, InstructionUpTo, G!Terminators
<1>3. CASE op = "MoveLeft" BY <1>3 DEF G!Instruction, InstructionUpTo, G!Terminators
<1>4. CASE op = "MoveRight" BY <1>4 DEF G!Instruction, InstructionUpTo, G!Terminators
<1>5. CASE op = "Read" BY <1>5 DEF G!Instruction, InstructionUpTo, G!Terminators, G!Functions
<1>6. CASE op = "Print" BY <1>6 DEF G!Instruction, InstructionUpTo, G!Terminators, G!Functions
<1> QED
  BY <1>1, <1>2, <1>3, <1>4, <1>5, <1>6 DEF P!LeafOps

LEMMA MoreBlocks ==
  ASSUME NEW m \in Nat, NEW n \in Nat, m <= n
  PROVE  InstructionUpTo(m) \subseteq InstructionUpTo(n)
<1>1. 2 .. m \subseteq 2 .. n
  OBVIOUS
<1> QED
  BY <1>1 DEF InstructionUpTo

(* A terminator closes a block, another instruction leaves it open, and    *)
(* neither goes behind a terminator.                                       *)
LEMMA Appended ==
  ASSUME NEW S, NEW b \in Seq(S), Straight(b), ~Closed(b), NEW i \in S
  PROVE  /\ Append(b, i) \in Seq(S)
         /\ Straight(Append(b, i))
         /\ Closed(Append(b, i)) <=> i.op \in G!Terminators
<1> DEFINE a == Append(b, i)
<1>1. /\ a \in Seq(S) /\ a # <<>> /\ Len(a) = Len(b) + 1
      /\ \A k \in 1 .. Len(b) : a[k] = b[k]
      /\ a[Len(b) + 1] = i
  BY AppendType
<1> HIDE DEF a
<1>2. Len(b) \in Nat /\ DOMAIN b = 1 .. Len(b) /\ DOMAIN a = 1 .. Len(a)
  BY <1>1, SeqTypes
<1>3. \A k \in 1 .. Len(b) : b[k].op \notin G!Terminators
  <2> SUFFICES ASSUME NEW k \in 1 .. Len(b), b[k].op \in G!Terminators PROVE FALSE
    OBVIOUS
  <2>1. k = Len(b)
    BY <1>2 DEF Straight
  <2>2. b # <<>>
    BY <1>2, <2>1, EmptySeq
  <2> QED
    BY <2>1, <2>2 DEF Closed, Last
<1>4. Last(a) = i
  BY <1>1 DEF Last
<1>5. Straight(a)
  BY <1>1, <1>2, <1>3 DEF Straight
<1> QED
  BY <1>1, <1>4, <1>5 DEF Closed, a

(* builder_.Create... changes the insertion block alone. *)
LEMMA Emitted ==
  ASSUME NEW n \in Nat, Len(blocks) <= n, Module, Waiting,
         NEW i \in InstructionUpTo(n)
  PROVE  /\ G!Emit(i) \in Seq(Seq(InstructionUpTo(n)))
         /\ Len(G!Emit(i)) = Len(blocks) /\ Len(blocks) \in Nat
         /\ insert \in 1 .. Len(blocks)
         /\ \A b \in 1 .. Len(blocks) :
              /\ Straight(G!Emit(i)[b])
              /\ b # insert => G!Emit(i)[b] = blocks[b]
         /\ Closed(G!Emit(i)[insert]) <=> i.op \in G!Terminators
         /\ G!Emit(i)[insert] = Append(blocks[insert], i)
<1> DEFINE S == InstructionUpTo(n)
<1>1. Len(blocks) \in Nat /\ DOMAIN blocks = 1 .. Len(blocks)
  BY SeqTypes DEF Module
<1>2. InstructionUpTo(Len(blocks)) \subseteq S
  BY <1>1, MoreBlocks
<1> HIDE DEF S
<1>3. blocks \in Seq(Seq(S))
  BY <1>2, Nested DEF Module
<1>4. insert \in 1 .. Len(blocks) /\ ~Closed(blocks[insert])
  BY <1>1 DEF Waiting
<1>5. blocks[insert] \in Seq(S) /\ Straight(blocks[insert])
  BY <1>1, <1>3, <1>4, ElementOfSeq DEF Module
<1> DEFINE old == blocks[insert]
           e == Append(old, i)
<1> HIDE DEF old
<1>6. /\ e \in Seq(S)
      /\ Straight(e)
      /\ Closed(e) <=> i.op \in G!Terminators
  <2>1. i \in S
    BY DEF S
  <2> QED
    BY <1>4, <1>5, <2>1, Appended DEF old
<1> HIDE DEF e
<1>7. /\ [blocks EXCEPT ![insert] = e] \in Seq(Seq(S))
      /\ Len([blocks EXCEPT ![insert] = e]) = Len(blocks)
      /\ \A b \in 1 .. Len(blocks) :
           [blocks EXCEPT ![insert] = e][b] = IF b = insert THEN e ELSE blocks[b]
  <2> DEFINE T == Seq(S)
  <2>1. blocks \in Seq(T) /\ e \in T /\ insert \in 1 .. Len(blocks)
    BY <1>3, <1>4, <1>6
  <2> HIDE DEF T
  <2>2. /\ [blocks EXCEPT ![insert] = e] \in Seq(T)
        /\ Len([blocks EXCEPT ![insert] = e]) = Len(blocks)
        /\ \A b \in 1 .. Len(blocks) :
             [blocks EXCEPT ![insert] = e][b] = IF b = insert THEN e ELSE blocks[b]
    BY <2>1, ExceptSeq
  <2> QED
    BY <2>2 DEF T
<1>8. G!Emit(i) = [blocks EXCEPT ![insert] = e]
  BY DEF G!Emit, e, old
<1>9. \A b \in 1 .. Len(blocks) : Straight(blocks[b])
  BY <1>1 DEF Module
<1>10. e = Append(blocks[insert], i)
  BY DEF e, old
<1> QED
  BY <1>1, <1>4, <1>6, <1>7, <1>8, <1>9, <1>10 DEF S

(* The innermost visit, and the node it is at. *)
LEMMA TopVisit ==
  ASSUME Inv, visits # <<>>
  PROVE  /\ Len(visits) \in Nat \ {0} /\ DOMAIN visits = 1 .. Len(visits)
         /\ G!Top = visits[Len(visits)] /\ G!Top \in ActiveVisit
         /\ ~G!AtSequenceEnd => G!CurrentNode \in NodeUpTo(Len(sequences))
<1>1. /\ Len(visits) \in Nat \ {0} /\ DOMAIN visits = 1 .. Len(visits)
      /\ G!Top = visits[Len(visits)] /\ G!Top \in ActiveVisit
  BY LastType, SeqTypes DEF Inv, Module, G!Top, G!Last, Last
<1>2. ASSUME ~G!AtSequenceEnd PROVE G!CurrentNode \in NodeUpTo(Len(sequences))
  <2> DEFINE N == NodeUpTo(Len(sequences))
             nodes == sequences[G!Top.seq]
             k == G!Top.next
  <2>1. sequences \in Seq(Seq(N)) /\ G!Top.seq \in 1 .. Len(sequences) /\ k \in Nat \ {0}
    BY <1>1 DEF Inv, Tree, ActiveVisit
  <2> HIDE DEF N, k
  <2>2. nodes \in Seq(N)
    BY <2>1, ElementOfSeq
  <2> HIDE DEF nodes
  <2>3. Len(nodes) \in Nat /\ ~(k > Len(nodes))
    BY <1>2, <2>2, LenProperties DEF G!AtSequenceEnd, nodes, k
  <2>4. k \in 1 .. Len(nodes)
    BY <2>1, <2>3
  <2>5. nodes[k] \in N
    BY <2>2, <2>4, ElementOfSeq
  <2> QED
    BY <2>5 DEF G!CurrentNode, nodes, k, N
<1> QED
  BY <1>1, <1>2

(* Going on to the next node changes no block of any visit. *)
LEMMA NextNode ==
  ASSUME Inv, visits # <<>>
  PROVE  /\ G!ToNextNode \in Seq(ActiveVisit) /\ G!ToNextNode # <<>>
         /\ Len(G!ToNextNode) = Len(visits) /\ Len(visits) \in Nat \ {0}
         /\ \A v \in 1 .. Len(visits) - 1 : G!ToNextNode[v] = visits[v]
         /\ G!ToNextNode[Len(visits)].seq = visits[Len(visits)].seq
         /\ G!ToNextNode[Len(visits)].next = visits[Len(visits)].next + 1
         /\ \A v \in 1 .. Len(visits) : /\ G!ToNextNode[v].condition = visits[v].condition
                                        /\ G!ToNextNode[v].end = visits[v].end
<1> DEFINE top == [G!Top EXCEPT !.next = @ + 1]
<1>1. Len(visits) \in Nat \ {0} /\ G!Top = visits[Len(visits)] /\ G!Top \in ActiveVisit
  BY TopVisit
<1>2. /\ top \in ActiveVisit
      /\ top.condition = visits[Len(visits)].condition /\ top.end = visits[Len(visits)].end
      /\ top.seq = visits[Len(visits)].seq /\ top.next = visits[Len(visits)].next + 1
  BY <1>1 DEF ActiveVisit
<1> HIDE DEF top
<1>3. visits \in Seq(ActiveVisit)
  BY DEF Inv, Module
<1> DEFINE A == Append(Front(visits), top)
           S == ActiveVisit
<1>4. /\ A \in Seq(S) /\ A # <<>> /\ Len(A) = Len(visits)
      /\ \A k \in 1 .. Len(visits) - 1 : A[k] = visits[k]
      /\ A[Len(visits)] = top
  <2>1. visits \in Seq(S) /\ top \in S
    BY <1>2, <1>3
  <2> HIDE DEF S
  <2> QED
    BY <2>1, LastReplaced
<1>5. G!ToNextNode = A
  BY DEF G!ToNextNode, G!Front, Front, top
<1> HIDE DEF A
<1>6. \A v \in 1 .. Len(visits) : v = Len(visits) \/ v \in 1 .. Len(visits) - 1
  BY <1>1
<1>7. \A v \in 1 .. Len(visits) : /\ A[v].condition = visits[v].condition
                                  /\ A[v].end = visits[v].end
  BY <1>2, <1>4, <1>6
<1> QED
  BY <1>1, <1>2, <1>4, <1>5, <1>7

LEMMA ThreeMore ==
  ASSUME NEW S, NEW s \in Seq(S), NEW x \in S, NEW y \in S, NEW z \in S
  PROVE  /\ s \o <<x, y, z>> \in Seq(S)
         /\ Len(s \o <<x, y, z>>) = Len(s) + 3
         /\ \A k \in 1 .. Len(s) : (s \o <<x, y, z>>)[k] = s[k]
         /\ (s \o <<x, y, z>>)[Len(s) + 1] = x
         /\ (s \o <<x, y, z>>)[Len(s) + 2] = y
         /\ (s \o <<x, y, z>>)[Len(s) + 3] = z
<1> DEFINE t == <<x, y, z>>
<1>1. t \in Seq(S) /\ Len(t) = 3 /\ t[1] = x /\ t[2] = y /\ t[3] = z
  OBVIOUS
<1> HIDE DEF t
<1>2. /\ s \o t \in Seq(S) /\ Len(s \o t) = Len(s) + Len(t)
      /\ \A k \in 1 .. Len(s) + Len(t) :
           (s \o t)[k] = IF k <= Len(s) THEN s[k] ELSE t[k - Len(s)]
  BY <1>1, ConcatProperties
<1>3. Len(s) \in Nat
  BY LenProperties
<1> QED
  BY <1>1, <1>2, <1>3 DEF t

-----------------------------------------------------------------------------
(* The steps of the generator, which leave the tree alone. *)

LEMMA VisitProgramStep ==
  Inv /\ G!VisitProgram /\ UNCHANGED <<frames, outcome>> => Inv'
<1> SUFFICES ASSUME Inv, G!VisitProgram, UNCHANGED <<frames, outcome>> PROVE Inv'
  OBVIOUS
<1> DEFINE i == [op |-> "tapeBegin", at |-> 1]
           visit == G!Visit(program, 0, 0)
<1>1. /\ program # 0 /\ blocks = <<>>
      /\ blocks' = << <<i>> >> /\ insert' = 1 /\ visits' = <<visit>>
      /\ UNCHANGED <<sequences, program, position, generated, frames, outcome>>
  BY DEF G!VisitProgram
<1>2. program \in 1 .. Len(sequences)
  <2>1. program \in 0 .. Len(sequences) /\ Len(sequences) \in Nat
    BY LenProperties DEF Inv, Tree
  <2> QED
    BY <1>1, <2>1
<1>3. visit \in ActiveVisit
  BY <1>2 DEF G!Visit, ActiveVisit
<1>4. i \in InstructionUpTo(1) /\ i.op \notin G!Terminators
  BY DEF InstructionUpTo, G!Terminators
<1> HIDE DEF i, visit
<1>5. /\ blocks' \in Seq(Seq(InstructionUpTo(1))) /\ Len(blocks') = 1
      /\ DOMAIN blocks' = {1} /\ blocks'[1] = <<i>>
      /\ visits' \in Seq(ActiveVisit) /\ Len(visits') = 1
  BY <1>1, <1>3, <1>4
<1>6. DOMAIN <<i>> = {1} /\ Len(<<i>>) = 1 /\ Last(<<i>>) = i
  BY DEF Last
<1>7. Straight(<<i>>) /\ ~Closed(<<i>>)
  BY <1>4, <1>6 DEF Straight, Closed
<1>8. \A v \in 2 .. Len(visits') : FALSE
  BY <1>5
<1>9. Waiting'
  BY <1>1, <1>5, <1>7, <1>8 DEF Waiting
<1>10. ~generated
  BY <1>1 DEF Inv, Module
<1>11. Module'
  BY <1>1, <1>5, <1>7, <1>9, <1>10 DEF Inv, Module, ActiveVisit
<1> QED
  BY <1>1, <1>11 DEF Inv, Tree

LEMMA VisitLeafStep ==
  Inv /\ G!VisitLeaf /\ UNCHANGED <<frames, outcome>> => Inv'
<1> SUFFICES ASSUME Inv, G!VisitLeaf, UNCHANGED <<frames, outcome>> PROVE Inv'
  OBVIOUS
<1> DEFINE i == G!Instruction(G!CurrentNode.op, position + 1)
           n == Len(blocks)
<1>1. /\ visits # <<>> /\ ~G!AtSequenceEnd /\ G!CurrentNode.op # "Loop"
      /\ blocks' = G!Emit(i) /\ visits' = G!ToNextNode /\ position' = position + 1
      /\ UNCHANGED <<sequences, program, insert, generated, frames, outcome>>
  BY DEF G!VisitLeaf, G!Visiting
<1>2. Module /\ Waiting /\ position \in Nat /\ n \in Nat
  BY <1>1, LenProperties DEF Inv, Module
<1>3. G!CurrentNode \in NodeUpTo(Len(sequences))
  BY <1>1, TopVisit
<1>4. G!CurrentNode.op \in P!LeafOps
  BY <1>1, <1>3 DEF NodeUpTo
<1>5. i \in InstructionUpTo(n) /\ i.op \notin G!Terminators
  <2> DEFINE op == G!CurrentNode.op
             loc == position + 1
  <2>1. op \in P!LeafOps /\ loc \in Nat
    BY <1>2, <1>4
  <2> HIDE DEF op, loc
  <2>2. /\ G!Instruction(op, loc) \in InstructionUpTo(n)
        /\ G!Instruction(op, loc).op \notin G!Terminators
    BY <2>1, LeafInstruction
  <2> QED
    BY <2>2 DEF op, loc
<1> HIDE DEF i
<1>6. /\ blocks' \in Seq(Seq(InstructionUpTo(n)))
      /\ Len(blocks') = n /\ n \in Nat
      /\ insert \in 1 .. n
      /\ \A b \in 1 .. n : /\ Straight(blocks'[b])
                           /\ b # insert => blocks'[b] = blocks[b]
      /\ ~Closed(blocks'[insert])
  <2>1. Len(blocks) <= n
    BY <1>2
  <2> HIDE DEF n
  <2>2. /\ G!Emit(i) \in Seq(Seq(InstructionUpTo(n)))
        /\ Len(G!Emit(i)) = Len(blocks)
        /\ insert \in 1 .. Len(blocks)
        /\ \A b \in 1 .. Len(blocks) : /\ Straight(G!Emit(i)[b])
                                       /\ b # insert => G!Emit(i)[b] = blocks[b]
        /\ Closed(G!Emit(i)[insert]) <=> i.op \in G!Terminators
    BY <1>2, <1>5, <2>1, Emitted
  <2> QED
    BY <1>1, <1>2, <1>5, <2>2 DEF n
<1>7. DOMAIN blocks' = 1 .. n /\ DOMAIN blocks = 1 .. n /\ blocks # <<>>
  BY <1>2, <1>6, SeqTypes DEF Module
<1>8. /\ visits' \in Seq(ActiveVisit) /\ visits' # <<>>
      /\ Len(visits') = Len(visits) /\ Len(visits) \in Nat \ {0}
      /\ \A v \in 1 .. Len(visits) : /\ visits'[v].condition = visits[v].condition
                                     /\ visits'[v].end = visits[v].end
  BY <1>1, NextNode
<1>9. \A v \in 2 .. Len(visits) : v \in 1 .. Len(visits)
  BY <1>8
<1>10. Waiting'
  <2> HIDE DEF n
  <2>1. \A b \in 1 .. n : Closed(blocks'[b]) <=> Closed(blocks[b])
    BY <1>2, <1>6, <1>7 DEF Waiting
  <2>2. Len(blocks) = n
    BY DEF n
  <2> DEFINE d == Len(visits)
  <2>3. insert' = insert /\ Len(visits') = d
    BY <1>1, <1>8
  <2>4. \A v \in 2 .. d : /\ visits'[v].condition = visits[v].condition
                          /\ visits'[v].end = visits[v].end
    BY <1>8, <1>9
  <2> HIDE DEF d
  <2>5. /\ \A v \in 2 .. d : /\ visits[v].condition \in 2 .. n
                             /\ visits[v].end \in 1 .. n /\ visits[v].end # insert
        /\ \A v, w \in 2 .. d : visits[v].end = visits[w].end => v = w
        /\ \A b \in 1 .. n :
             ~Closed(blocks[b]) <=> \/ b = insert
                                    \/ \E v \in 2 .. d : visits[v].end = b
    BY <1>2, <1>7, <2>2 DEF Waiting, d
  <2>6. \A v \in 2 .. d : /\ visits'[v].condition \in 2 .. n
                          /\ visits'[v].end \in 1 .. n /\ visits'[v].end # insert
    BY <2>4, <2>5
  <2>7. \A v, w \in 2 .. d : visits'[v].end = visits'[w].end => v = w
    BY <2>4, <2>5
  <2>8. \A b \in 1 .. n :
          ~Closed(blocks'[b]) <=> \/ b = insert
                                  \/ \E v \in 2 .. d : visits'[v].end = b
    BY <2>1, <2>4, <2>5
  <2> QED
    BY <1>6, <1>7, <2>3, <2>6, <2>7, <2>8 DEF Waiting
<1>11. ~generated
  BY <1>1 DEF Inv, Module
<1>12. program # 0
  BY <1>2, <1>7 DEF Module
<1>13. Module'
  BY <1>1, <1>2, <1>6, <1>7, <1>8, <1>10, <1>11, <1>12 DEF Module, ActiveVisit
<1> QED
  BY <1>1, <1>13 DEF Inv, Tree

LEMMA FinishLoopStep ==
  Inv /\ G!FinishLoop /\ UNCHANGED <<frames, outcome>> => Inv'
<1> SUFFICES ASSUME Inv, G!FinishLoop, UNCHANGED <<frames, outcome>> PROVE Inv'
  OBVIOUS
<1> DEFINE i == [op |-> "br", to |-> G!Top.condition, at |-> position + 1]
           n == Len(blocks)
           d == Len(visits)
<1>1. /\ visits # <<>> /\ d > 1
      /\ blocks' = G!Emit(i) /\ insert' = G!Top.end /\ visits' = Front(visits)
      /\ position' = position + 1
      /\ UNCHANGED <<sequences, program, generated, frames, outcome>>
  BY DEF G!FinishLoop, G!Visiting, G!BackEdge, G!AfterLoop, G!Front, Front
<1>2. Module /\ Waiting /\ position \in Nat /\ n \in Nat
  BY <1>1, LenProperties DEF Inv, Module
<1>3. G!Top = visits[d] /\ d \in Nat \ {0}
  BY <1>1, TopVisit
<1>4. d \in 2 .. d
  BY <1>1, <1>3
<1>5. visits[d].condition \in 2 .. n /\ visits[d].end \in DOMAIN blocks /\ visits[d].end # insert
  BY <1>2, <1>4 DEF Waiting
<1>6. i \in InstructionUpTo(n) /\ i.op \in G!Terminators
  BY <1>2, <1>3, <1>5 DEF InstructionUpTo, G!Terminators
<1> HIDE DEF i
<1>7. /\ blocks' \in Seq(Seq(InstructionUpTo(n)))
      /\ Len(blocks') = n /\ n \in Nat
      /\ insert \in 1 .. n
      /\ \A b \in 1 .. n : /\ Straight(blocks'[b])
                           /\ b # insert => blocks'[b] = blocks[b]
      /\ Closed(blocks'[insert])
  <2>1. Len(blocks) <= n
    BY <1>2
  <2> HIDE DEF n
  <2>2. /\ G!Emit(i) \in Seq(Seq(InstructionUpTo(n)))
        /\ Len(G!Emit(i)) = Len(blocks)
        /\ insert \in 1 .. Len(blocks)
        /\ \A b \in 1 .. Len(blocks) : /\ Straight(G!Emit(i)[b])
                                       /\ b # insert => G!Emit(i)[b] = blocks[b]
        /\ Closed(G!Emit(i)[insert]) <=> i.op \in G!Terminators
    BY <1>2, <1>6, <2>1, Emitted
  <2> QED
    BY <1>1, <1>2, <1>6, <2>2 DEF n
<1>8. DOMAIN blocks' = 1 .. n /\ DOMAIN blocks = 1 .. n /\ blocks # <<>>
  BY <1>2, <1>7, SeqTypes DEF Module
<1>9. /\ visits' \in Seq(ActiveVisit)
      /\ Len(visits') = d - 1
      /\ \A v \in 1 .. d - 1 : visits'[v] = visits[v]
  BY <1>1, <1>2, FrontType DEF Module
<1>10. \A v \in 2 .. d : v = d \/ v \in 2 .. d - 1
  BY <1>3
<1>11. \A v \in 2 .. d - 1 : v \in 2 .. d /\ v # d /\ visits'[v] = visits[v]
  BY <1>3, <1>9
<1>12. Waiting'
  <2>1. \A b \in 1 .. n : b # insert => (Closed(blocks'[b]) <=> Closed(blocks[b]))
    BY <1>7
  <2>2. insert' = visits[d].end /\ insert' \in 1 .. n
    BY <1>1, <1>3, <1>5, <1>8
  <2>3. \A v \in 2 .. d - 1 : /\ visits'[v].condition \in 2 .. n
                              /\ visits'[v].end \in 1 .. n /\ visits'[v].end # insert'
    BY <1>2, <1>4, <1>8, <1>11, <2>2 DEF Waiting
  <2>4. \A v, w \in 2 .. d - 1 : visits'[v].end = visits'[w].end => v = w
    BY <1>2, <1>11 DEF Waiting
  <2>5. \A b \in 1 .. n :
          ~Closed(blocks'[b]) <=> \/ b = insert'
                                  \/ \E v \in 2 .. d - 1 : visits'[v].end = b
    <3> SUFFICES ASSUME NEW b \in 1 .. n
                 PROVE  ~Closed(blocks'[b]) <=> \/ b = insert'
                                                \/ \E v \in 2 .. d - 1 : visits'[v].end = b
      OBVIOUS
    <3>1. CASE b = insert
      BY <1>2, <1>5, <1>7, <1>11, <2>2, <3>1 DEF Waiting
    <3>2. CASE b # insert
      <4>1. ~Closed(blocks'[b]) <=> \E v \in 2 .. d : visits[v].end = b
        BY <1>2, <1>8, <2>1, <3>2 DEF Waiting
      <4>2. (\E v \in 2 .. d : visits[v].end = b)
              <=> \/ visits[d].end = b
                  \/ \E v \in 2 .. d - 1 : visits[v].end = b
        BY <1>4, <1>10, <1>11
      <4>3. (\E v \in 2 .. d - 1 : visits[v].end = b)
              <=> \E v \in 2 .. d - 1 : visits'[v].end = b
        BY <1>11
      <4> QED
        BY <2>2, <4>1, <4>2, <4>3
    <3> QED
      BY <3>1, <3>2
  <2> HIDE DEF n, d
  <2> QED
    BY <1>7, <1>8, <1>9, <2>2, <2>3, <2>4, <2>5 DEF Waiting
<1>13. ~generated /\ program # 0
  BY <1>1, <1>8 DEF Inv, Module
<1> HIDE DEF n
<1>14. Module'
  BY <1>1, <1>2, <1>7, <1>8, <1>9, <1>12, <1>13 DEF Module, ActiveVisit
<1> QED
  BY <1>1, <1>14 DEF Inv, Tree

LEMMA FinishProgramStep ==
  Inv /\ G!FinishProgram /\ UNCHANGED <<frames, outcome>> => Inv'
<1> SUFFICES ASSUME Inv, G!FinishProgram, UNCHANGED <<frames, outcome>> PROVE Inv'
  OBVIOUS
<1> DEFINE i == [op |-> "ret", value |-> 0, at |-> position + 1]
           n == Len(blocks)
<1>1. /\ visits # <<>> /\ Len(visits) = 1
      /\ blocks' = G!Emit(i) /\ visits' = <<>> /\ generated'
      /\ UNCHANGED <<sequences, program, position, frames, outcome>>
  BY DEF G!FinishProgram, G!Visiting
<1>2. Module /\ Waiting /\ position \in Nat /\ n \in Nat
  BY <1>1, LenProperties DEF Inv, Module
<1>3. i \in InstructionUpTo(n) /\ i.op \in G!Terminators
  BY <1>2 DEF InstructionUpTo, G!Terminators
<1> HIDE DEF i
<1>4. /\ blocks' \in Seq(Seq(InstructionUpTo(n)))
      /\ Len(blocks') = n /\ n \in Nat
      /\ insert \in 1 .. n
      /\ \A b \in 1 .. n : /\ Straight(blocks'[b])
                           /\ b # insert => blocks'[b] = blocks[b]
      /\ Closed(blocks'[insert])
  <2>1. Len(blocks) <= n
    BY <1>2
  <2> HIDE DEF n
  <2>2. /\ G!Emit(i) \in Seq(Seq(InstructionUpTo(n)))
        /\ Len(G!Emit(i)) = Len(blocks)
        /\ insert \in 1 .. Len(blocks)
        /\ \A b \in 1 .. Len(blocks) : /\ Straight(G!Emit(i)[b])
                                       /\ b # insert => G!Emit(i)[b] = blocks[b]
        /\ Closed(G!Emit(i)[insert]) <=> i.op \in G!Terminators
    BY <1>2, <1>3, <2>1, Emitted
  <2> QED
    BY <1>1, <1>2, <1>3, <2>2 DEF n
<1>5. /\ DOMAIN blocks' = 1 .. n /\ DOMAIN blocks = 1 .. n
      /\ blocks # <<>> /\ blocks' # <<>>
  BY <1>2, <1>4, SeqTypes DEF Module
<1>6. \A v \in 2 .. Len(visits) : FALSE
  BY <1>1
<1>7. \A b \in 1 .. n : Closed(blocks'[b])
  BY <1>2, <1>4, <1>5, <1>6 DEF Waiting
<1>8. program # 0 /\ <<>> \in Seq(ActiveVisit')
  BY <1>2, <1>5 DEF Module
<1> HIDE DEF n
<1>9. Module'
  BY <1>1, <1>2, <1>4, <1>5, <1>7, <1>8 DEF Module
<1> QED
  BY <1>1, <1>9 DEF Inv, Tree

LEMMA VisitLoopStep ==
  Inv /\ G!VisitLoop /\ UNCHANGED <<frames, outcome>> => Inv'
<1> SUFFICES ASSUME Inv, G!VisitLoop, UNCHANGED <<frames, outcome>> PROVE Inv'
  OBVIOUS
<1> DEFINE m == Len(blocks)
           d == Len(visits)
           i == [op |-> "br", to |-> m + 1, at |-> position + 1]
           test == [op |-> "condbr", then |-> m + 2, else |-> m + 3, at |-> position + 1]
           emitted == G!Emit(i)
           inner == G!Visit(G!CurrentNode.inner, m + 1, m + 3)
           S == InstructionUpTo(m + 3)
<1>1. /\ visits # <<>> /\ ~G!AtSequenceEnd /\ G!CurrentNode.op = "Loop"
      /\ blocks' = emitted \o << <<test>>, <<>>, <<>> >>
      /\ insert' = m + 2 /\ visits' = Append(G!ToNextNode, inner)
      /\ position' = position + 1
      /\ UNCHANGED <<sequences, program, generated, frames, outcome>>
  BY DEF G!VisitLoop, G!Visiting
<1>2. Module /\ Waiting /\ position \in Nat /\ m \in Nat
  BY <1>1, LenProperties DEF Inv, Module
<1>3. inner \in ActiveVisit
  <2>1. G!CurrentNode \in NodeUpTo(Len(sequences))
    BY <1>1, TopVisit
  <2>2. G!CurrentNode.inner \in 1 .. Len(sequences)
    BY <1>1, <2>1 DEF NodeUpTo, P!LeafOps
  <2> QED
    BY <1>2, <2>2 DEF G!Visit, ActiveVisit
<1>4. inner.condition = m + 1 /\ inner.end = m + 3
  BY DEF G!Visit
<1>5. m > 0 /\ insert \in 1 .. m /\ DOMAIN blocks = 1 .. m /\ blocks # <<>>
  <2>1. DOMAIN blocks = 1 .. m /\ (blocks # <<>> <=> m > 0)
    BY <1>2, SeqTypes DEF Module
  <2> QED
    BY <1>2, <2>1 DEF Waiting
<1>6. i \in S /\ test \in S /\ i.op \in G!Terminators /\ test.op \in G!Terminators
  BY <1>2, <1>5 DEF InstructionUpTo, G!Terminators
<1> HIDE DEF i, test, inner
<1>7. /\ emitted \in Seq(Seq(S)) /\ Len(emitted) = m
      /\ \A b \in 1 .. m : /\ Straight(emitted[b])
                           /\ b # insert => emitted[b] = blocks[b]
      /\ Closed(emitted[insert])
  <2> DEFINE n == m + 3
  <2>1. n \in Nat /\ Len(blocks) <= n
    BY <1>2
  <2> HIDE DEF n
  <2>2. /\ G!Emit(i) \in Seq(Seq(InstructionUpTo(n)))
        /\ Len(G!Emit(i)) = Len(blocks)
        /\ \A b \in 1 .. Len(blocks) : /\ Straight(G!Emit(i)[b])
                                       /\ b # insert => G!Emit(i)[b] = blocks[b]
        /\ Closed(G!Emit(i)[insert]) <=> i.op \in G!Terminators
    BY <1>2, <1>6, <2>1, Emitted DEF n
  <2> QED
    BY <1>6, <2>2 DEF n
<1> HIDE DEF emitted
<1>8. /\ blocks' \in Seq(Seq(S)) /\ Len(blocks') = m + 3
      /\ \A b \in 1 .. m : blocks'[b] = emitted[b]
      /\ blocks'[m + 1] = <<test>> /\ blocks'[m + 2] = <<>> /\ blocks'[m + 3] = <<>>
  <2> DEFINE T == Seq(S)
  <2>1. emitted \in Seq(T) /\ <<test>> \in T /\ <<>> \in T
    BY <1>6, <1>7
  <2> HIDE DEF T
  <2> DEFINE x == <<test>>
             e == <<>>
  <2> HIDE DEF x, e
  <2>2. /\ emitted \o <<x, e, e>> \in Seq(T)
        /\ Len(emitted \o <<x, e, e>>) = Len(emitted) + 3
        /\ \A k \in 1 .. Len(emitted) : (emitted \o <<x, e, e>>)[k] = emitted[k]
        /\ (emitted \o <<x, e, e>>)[Len(emitted) + 1] = x
        /\ (emitted \o <<x, e, e>>)[Len(emitted) + 2] = e
        /\ (emitted \o <<x, e, e>>)[Len(emitted) + 3] = e
    BY <2>1, ThreeMore DEF x, e
  <2>3. blocks' = emitted \o <<x, e, e>>
    BY <1>1 DEF x, e
  <2> QED
    BY <1>7, <2>2, <2>3 DEF T, x, e
<1>9. DOMAIN blocks' = 1 .. m + 3 /\ blocks' # <<>>
  BY <1>2, <1>8, SeqTypes
<1>10. /\ Straight(<<test>>) /\ Closed(<<test>>) /\ Straight(<<>>) /\ ~Closed(<<>>)
  BY <1>6 DEF Straight, Closed, Last
<1>11. \A b \in 1 .. m + 3 : b \in 1 .. m \/ b = m + 1 \/ b = m + 2 \/ b = m + 3
  BY <1>2
<1>12. \A b \in 1 .. m + 3 : Straight(blocks'[b])
  BY <1>7, <1>8, <1>10, <1>11
<1>13. /\ visits' \in Seq(ActiveVisit) /\ Len(visits') = d + 1 /\ d \in Nat \ {0}
       /\ visits'[d + 1] = inner
       /\ \A v \in 1 .. d : /\ visits'[v].condition = visits[v].condition
                            /\ visits'[v].end = visits[v].end
  <2> DEFINE s == G!ToNextNode
             V == ActiveVisit
  <2>1. /\ s \in Seq(V) /\ Len(s) = d /\ d \in Nat \ {0}
        /\ \A v \in 1 .. d : /\ s[v].condition = visits[v].condition
                             /\ s[v].end = visits[v].end
    BY <1>1, NextNode
  <2>2. visits' = Append(s, inner) /\ inner \in V
    BY <1>1, <1>3
  <2> HIDE DEF s, V
  <2>3. /\ Append(s, inner) \in Seq(V)
        /\ Len(Append(s, inner)) = Len(s) + 1
        /\ \A k \in 1 .. Len(s) : Append(s, inner)[k] = s[k]
        /\ Append(s, inner)[Len(s) + 1] = inner
    BY <2>1, <2>2, AppendType
  <2> QED
    BY <2>1, <2>2, <2>3 DEF V
<1>14. \A v \in 2 .. d + 1 : v = d + 1 \/ (v \in 2 .. d /\ v \in 1 .. d)
  BY <1>13
<1>15. Waiting'
  <2>1. /\ \A v \in 2 .. d : /\ visits[v].condition \in 2 .. m
                             /\ visits[v].end \in 1 .. m /\ visits[v].end # insert
        /\ \A v, w \in 2 .. d : visits[v].end = visits[w].end => v = w
        /\ \A b \in 1 .. m :
             ~Closed(blocks[b]) <=> \/ b = insert
                                    \/ \E v \in 2 .. d : visits[v].end = b
    BY <1>2, <1>5 DEF Waiting
  <2>2. \A v \in 2 .. d : /\ visits'[v].condition = visits[v].condition
                          /\ visits'[v].end = visits[v].end
    BY <1>13, <1>14
  <2>3. visits'[d + 1].condition = m + 1 /\ visits'[d + 1].end = m + 3 /\ d + 1 \in 2 .. d + 1
    BY <1>4, <1>13
  <2> HIDE DEF m, d
  <2>4. \A v \in 2 .. d + 1 : /\ visits'[v].condition \in 2 .. m + 3
                              /\ visits'[v].end \in 1 .. m + 3
                              /\ visits'[v].end # m + 2
    BY <1>2, <1>5, <1>14, <2>1, <2>2, <2>3
  <2>5. \A v, w \in 2 .. d + 1 : visits'[v].end = visits'[w].end => v = w
    <3> SUFFICES ASSUME NEW v \in 2 .. d + 1, NEW w \in 2 .. d + 1,
                        visits'[v].end = visits'[w].end
                 PROVE  v = w
      OBVIOUS
    <3>1. ASSUME NEW u \in 2 .. d PROVE visits'[u].end # m + 3
      BY <1>2, <2>1, <2>2
    <3> QED
      BY <1>14, <2>1, <2>2, <2>3, <3>1
  <2>6. \A b \in 1 .. m + 3 :
          ~Closed(blocks'[b]) <=> \/ b = m + 2
                                  \/ \E v \in 2 .. d + 1 : visits'[v].end = b
    <3> SUFFICES ASSUME NEW b \in 1 .. m + 3
                 PROVE  ~Closed(blocks'[b]) <=> \/ b = m + 2
                                                \/ \E v \in 2 .. d + 1 : visits'[v].end = b
      OBVIOUS
    <3>1. ASSUME NEW v \in 2 .. d PROVE visits'[v].end \in 1 .. m /\ visits'[v].end # insert
      BY <2>1, <2>2
    <3>2. CASE b = insert
      <4>1. Closed(blocks'[b]) /\ b # m + 2 /\ b # m + 3
        BY <1>2, <1>5, <1>7, <1>8, <3>2
      <4>2. ~\E v \in 2 .. d + 1 : visits'[v].end = b
        BY <1>14, <2>3, <3>1, <3>2, <4>1
      <4> QED
        BY <4>1, <4>2
    <3>3. CASE b \in 1 .. m /\ b # insert
      <4>1. Closed(blocks'[b]) <=> Closed(blocks[b])
        BY <1>7, <1>8, <3>3
      <4>2. b # m + 2 /\ b # m + 3
        BY <1>2, <3>3
      <4>3. (\E v \in 2 .. d + 1 : visits'[v].end = b) <=> \E v \in 2 .. d : visits[v].end = b
        <5>1. \A v \in 2 .. d : v \in 2 .. d + 1
          BY <1>13
        <5> QED
          BY <1>14, <2>2, <2>3, <4>2, <5>1
      <4> QED
        BY <2>1, <3>3, <4>1, <4>2, <4>3
    <3>4. CASE b = m + 1
      <4>1. Closed(blocks'[b])
        BY <1>8, <1>10, <3>4
      <4>2. b # m + 2 /\ b # m + 3 /\ b \notin 1 .. m
        BY <1>2, <3>4
      <4>3. ~\E v \in 2 .. d + 1 : visits'[v].end = b
        BY <1>14, <2>3, <3>1, <4>2
      <4> QED
        BY <4>1, <4>2, <4>3
    <3>5. CASE b = m + 2
      BY <1>8, <1>10, <3>5
    <3>6. CASE b = m + 3
      BY <1>8, <1>10, <2>3, <3>6
    <3> QED
      BY <1>11, <3>2, <3>3, <3>4, <3>5, <3>6
  <2>7. m + 2 \in 1 .. m + 3
    BY <1>2
  <2> QED
    <3>1. /\ insert' = m + 2 /\ Len(visits') = d + 1
          /\ Len(blocks') = m + 3 /\ DOMAIN blocks' = 1 .. m + 3
      BY <1>1, <1>8, <1>9, <1>13
    <3>2. insert' \in DOMAIN blocks'
      BY <2>7, <3>1
    <3>3. \A v \in 2 .. Len(visits') : /\ visits'[v].condition \in 2 .. Len(blocks')
                                       /\ visits'[v].end \in DOMAIN blocks'
                                       /\ visits'[v].end # insert'
      BY <2>4, <3>1
    <3>4. \A v, w \in 2 .. Len(visits') : visits'[v].end = visits'[w].end => v = w
      BY <2>5, <3>1
    <3>5. \A b \in DOMAIN blocks' :
            ~Closed(blocks'[b]) <=> \/ b = insert'
                                    \/ \E v \in 2 .. Len(visits') : visits'[v].end = b
      BY <2>6, <3>1
    <3> QED
      BY <3>2, <3>3, <3>4, <3>5 DEF Waiting
<1>16. ~generated /\ program # 0
  BY <1>1, <1>2, <1>5 DEF Module
<1> HIDE DEF m, d
<1>17. blocks' \in Seq(Seq(InstructionUpTo(Len(blocks'))))
  BY <1>8 DEF S
<1>18. (visits \in Seq(ActiveVisit))' /\ position' \in Nat
  BY <1>1, <1>2, <1>13 DEF ActiveVisit
<1>19. ~generated' /\ program' # 0
  BY <1>1, <1>16
<1>20. Module'
  BY <1>9, <1>12, <1>15, <1>17, <1>18, <1>19 DEF Module
<1> QED
  BY <1>1, <1>20 DEF Inv, Tree

-----------------------------------------------------------------------------
LEMMA InvInit == Init => Inv
<1> SUFFICES ASSUME Init PROVE Inv
  OBVIOUS
<1>1. Tree
  BY TreeInit DEF Init
<1>2. /\ blocks = <<>> /\ visits = <<>> /\ position = 0 /\ ~generated
  BY DEF Init, G!Init
<1>3. \A S : <<>> \in Seq(S)
  OBVIOUS
<1>4. DOMAIN blocks = {}
  BY <1>2
<1>5. Module
  BY <1>2, <1>3, <1>4 DEF Module
<1> QED
  BY <1>1, <1>5 DEF Inv

(* The generator does not begin before parse() has returned, and the       *)
(* parser does nothing after that.                                         *)
LEMMA ParseStep == Inv /\ Parse => Inv'
<1> SUFFICES ASSUME Inv, Parse PROVE Inv'
  OBVIOUS
<1>1. P!Next /\ UNCHANGED generatorVars
  BY DEF Parse
<1>2. Tree'
  BY <1>1, TreeStep DEF Inv
<1>3. program = 0
  BY <1>1 DEF Inv, Tree, P!Next, P!PushLeaf, P!EnterLoop, P!LeaveLoop, P!UnexpectedLoopEnd,
              P!UnclosedLoop, P!Finish
<1>4. blocks = <<>> /\ visits = <<>> /\ ~generated
  BY <1>3, EmptySeq DEF Inv, Module, Waiting
<1>5. UNCHANGED <<blocks, visits, position, generated>>
  BY <1>1 DEF generatorVars
<1>6. \A S : <<>> \in Seq(S)
  OBVIOUS
<1>7. DOMAIN blocks = {}
  BY <1>4
<1>8. Module'
  BY <1>4, <1>5, <1>6, <1>7 DEF Inv, Module
<1> QED
  BY <1>2, <1>8 DEF Inv

LEMMA InvStep == Inv /\ [Next]_vars => Inv'
<1> SUFFICES ASSUME Inv, [Next]_vars PROVE Inv'
  OBVIOUS
<1>1. CASE Parse
  BY <1>1, ParseStep
<1>2. CASE Generate
  <2>1. G!Next /\ UNCHANGED <<frames, outcome>>
    BY <1>2 DEF Generate
  <2> QED
    BY <2>1, VisitProgramStep, VisitLeafStep, VisitLoopStep, FinishLoopStep, FinishProgramStep
       DEF G!Next
<1>3. CASE UNCHANGED <<parserVars, generatorVars>>
  BY <1>3 DEF Inv, Tree, Module, Waiting, ActiveVisit, parserVars, generatorVars
<1>4. UNCHANGED vars => UNCHANGED <<parserVars, generatorVars>>
  BY DEF vars, parserVars, generatorVars
<1> QED
  BY <1>1, <1>2, <1>3, <1>4 DEF Next, Run

LEMMA InvAlways == Spec => []Inv
  BY InvInit, InvStep, PTL DEF Spec

-----------------------------------------------------------------------------
(* For every source text: nothing is emitted behind a terminator, and      *)
(* branches go to blocks that exist and never to the entry block, at every *)
(* moment of the generation.                                               *)
THEOREM BlocksCorrect == Spec => []BlocksWellFormed
<1>1. ASSUME Inv PROVE BlocksWellFormed
  <2> DEFINE n == Len(blocks)
  <2>1. blocks \in Seq(Seq(InstructionUpTo(n))) /\ \A b \in DOMAIN blocks : Straight(blocks[b])
    BY <1>1 DEF Inv, Module
  <2> HIDE DEF n
  <2>2. ASSUME NEW b \in DOMAIN blocks, NEW k \in DOMAIN blocks[b]
        PROVE  /\ blocks[b][k].op \in G!Terminators => k = Len(blocks[b])
               /\ G!Targets(blocks[b][k]) \subseteq 2 .. n
    <3>1. blocks[b] \in Seq(InstructionUpTo(n))
      BY <2>1, SeqTypes
    <3> DEFINE i == blocks[b][k]
    <3>2. i \in InstructionUpTo(n)
      BY <3>1, SeqTypes
    <3> HIDE DEF i
    <3>3. G!Targets(i) \subseteq 2 .. n
      BY <3>2, InstructionOp DEF G!Targets
    <3> QED
      BY <2>1, <3>3 DEF Straight, i
  <2> QED
    BY <2>2 DEF BlocksWellFormed, G!BlocksWellFormed, n
<1> QED
  BY <1>1, InvAlways, PTL

(* For every source text: the blocks that wait for a terminator are the    *)
(* insertion block and the ends of the loops being visited, one for each,  *)
(* and when generate() returns there is none.                              *)
THEOREM OpenBlocksCorrect == Spec => []OpenBlocksArePending
<1>1. ASSUME Inv PROVE OpenBlocksArePending
  <2> DEFINE open == {b \in DOMAIN blocks : ~G!Terminated(b)}
             d == Len(visits)
             loops == 2 .. d
             end == [v \in loops |-> visits[v].end]
  <2>1. \A b : G!Terminated(b) <=> Closed(blocks[b])
    BY DEF G!Terminated, G!Last, Last, Closed
  <2>2. generated => open = {}
    BY <1>1, <2>1 DEF Inv, Module
  <2>3. ASSUME visits # <<>>
        PROVE  /\ open = {insert} \cup G!PendingEnds /\ insert \notin G!PendingEnds
               /\ Cardinality(G!PendingEnds) = d - 1
    <3>1. d \in Nat \ {0} /\ Waiting
      BY <1>1, <2>3, EmptySeq DEF Inv, Module
    <3>2. G!PendingEnds = {visits[v].end : v \in loops}
      BY DEF G!PendingEnds
    <3>3. open = {insert} \cup G!PendingEnds
      BY <2>1, <3>1, <3>2 DEF Waiting
    <3>4. insert \notin G!PendingEnds
      BY <3>1, <3>2 DEF Waiting
    <3>5. Cardinality(loops) = d - 1 /\ IsFiniteSet(loops)
      <4>1. IsFiniteSet(2 .. d) /\ Cardinality(2 .. d) = IF 2 > d THEN 0 ELSE d - 2 + 1
        BY <3>1, FS_Interval
      <4> QED
        BY <3>1, <4>1
    <3>6. end \in Bijection(loops, G!PendingEnds)
      <4>1. end \in [loops -> G!PendingEnds]
        BY <3>2
      <4>2. \A v, w \in loops : end[v] = end[w] => v = w
        BY <3>1 DEF Waiting
      <4>3. \A e \in G!PendingEnds : \E v \in loops : end[v] = e
        BY <3>2
      <4> HIDE DEF end, loops
      <4> QED
        BY <4>1, <4>2, <4>3 DEF Bijection, Injection, Surjection, IsInjective
    <3> HIDE DEF end, loops, d
    <3>7. ExistsBijection(loops, G!PendingEnds)
      BY <3>6 DEF ExistsBijection
    <3>8. Cardinality(G!PendingEnds) = Cardinality(loops)
      BY <3>5, <3>7, FS_Bijection
    <3> QED
      BY <3>3, <3>4, <3>5, <3>8
  <2>4. G!Cardinality(G!PendingEnds) = Cardinality(G!PendingEnds)
    BY DEF G!Cardinality, Cardinality
  <2> QED
    BY <2>2, <2>3, <2>4 DEF OpenBlocksArePending, G!OpenBlocksArePending, G!Visiting
<1> QED
  BY <1>1, InvAlways, PTL

-----------------------------------------------------------------------------
(* The tree lies in the text, as ParserProofs shows of the parser alone.   *)

LEMMA SameParser ==
  /\ P!Init <=> R!Init
  /\ P!Next <=> R!Next
  /\ P!Char = R!Char
  /\ Source = R!Source
<1>1. P!Char = R!Char
  BY DEF P!Char, R!Char, P!parsable_chars, R!parsable_chars
<1>2. P!Init <=> R!Init
  BY DEF P!Init, R!Init, P!Begin, R!Begin, P!FindNext, R!FindNext, P!End, R!End,
         P!Stop, R!Stop, P!parsable_chars, R!parsable_chars
<1>3. Source = R!Source
  BY DEF Source, R!Source, P!WithoutComments, R!WithoutComments, P!Kept, R!Kept,
         P!parsable_chars, R!parsable_chars
<1>4. P!Advance <=> R!Advance
  BY DEF P!Advance, R!Advance, P!Increment, R!Increment, P!FindNext, R!FindNext,
         P!End, R!End, P!Stop, R!Stop, P!parsable_chars, R!parsable_chars
<1>5. P!token = R!token
  BY DEF P!token, R!token, P!Deref, R!Deref
<1>6. \A t : P!MakeNode(t) = R!MakeNode(t)
  BY DEF P!MakeNode, R!MakeNode
<1>7. \A calls, node : P!PushBack(calls, node) = R!PushBack(calls, node)
  BY DEF P!PushBack, R!PushBack, P!Front, R!Front, P!Last, R!Last
<1>8. P!AtEnd <=> R!AtEnd
  BY DEF P!AtEnd, R!AtEnd, P!End, R!End
<1>9. P!InLoop <=> R!InLoop
  BY DEF P!InLoop, R!InLoop
<1>10. P!PushLeaf <=> R!PushLeaf
  BY <1>4, <1>5, <1>6, <1>7, <1>8 DEF P!PushLeaf, R!PushLeaf
<1>11. P!EnterLoop <=> R!EnterLoop
  BY <1>4, <1>5, <1>8 DEF P!EnterLoop, R!EnterLoop
<1>12. P!LeaveLoop <=> R!LeaveLoop
  BY <1>4, <1>5, <1>7, <1>8, <1>9 DEF P!LeaveLoop, R!LeaveLoop, P!CallerAdvance,
     R!CallerAdvance, P!Last, R!Last, P!Front, R!Front
<1>13. P!UnexpectedLoopEnd <=> R!UnexpectedLoopEnd
  BY <1>5, <1>8, <1>9 DEF P!UnexpectedLoopEnd, R!UnexpectedLoopEnd, P!Throw, R!Throw
<1>14. P!UnclosedLoop <=> R!UnclosedLoop
  BY <1>8, <1>9 DEF P!UnclosedLoop, R!UnclosedLoop, P!Throw, R!Throw
<1>15. P!Finish <=> R!Finish
  BY <1>8, <1>9 DEF P!Finish, R!Finish
<1> QED
  BY <1>1, <1>2, <1>3, <1>10, <1>11, <1>12, <1>13, <1>14, <1>15 DEF P!Next, R!Next

(* What is known of the text and of the tree. *)
Parsed ==
  /\ R!IInv /\ R!Layout
  /\ program # 0 => outcome = "parsed"

LEMMA ParsedInit == Init => Parsed
<1> SUFFICES ASSUME Init PROVE Parsed
  OBVIOUS
<1>1. R!Init /\ Texts \subseteq Seq(R!Char)
  BY SameParser, SourcesAssumption DEF Init
<1>2. program = 0
  BY DEF Init, P!Init
<1> QED
  BY <1>1, <1>2, R!InitEstablishes, R!LayoutInit DEF Parsed

LEMMA ParsedStep == Inv /\ Parsed /\ [Next]_vars => Parsed'
<1> SUFFICES ASSUME Inv, Parsed, [Next]_vars PROVE Parsed'
  OBVIOUS
<1>1. ASSUME UNCHANGED <<text, current, frames, sequences, program, outcome>>
      PROVE  Parsed'
  <2>1. UNCHANGED R!vars
    BY <1>1 DEF R!vars
  <2>2. Texts \subseteq Seq(R!Char)
    BY SameParser, SourcesAssumption
  <2>3. R!IInv' /\ R!Layout'
    BY <2>1, <2>2, R!StepPreserves, R!LayoutStep DEF Parsed
  <2> QED
    BY <1>1, <2>3 DEF Parsed
<1>2. CASE Parse
  <2>1. P!Next /\ R!Next /\ Texts \subseteq Seq(R!Char)
    BY <1>2, SameParser, SourcesAssumption DEF Parse
  <2>2. R!IInv' /\ R!Layout'
    BY <2>1, R!StepPreserves, R!LayoutStep DEF Parsed
  <2>3. program' # 0 => outcome' = "parsed"
    <3>1. outcome = "parsing" /\ program = 0
      BY <2>1 DEF Inv, Tree, P!Next, P!PushLeaf, P!EnterLoop, P!LeaveLoop,
                  P!UnexpectedLoopEnd, P!UnclosedLoop, P!Finish
    <3>2. program' = program \/ outcome' = "parsed"
      BY <2>1 DEF P!Next, P!PushLeaf, P!EnterLoop, P!LeaveLoop,
                  P!UnexpectedLoopEnd, P!UnclosedLoop, P!Finish, P!Throw
    <3> QED
      BY <3>1, <3>2
  <2> QED
    BY <2>2, <2>3 DEF Parsed
<1>3. CASE Generate
  <2>1. UNCHANGED <<sequences, program>>
    BY <1>3 DEF Generate, G!Next, G!VisitProgram, G!VisitLeaf, G!VisitLoop, G!FinishLoop,
                G!FinishProgram
  <2> QED
    BY <1>1, <1>3, <2>1 DEF Generate
<1>4. CASE Run
  BY <1>1, <1>4 DEF Run, parserVars
<1>5. CASE UNCHANGED vars
  BY <1>1, <1>5 DEF vars, parserVars
<1> QED
  BY <1>2, <1>3, <1>4, <1>5 DEF Next

LEMMA SourceType ==
  ASSUME Parsed PROVE Source \in Seq(P!parsable_chars)
<1>1. text \in Seq(P!Char)
  BY SourcesAssumption DEF Parsed, R!IInv, R!TypeOK
<1>2. Len(text) \in 0 .. Len(text)
  BY <1>1, LenProperties
<1>3. Kept(text, P!parsable_chars)[Len(text)] \in Seq(P!parsable_chars)
  BY <1>1, <1>2, KeptType
<1>4. Kept(text, P!parsable_chars) = P!Kept(text, P!parsable_chars)
  BY DEF Kept, P!Kept
<1> QED
  BY <1>3, <1>4 DEF Source, P!WithoutComments

(* Once there is a Program, its Sequences have their places in the text. *)
LEMMA TreeLies ==
  ASSUME Inv, Parsed, program # 0
  PROVE  /\ \E posn : Whole(sequences, program, posn, Source, R!Sym)
         /\ Source \in Seq(P!parsable_chars)
<1>1. PICK posn : R!Whole(sequences, program, posn, R!Source, R!Sym)
  BY DEF Parsed, R!Layout
<1>2. Whole(sequences, program, posn, Source, R!Sym)
  <2>1. \A src : R!Whole(sequences, program, posn, src, R!Sym)
                   <=> Whole(sequences, program, posn, src, R!Sym)
    BY DEF Whole, R!Whole, Placed, R!Placed, Lies, R!Lies, NodeAt, R!NodeAt, Until, R!Until,
           Ends, R!Ends, Occurrences, R!Occurrences, Cardinality, R!Cardinality
  <2> QED
    BY <1>1, <2>1, SameParser
<1> QED
  BY <1>2, SourceType

-----------------------------------------------------------------------------
(* What the steps of the generator do to the blocks.  `after' is `blocks'  *)
(* with instruction i behind the others of the insertion block, and        *)
(* perhaps with blocks of its own.                                         *)
Grows(after, i) ==
  /\ Len(blocks) \in Nat /\ Len(after) \in Nat /\ Len(blocks) <= Len(after)
  /\ DOMAIN blocks = 1 .. Len(blocks) /\ DOMAIN after = 1 .. Len(after)
  /\ insert \in 1 .. Len(blocks) /\ ~Closed(blocks[insert])
  /\ after[insert] = Append(blocks[insert], i)
  /\ \A b \in 1 .. Len(blocks) : b # insert => after[b] = blocks[b]

LEMMA EmitGrows ==
  ASSUME Inv, visits # <<>>, NEW n \in Nat, Len(blocks) <= n, NEW i \in InstructionUpTo(n)
  PROVE  /\ Grows(G!Emit(i), i) /\ Len(G!Emit(i)) = Len(blocks)
         /\ G!Emit(i) \in Seq(Seq(InstructionUpTo(n)))
<1>1. Module /\ Waiting
  BY DEF Inv, Module
<1>2. /\ G!Emit(i) \in Seq(Seq(InstructionUpTo(n)))
      /\ Len(G!Emit(i)) = Len(blocks) /\ Len(blocks) \in Nat
      /\ insert \in 1 .. Len(blocks)
      /\ \A b \in 1 .. Len(blocks) : b # insert => G!Emit(i)[b] = blocks[b]
      /\ G!Emit(i)[insert] = Append(blocks[insert], i)
  BY <1>1, Emitted
<1>3. DOMAIN blocks = 1 .. Len(blocks) /\ ~Closed(blocks[insert])
  <2>1. DOMAIN blocks = 1 .. Len(blocks)
    BY <1>1, SeqTypes DEF Module
  <2> QED
    BY <1>1, <1>2, <2>1 DEF Waiting
<1>4. DOMAIN G!Emit(i) = 1 .. Len(G!Emit(i))
  BY <1>2, SeqTypes
<1> QED
  BY <1>2, <1>3, <1>4 DEF Grows

(* Each instruction was there before, or is the new one, or is in a new    *)
(* block.                                                                  *)
LEMMA OldOrNew ==
  ASSUME Inv, NEW after, NEW i, Grows(after, i)
  PROVE  /\ \A b \in 1 .. Len(blocks) :
              /\ DOMAIN blocks[b] = 1 .. Len(blocks[b]) /\ Len(blocks[b]) \in Nat
              /\ \A k \in DOMAIN blocks[b] : k \in DOMAIN after[b] /\ after[b][k] = blocks[b][k]
              /\ \A k \in DOMAIN after[b] :
                   \/ k \in DOMAIN blocks[b] /\ after[b][k] = blocks[b][k]
                   \/ b = insert /\ k = Len(blocks[b]) + 1 /\ after[b][k] = i
         /\ after[insert] # <<>> /\ Last(after[insert]) = i
         /\ Len(after[insert]) = Len(blocks[insert]) + 1
         /\ DOMAIN after[insert] = 1 .. Len(after[insert])
         /\ after[insert][Len(blocks[insert]) + 1] = i
<1> DEFINE S == InstructionUpTo(Len(blocks)) \cup {i}
           T == Seq(S)
           a == Append(blocks[insert], i)
<1>1. \A b \in 1 .. Len(blocks) : blocks[b] \in Seq(S)
  <2>1. InstructionUpTo(Len(blocks)) \subseteq S
    OBVIOUS
  <2> HIDE DEF S
  <2>2. blocks \in Seq(T)
    BY <2>1, Nested DEF Inv, Module
  <2> HIDE DEF T
  <2>3. \A b \in 1 .. Len(blocks) : blocks[b] \in T
    BY <2>2, ElementOfSeq
  <2> QED
    BY <2>3 DEF T
<1>2. i \in S
  OBVIOUS
<1> HIDE DEF S
<1>3. \A b \in 1 .. Len(blocks) : DOMAIN blocks[b] = 1 .. Len(blocks[b]) /\ Len(blocks[b]) \in Nat
  BY <1>1, SeqTypes
<1>4. insert \in 1 .. Len(blocks) /\ after[insert] = a
      /\ \A b \in 1 .. Len(blocks) : b # insert => after[b] = blocks[b]
  BY DEF Grows
<1>5. /\ a \in Seq(S) /\ a # <<>> /\ Len(a) = Len(blocks[insert]) + 1
      /\ \A k \in 1 .. Len(blocks[insert]) : a[k] = blocks[insert][k]
      /\ a[Len(blocks[insert]) + 1] = i
  <2> DEFINE b == blocks[insert]
  <2>1. b \in Seq(S)
    BY <1>1, <1>4
  <2> HIDE DEF b
  <2>2. /\ Append(b, i) \in Seq(S) /\ Append(b, i) # <<>> /\ Len(Append(b, i)) = Len(b) + 1
        /\ \A k \in 1 .. Len(b) : Append(b, i)[k] = b[k]
        /\ Append(b, i)[Len(b) + 1] = i
    BY <1>2, <2>1, AppendType
  <2> QED
    BY <2>2 DEF b
<1> HIDE DEF a
<1>6. DOMAIN a = 1 .. Len(a) /\ Last(a) = i
  BY <1>5, SeqTypes DEF Last
<1>7. ASSUME NEW b \in 1 .. Len(blocks)
      PROVE  /\ \A k \in DOMAIN blocks[b] : k \in DOMAIN after[b] /\ after[b][k] = blocks[b][k]
             /\ \A k \in DOMAIN after[b] :
                  \/ k \in DOMAIN blocks[b] /\ after[b][k] = blocks[b][k]
                  \/ b = insert /\ k = Len(blocks[b]) + 1 /\ after[b][k] = i
  <2>1. CASE b = insert
    <3>1. after[b] = a
      BY <1>4, <2>1
    <3> DEFINE n == Len(blocks[b])
    <3>2. n \in Nat /\ DOMAIN blocks[b] = 1 .. n
      BY <1>3
    <3>3. DOMAIN a = 1 .. n + 1 /\ (\A k \in 1 .. n : a[k] = blocks[b][k]) /\ a[n + 1] = i
      BY <1>5, <1>6, <2>1
    <3>4. \A k \in 1 .. n + 1 : k \in 1 .. n \/ k = n + 1
      BY <3>2
    <3>5. \A k \in 1 .. n : k \in 1 .. n + 1
      BY <3>2
    <3> HIDE DEF n
    <3>6. \A k \in 1 .. n + 1 : \/ k \in 1 .. n /\ a[k] = blocks[b][k]
                                \/ k = n + 1 /\ a[k] = i
      BY <3>3, <3>4
    <3> QED
      BY <2>1, <3>1, <3>2, <3>3, <3>5, <3>6 DEF n
  <2>2. CASE b # insert
    BY <1>4, <2>2
  <2> QED
    BY <2>1, <2>2
<1> QED
  BY <1>3, <1>4, <1>5, <1>6, <1>7

(* The blocks that end with a branch to c. *)
Into(bs, c) ==
  {p \in DOMAIN bs : bs[p] # <<>> /\ Last(bs[p]).op = "br" /\ Last(bs[p]).to = c}

(* The functions that are called. *)
Called(bs) ==
  {f \in G!Functions : \E b \in DOMAIN bs : \E k \in DOMAIN bs[b] :
                         bs[b][k].op = "call" /\ bs[b][k].callee = f}

LEMMA IntoGrows ==
  ASSUME Inv, NEW after, NEW i, Grows(after, i),
         \A b \in Len(blocks) + 1 .. Len(after) : after[b] = <<>> \/ Last(after[b]).op # "br",
         NEW c
  PROVE  /\ insert \notin Into(blocks, c)
         /\ i.op = "br" /\ i.to = c => Into(after, c) = Into(blocks, c) \cup {insert}
         /\ ~(i.op = "br" /\ i.to = c) => Into(after, c) = Into(blocks, c)
<1>1. insert \notin Into(blocks, c)
  BY DEF Into, Grows, Closed, G!Terminators
<1>2. after[insert] # <<>> /\ Last(after[insert]) = i
  BY OldOrNew
<1>3. \A b \in 1 .. Len(after) : b \in 1 .. Len(blocks) \/ b \in Len(blocks) + 1 .. Len(after)
  BY DEF Grows
<1>4. \A b \in 1 .. Len(blocks) : b \in 1 .. Len(after)
  BY DEF Grows
<1>5. /\ DOMAIN blocks = 1 .. Len(blocks) /\ DOMAIN after = 1 .. Len(after)
      /\ insert \in 1 .. Len(blocks)
      /\ \A b \in 1 .. Len(blocks) : b # insert => after[b] = blocks[b]
  BY DEF Grows
<1>6. \A b : b \in Into(after, c) /\ b # insert => b \in Into(blocks, c)
  BY <1>3, <1>5 DEF Into
<1>7. \A b \in Into(blocks, c) : b \in Into(after, c)
  BY <1>1, <1>4, <1>5 DEF Into
<1>8. insert \in Into(after, c) <=> i.op = "br" /\ i.to = c
  BY <1>2, <1>4, <1>5 DEF Into
<1> QED
  BY <1>1, <1>6, <1>7, <1>8

LEMMA CalledGrows ==
  ASSUME Inv, NEW after, NEW i, Grows(after, i),
         \A b \in Len(blocks) + 1 .. Len(after) : \A k \in DOMAIN after[b] : after[b][k].op # "call"
  PROVE  /\ i.op = "call" /\ i.callee \in G!Functions => Called(after) = Called(blocks) \cup {i.callee}
         /\ i.op # "call" => Called(after) = Called(blocks)
<1>1. /\ DOMAIN blocks = 1 .. Len(blocks) /\ DOMAIN after = 1 .. Len(after)
      /\ insert \in 1 .. Len(blocks)
      /\ \A b \in 1 .. Len(blocks) : b \in 1 .. Len(after)
      /\ \A b \in 1 .. Len(after) : b \in 1 .. Len(blocks) \/ b \in Len(blocks) + 1 .. Len(after)
  BY DEF Grows
<1>2. \A b \in 1 .. Len(blocks) :
        /\ \A k \in DOMAIN blocks[b] : k \in DOMAIN after[b] /\ after[b][k] = blocks[b][k]
        /\ \A k \in DOMAIN after[b] :
             \/ k \in DOMAIN blocks[b] /\ after[b][k] = blocks[b][k]
             \/ b = insert /\ k = Len(blocks[b]) + 1 /\ after[b][k] = i
  BY OldOrNew
<1>3. \E k \in DOMAIN after[insert] : after[insert][k] = i
  <2>1. /\ Len(after[insert]) = Len(blocks[insert]) + 1 /\ Len(blocks[insert]) \in Nat
        /\ DOMAIN after[insert] = 1 .. Len(after[insert])
        /\ after[insert][Len(blocks[insert]) + 1] = i
    BY <1>1, OldOrNew
  <2>2. Len(blocks[insert]) + 1 \in DOMAIN after[insert]
    BY <2>1
  <2> QED
    BY <2>1, <2>2
<1>4. Called(blocks) \subseteq Called(after)
  BY <1>1, <1>2 DEF Called
<1>5. \A f \in Called(after) : f \in Called(blocks) \/ (i.op = "call" /\ i.callee = f)
  BY <1>1, <1>2 DEF Called
<1>6. i.op = "call" /\ i.callee \in G!Functions => i.callee \in Called(after)
  BY <1>1, <1>3 DEF Called
<1> QED
  BY <1>4, <1>5, <1>6

-----------------------------------------------------------------------------
(* The code: where in the source `src' the instructions of the blocks `bs' *)
(* belong, and what they do there.                                         *)

(* The instruction that follows i in its block, and the first of a block:  *)
(* behind the bracket that opens the loop in its body, and behind the one  *)
(* that closes it in its end.                                              *)
After(i) == IF i.op = "tapeBegin" THEN i.at ELSE i.at + 1
Due(bs, src, b) ==
  CASE b = 1     -> 1
    [] b % 3 = 2 -> bs[b][1].at
    [] b % 3 = 0 -> bs[b - 1][1].at + 1
    [] OTHER     -> Matching(src, bs[b - 2][1].at) + 1
Place(bs, src, b, k) == IF k = 1 THEN Due(bs, src, b) ELSE After(bs[b][k - 1])

(* A condition is one branch to the body and the end, which come behind it.*)
Condition(bs, c) ==
  /\ c + 2 \in DOMAIN bs
  /\ Len(bs[c]) = 1 /\ DOMAIN bs[c] = {1} /\ bs[c][1].op = "condbr"
  /\ bs[c][1].then = c + 1 /\ bs[c][1].else = c + 2

(* What instruction i, the k-th of block b, does is what the source says.  *)
Says(bs, src, b, k, i) ==
  /\ i.op = "tapeBegin" => b = 1 /\ k = 1 /\ i.at = 1
  /\ i.op = "ret" => i.at = Len(src) + 1
  /\ i.op \notin {"tapeBegin", "ret"} => i.at \in 1 .. Len(src)
  /\ i.op = "add" => src[i.at] = IF i.amount = 1 THEN "+" ELSE "-"
  /\ i.op = "move" => src[i.at] = IF i.amount = 1 THEN ">" ELSE "<"
  /\ i.op = "call" => src[i.at] = IF i.callee = "getchar" THEN "," ELSE "."
  /\ i.op = "condbr" => b % 3 = 2 /\ src[i.at] = "["
  /\ i.op = "br" => /\ i.to \in DOMAIN bs /\ i.to % 3 = 2
                    /\ \/ src[i.at] = "[" /\ bs[i.to][1].at = i.at
                       \/ src[i.at] = "]" /\ bs[i.to][1].at = Matching(src, i.at)

Code(bs, src) ==
  /\ \A c \in DOMAIN bs : c % 3 = 2 => Condition(bs, c)
  /\ \A b \in DOMAIN bs : \A k \in DOMAIN bs[b] :
       bs[b][k].at = Place(bs, src, b, k) /\ Says(bs, src, b, k, bs[b][k])

(* Behind the blocks there may be the three of a loop whose bracket is at  *)
(* the n-th symbol.                                                        *)
Adds(after, n) ==
  \/ Len(after) = Len(blocks)
  \/ /\ Len(after) = Len(blocks) + 3
     /\ after[Len(blocks) + 1] =
          <<[op |-> "condbr", then |-> Len(blocks) + 2, else |-> Len(blocks) + 3, at |-> n]>>
     /\ after[Len(blocks) + 2] = <<>> /\ after[Len(blocks) + 3] = <<>>

(* No condition of the code is changed.                                    *)
LEMMA ConditionsKept ==
  ASSUME Inv, NEW src, Code(blocks, src), NEW after, NEW i, Grows(after, i)
  PROVE  /\ \A c \in 1 .. Len(blocks) :
              c % 3 = 2 => c # insert /\ after[c] = blocks[c] /\ Condition(blocks, c)
         /\ \A b \in 1 .. Len(blocks) : Due(after, src, b) = Due(blocks, src, b)
<1>1. /\ Len(blocks) \in Nat /\ DOMAIN blocks = 1 .. Len(blocks)
      /\ ~Closed(blocks[insert])
      /\ \A b \in 1 .. Len(blocks) : b # insert => after[b] = blocks[b]
  BY DEF Grows
<1>2. ASSUME NEW c \in 1 .. Len(blocks), c % 3 = 2
      PROVE  c # insert /\ after[c] = blocks[c] /\ Condition(blocks, c)
  <2>1. Condition(blocks, c)
    BY <1>1, <1>2 DEF Code
  <2>2. blocks[c] # <<>>
    BY <2>1 DEF Condition
  <2>3. Closed(blocks[c])
    BY <2>1, <2>2 DEF Condition, Closed, Last, G!Terminators
  <2> QED
    BY <1>1, <2>1, <2>3
<1>3. ASSUME NEW b \in 1 .. Len(blocks) PROVE Due(after, src, b) = Due(blocks, src, b)
  <2>1. CASE b = 1
    BY <2>1 DEF Due
  <2>2. CASE b % 3 = 2
    BY <1>2, <2>2 DEF Due
  <2>3. CASE b % 3 = 0
    <3>1. b - 1 \in 1 .. Len(blocks) /\ (b - 1) % 3 = 2 /\ b # 1 /\ b % 3 # 2
      BY <1>1, <2>3
    <3>2. after[b - 1] = blocks[b - 1]
      BY <1>2, <3>1
    <3> QED
      BY <2>3, <3>1, <3>2 DEF Due
  <2>4. CASE b # 1 /\ b % 3 # 2 /\ b % 3 # 0
    <3>1. b - 2 \in 1 .. Len(blocks) /\ (b - 2) % 3 = 2
      BY <1>1, <2>4
    <3>2. after[b - 2] = blocks[b - 2]
      BY <1>2, <3>1
    <3> QED
      BY <2>4, <3>2 DEF Due
  <2> QED
    BY <2>1, <2>2, <2>3, <2>4
<1> QED
  BY <1>2, <1>3

LEMMA GrowsBounds ==
  ASSUME NEW after, NEW i, Grows(after, i)
  PROVE  /\ Len(blocks) \in Nat /\ DOMAIN blocks = 1 .. Len(blocks)
         /\ Len(after) \in Nat /\ DOMAIN after = 1 .. Len(after) /\ Len(blocks) <= Len(after)
         /\ insert \in 1 .. Len(blocks)
         /\ \A b \in 1 .. Len(blocks) : b \in 1 .. Len(after)
         /\ \A b \in 1 .. Len(blocks) : b # insert => after[b] = blocks[b]
<1>1. /\ Len(blocks) \in Nat /\ DOMAIN blocks = 1 .. Len(blocks)
      /\ Len(after) \in Nat /\ DOMAIN after = 1 .. Len(after) /\ Len(blocks) <= Len(after)
      /\ insert \in 1 .. Len(blocks)
      /\ \A b \in 1 .. Len(blocks) : b # insert => after[b] = blocks[b]
  BY DEF Grows
<1>2. \A b \in 1 .. Len(blocks) : b \in 1 .. Len(after)
  BY <1>1
<1> QED
  BY <1>1, <1>2

LEMMA ThreeBlocks ==
  ASSUME NEW m \in Nat, m % 3 = 1
  PROVE  /\ (m + 1) % 3 = 2 /\ (m + 2) % 3 = 0 /\ (m + 3) % 3 = 1
         /\ m # m + 3 /\ m + 1 # 1 /\ m + 1 \notin 1 .. m /\ m + 2 \notin 1 .. m /\ m + 3 \notin 1 .. m
         /\ (m + 1) + 1 = m + 2 /\ (m + 1) + 2 = m + 3
         /\ m + 1 \in 1 .. m + 3 /\ m + 2 \in 1 .. m + 3 /\ m + 3 \in 1 .. m + 3
         /\ \A b \in 1 .. m + 3 : b \in 1 .. m \/ b \in {m + 1, m + 2, m + 3}
  OBVIOUS

(* How the blocks of such an addition are numbered, behind the first m.    *)
Numbered(after, n, m) ==
  /\ m \in Nat /\ m # m + 3
  /\ (m + 1) % 3 = 2 /\ (m + 2) % 3 = 0 /\ (m + 3) % 3 = 1
  /\ m + 1 # 1 /\ m + 1 \notin 1 .. m /\ m + 2 \notin 1 .. m /\ m + 3 \notin 1 .. m
  /\ (m + 1) + 1 = m + 2 /\ (m + 1) + 2 = m + 3
  /\ Len(after) \in {m, m + 3}
  /\ \A b \in 1 .. Len(after) :
       b \in 1 .. m \/ (Len(after) = m + 3 /\ b \in {m + 1, m + 2, m + 3})
  /\ Len(after) = m + 3 =>
       /\ after[m + 1] = <<[op |-> "condbr", then |-> m + 2, else |-> m + 3, at |-> n]>>
       /\ after[m + 2] = <<>> /\ after[m + 3] = <<>>
       /\ m + 1 \in DOMAIN after /\ m + 2 \in DOMAIN after /\ m + 3 \in DOMAIN after

LEMMA AddsWhere ==
  ASSUME NEW after, NEW i, NEW n, Grows(after, i), Adds(after, n), Len(blocks) % 3 = 1,
         NEW m, m = Len(blocks)
  PROVE  Numbered(after, n, m)
<1>1. m \in Nat /\ m % 3 = 1 /\ DOMAIN after = 1 .. Len(after)
  BY GrowsBounds
<1>2. /\ (m + 1) % 3 = 2 /\ (m + 2) % 3 = 0 /\ (m + 3) % 3 = 1 /\ m # m + 3
      /\ m + 1 # 1 /\ m + 1 \notin 1 .. m /\ m + 2 \notin 1 .. m /\ m + 3 \notin 1 .. m
      /\ (m + 1) + 1 = m + 2 /\ (m + 1) + 2 = m + 3
      /\ m + 1 \in 1 .. m + 3 /\ m + 2 \in 1 .. m + 3 /\ m + 3 \in 1 .. m + 3
      /\ \A b \in 1 .. m + 3 : b \in 1 .. m \/ b \in {m + 1, m + 2, m + 3}
  BY <1>1, ThreeBlocks
<1>3. \/ Len(after) = m
      \/ /\ Len(after) = m + 3
         /\ after[m + 1] = <<[op |-> "condbr", then |-> m + 2, else |-> m + 3, at |-> n]>>
         /\ after[m + 2] = <<>> /\ after[m + 3] = <<>>
  BY DEF Adds
<1>4. \A b \in 1 .. Len(after) :
        b \in 1 .. m \/ (Len(after) = m + 3 /\ b \in {m + 1, m + 2, m + 3})
  BY <1>2, <1>3
<1> QED
  BY <1>1, <1>2, <1>3, <1>4 DEF Numbered

LEMMA CodeGrows ==
  ASSUME Inv, NEW src, Code(blocks, src), Len(blocks) % 3 = 1,
         NEW after, NEW i, Grows(after, i), Adds(after, i.at),
         i.at = Place(blocks, src, insert, Len(blocks[insert]) + 1),
         Says(after, src, insert, Len(blocks[insert]) + 1, i),
         Len(after) # Len(blocks) => i.at \in 1 .. Len(src) /\ src[i.at] = "["
  PROVE  Code(after, src)
<1> DEFINE m == Len(blocks)
<1>1. /\ m \in Nat /\ DOMAIN blocks = 1 .. m
      /\ Len(after) \in Nat /\ DOMAIN after = 1 .. Len(after) /\ m <= Len(after)
      /\ insert \in 1 .. m
      /\ \A b \in 1 .. m : b \in 1 .. Len(after)
  BY GrowsBounds
<1>2. Numbered(after, i.at, m)
  <2> DEFINE n == i.at
  <2>1. Adds(after, n) /\ m = Len(blocks)
    OBVIOUS
  <2> HIDE DEF n, m
  <2>2. Numbered(after, n, m)
    BY <2>1, AddsWhere
  <2> QED
    BY <2>2 DEF n
<1>3. \A c \in 1 .. m : c % 3 = 2 => c # insert /\ after[c] = blocks[c] /\ Condition(blocks, c)
  BY ConditionsKept
<1>4. \A b \in 1 .. m : Due(after, src, b) = Due(blocks, src, b)
  BY ConditionsKept
<1>5. Len(after) # m => i.at \in 1 .. Len(src) /\ src[i.at] = "["
  OBVIOUS
<1> HIDE DEF m
<1>6. \A b \in 1 .. Len(after) :
        b \in 1 .. m \/ (Len(after) = m + 3 /\ b \in {m + 1, m + 2, m + 3})
  BY <1>2 DEF Numbered
<1>7. ASSUME Len(after) = m + 3
      PROVE  /\ after[m + 1] = <<[op |-> "condbr", then |-> m + 2, else |-> m + 3, at |-> i.at]>>
             /\ after[m + 2] = <<>> /\ after[m + 3] = <<>>
             /\ i.at \in 1 .. Len(src) /\ src[i.at] = "["
             /\ m + 3 \in DOMAIN after /\ m + 1 \in DOMAIN after
  BY <1>2, <1>5, <1>7 DEF Numbered
<1>8. ASSUME NEW c \in DOMAIN after, c % 3 = 2 PROVE Condition(after, c)
  <2>1. CASE c \in 1 .. m
    <3>1. c + 2 \in DOMAIN after
      BY <1>1, <1>3, <1>8, <2>1 DEF Condition
    <3> QED
      BY <1>3, <1>8, <2>1, <3>1 DEF Condition
  <2>2. CASE c \notin 1 .. m
    <3>1. Len(after) = m + 3 /\ c = m + 1
      BY <1>1, <1>2, <1>6, <1>8, <2>2 DEF Numbered
    <3>2. after[c] = <<[op |-> "condbr", then |-> m + 2, else |-> m + 3, at |-> i.at]>>
      BY <1>7, <3>1
    <3> QED
      BY <1>2, <1>7, <3>1, <3>2 DEF Condition, Numbered
  <2> QED
    BY <2>1, <2>2
<1>9. \A b \in 1 .. m :
        /\ DOMAIN blocks[b] = 1 .. Len(blocks[b]) /\ Len(blocks[b]) \in Nat
        /\ \A k \in DOMAIN blocks[b] : k \in DOMAIN after[b] /\ after[b][k] = blocks[b][k]
        /\ \A k \in DOMAIN after[b] :
             \/ k \in DOMAIN blocks[b] /\ after[b][k] = blocks[b][k]
             \/ b = insert /\ k = Len(blocks[b]) + 1 /\ after[b][k] = i
  BY OldOrNew DEF m
<1>10. ASSUME NEW b \in 1 .. m, NEW k \in 1 .. Len(blocks[b]) + 1
       PROVE  Place(after, src, b, k) = Place(blocks, src, b, k)
  <2>1. CASE k = 1
    BY <1>4, <2>1 DEF Place
  <2>2. CASE k # 1
    <3>1. k - 1 \in DOMAIN blocks[b]
      BY <1>9, <2>2
    <3>2. after[b][k - 1] = blocks[b][k - 1]
      BY <1>9, <3>1
    <3> QED
      BY <2>2, <3>2 DEF Place
  <2> QED
    BY <2>1, <2>2
<1>11. ASSUME NEW b \in DOMAIN after, NEW k \in DOMAIN after[b]
       PROVE  after[b][k].at = Place(after, src, b, k) /\ Says(after, src, b, k, after[b][k])
  <2>1. CASE b \in 1 .. m /\ k \in DOMAIN blocks[b] /\ after[b][k] = blocks[b][k]
    <3> DEFINE j == blocks[b][k]
    <3>1. j.at = Place(blocks, src, b, k) /\ Says(blocks, src, b, k, j)
      BY <1>1, <2>1 DEF Code
    <3> HIDE DEF j
    <3>2. Place(after, src, b, k) = Place(blocks, src, b, k)
      <4>1. k \in 1 .. Len(blocks[b]) + 1
        BY <1>9, <2>1
      <4> QED
        BY <1>10, <2>1, <4>1
    <3>3. Says(after, src, b, k, j)
      <4>1. j.op = "br" => j.to \in DOMAIN after /\ after[j.to] = blocks[j.to]
        BY <1>1, <1>3, <3>1 DEF Says
      <4> QED
        BY <3>1, <4>1 DEF Says
    <3> QED
      BY <2>1, <3>1, <3>2, <3>3 DEF j
  <2>2. CASE b = insert /\ k = Len(blocks[b]) + 1 /\ after[b][k] = i
    <3>1. k \in 1 .. Len(blocks[b]) + 1
      <4>1. Len(blocks[b]) \in Nat
        BY <1>1, <1>9, <2>2
      <4> DEFINE l == Len(blocks[b])
      <4>2. l + 1 \in 1 .. l + 1
        BY <4>1
      <4> QED
        BY <2>2, <4>2
    <3>2. Place(after, src, b, k) = Place(blocks, src, b, k)
      BY <1>1, <1>10, <2>2, <3>1
    <3> QED
      BY <2>2, <3>2
  <2>3. CASE b \notin 1 .. m
    <3>1. Len(after) = m + 3 /\ b \in {m + 1, m + 2, m + 3}
      BY <1>1, <1>6, <2>3
    <3>2. b = m + 1
      BY <1>7, <3>1
    <3>3. after[b] = <<[op |-> "condbr", then |-> m + 2, else |-> m + 3, at |-> i.at]>>
      BY <1>7, <3>1, <3>2
    <3>4. k = 1 /\ after[b][k] = [op |-> "condbr", then |-> m + 2, else |-> m + 3, at |-> i.at]
      BY <3>3
    <3>5. Place(after, src, b, k) = i.at
      BY <1>2, <3>2, <3>4 DEF Place, Due, Numbered
    <3> DEFINE j == after[b][k]
    <3>6. j.op = "condbr" /\ j.at = i.at
      BY <3>4
    <3>7. i.at \in 1 .. Len(src) /\ src[i.at] = "[" /\ b % 3 = 2
      BY <1>2, <1>7, <3>1, <3>2 DEF Numbered
    <3> HIDE DEF j
    <3>8. Says(after, src, b, k, j)
      BY <3>6, <3>7 DEF Says
    <3> QED
      BY <3>5, <3>6, <3>8 DEF j
  <2> QED
    BY <1>9, <2>1, <2>2, <2>3
<1> QED
  BY <1>8, <1>11 DEF Code

(* The new blocks neither branch back nor call.                            *)
LEMMA NewBlocks ==
  ASSUME NEW after, NEW i, NEW n, Grows(after, i), Adds(after, n), Len(blocks) % 3 = 1
  PROVE  \A b \in Len(blocks) + 1 .. Len(after) :
           /\ after[b] = <<>> \/ Last(after[b]).op # "br"
           /\ \A k \in DOMAIN after[b] : after[b][k].op # "call"
<1> DEFINE m == Len(blocks)
<1>1. m = Len(blocks)
  OBVIOUS
<1>2. m \in Nat /\ Len(after) \in Nat /\ DOMAIN after = 1 .. Len(after)
  BY GrowsBounds
<1> HIDE DEF m
<1>3. Numbered(after, n, m)
  BY <1>1, AddsWhere
<1>4. \A b \in m + 1 .. Len(after) : b \in 1 .. Len(after) /\ b \notin 1 .. m
  BY <1>2
<1>5. \A b \in m + 1 .. Len(after) : Len(after) = m + 3 /\ b \in {m + 1, m + 2, m + 3}
  BY <1>3, <1>4 DEF Numbered
<1>6. ASSUME Len(after) = m + 3
      PROVE  \A b \in {m + 1, m + 2, m + 3} :
               /\ after[b] = <<>> \/ Last(after[b]).op # "br"
               /\ \A k \in DOMAIN after[b] : after[b][k].op # "call"
  <2> DEFINE j == [op |-> "condbr", then |-> m + 2, else |-> m + 3, at |-> n]
  <2>1. after[m + 1] = <<j>> /\ after[m + 2] = <<>> /\ after[m + 3] = <<>> /\ j.op = "condbr"
    BY <1>3, <1>6 DEF Numbered
  <2> HIDE DEF j
  <2>2. Last(<<j>>) = j /\ \A k \in DOMAIN <<j>> : <<j>>[k] = j
    BY DEF Last
  <2>3. \A k \in DOMAIN <<>> : FALSE
    OBVIOUS
  <2> QED
    BY <2>1, <2>2, <2>3
<1> QED
  BY <1>1, <1>5, <1>6

(* Each condition is entered from before its loop and, once the loop is no *)
(* longer `pending', from the end of its body.                             *)
Entered(bs, pending) ==
  \A c \in DOMAIN bs : c % 3 = 2 =>
    /\ c \in pending => \E p \in DOMAIN bs : Into(bs, c) = {p}
    /\ c \notin pending => \E p, q \in DOMAIN bs : p # q /\ Into(bs, c) = {p, q}

LEMMA EnteredLeaf ==
  ASSUME Inv, NEW pending, Entered(blocks, pending),
         NEW after, NEW i, Grows(after, i), Len(after) = Len(blocks), i.op # "br"
  PROVE  Entered(after, pending)
<1>1. DOMAIN after = DOMAIN blocks /\ Len(blocks) \in Nat
  BY GrowsBounds
<1>2. \A b \in Len(blocks) + 1 .. Len(after) : after[b] = <<>> \/ Last(after[b]).op # "br"
  BY <1>1
<1>3. \A c : Into(after, c) = Into(blocks, c)
  BY <1>2, IntoGrows
<1> QED
  BY <1>1, <1>3 DEF Entered

LEMMA EnteredBack ==
  ASSUME Inv, NEW pending, Entered(blocks, pending),
         NEW after, NEW i, Grows(after, i), Len(after) = Len(blocks), i.op = "br",
         i.to \in pending, NEW left, left = pending \ {i.to}
  PROVE  Entered(after, left)
<1>1. DOMAIN after = DOMAIN blocks /\ Len(blocks) \in Nat /\ insert \in DOMAIN blocks
  BY GrowsBounds
<1>2. \A b \in Len(blocks) + 1 .. Len(after) : after[b] = <<>> \/ Last(after[b]).op # "br"
  BY <1>1
<1>3. \A c : /\ insert \notin Into(blocks, c)
             /\ i.to = c => Into(after, c) = Into(blocks, c) \cup {insert}
             /\ i.to # c => Into(after, c) = Into(blocks, c)
  BY <1>2, IntoGrows
<1>4. ASSUME NEW c \in DOMAIN after, c % 3 = 2
      PROVE  /\ c \in left => \E p \in DOMAIN after : Into(after, c) = {p}
             /\ c \notin left => \E p, q \in DOMAIN after : p # q /\ Into(after, c) = {p, q}
  <2>1. CASE c = i.to
    <3>1. c \in pending /\ c \notin left
      BY <2>1
    <3>2. PICK p \in DOMAIN blocks : Into(blocks, c) = {p}
      BY <1>1, <1>4, <3>1 DEF Entered
    <3>3. p # insert /\ Into(after, c) = {p, insert}
      BY <1>3, <2>1, <3>2
    <3> QED
      BY <1>1, <3>1, <3>3
  <2>2. CASE c # i.to
    <3>1. c \in left <=> c \in pending
      BY <2>2
    <3>2. Into(after, c) = Into(blocks, c)
      BY <1>3, <2>2
    <3> QED
      BY <1>1, <1>4, <3>1, <3>2 DEF Entered
  <2> QED
    BY <2>1, <2>2
<1> QED
  BY <1>4 DEF Entered

LEMMA EnteredLoop ==
  ASSUME Inv, NEW src, Code(blocks, src), Len(blocks) % 3 = 1,
         NEW pending, Entered(blocks, pending),
         NEW after, NEW i, NEW n, Grows(after, i), Adds(after, n), Len(after) = Len(blocks) + 3,
         i.op = "br", i.to = Len(blocks) + 1,
         NEW more, more = pending \cup {Len(blocks) + 1}
  PROVE  Entered(after, more)
<1> DEFINE m == Len(blocks)
<1>1. m = Len(blocks)
  OBVIOUS
<1>2. /\ m \in Nat /\ DOMAIN blocks = 1 .. m /\ Len(after) \in Nat
      /\ DOMAIN after = 1 .. Len(after) /\ insert \in 1 .. m
      /\ \A b \in 1 .. m : b \in 1 .. Len(after)
  BY GrowsBounds
<1>3. Numbered(after, n, m)
  <2> HIDE DEF m
  <2> QED
    BY <1>1, AddsWhere
<1>4. \A b \in m + 1 .. Len(after) : after[b] = <<>> \/ Last(after[b]).op # "br"
  BY NewBlocks
<1>5. \A c : /\ i.to = c => Into(after, c) = Into(blocks, c) \cup {insert}
             /\ i.to # c => Into(after, c) = Into(blocks, c)
  BY <1>4, IntoGrows
<1>6. Len(after) = m + 3 /\ i.to = m + 1 /\ more = pending \cup {m + 1}
  OBVIOUS
<1> HIDE DEF m
<1>7. Into(blocks, m + 1) = {}
  <2> SUFFICES ASSUME NEW p \in Into(blocks, m + 1) PROVE FALSE
    OBVIOUS
  <2>1. p \in DOMAIN blocks /\ blocks[p] # <<>> /\ Last(blocks[p]).op = "br" /\ Last(blocks[p]).to = m + 1
    BY DEF Into
  <2>2. Last(blocks[p]) = blocks[p][Len(blocks[p])] /\ Len(blocks[p]) \in DOMAIN blocks[p]
    <3>1. DOMAIN blocks[p] = 1 .. Len(blocks[p]) /\ (blocks[p] # <<>> <=> Len(blocks[p]) > 0)
          /\ Len(blocks[p]) \in Nat
      <4> DEFINE T == Seq(InstructionUpTo(Len(blocks)))
                 b == blocks[p]
      <4>1. blocks \in Seq(T)
        BY DEF Inv, Module
      <4> HIDE DEF T
      <4>2. b \in T
        BY <2>1, <4>1, SeqTypes
      <4> HIDE DEF b
      <4>3. DOMAIN b = 1 .. Len(b) /\ (b # <<>> <=> Len(b) > 0) /\ Len(b) \in Nat
        BY <4>2, SeqTypes DEF T
      <4> QED
        BY <4>3 DEF b
    <3> QED
      BY <2>1, <3>1 DEF Last
  <2>3. m + 1 \in DOMAIN blocks
    <3> DEFINE k == Len(blocks[p])
               j == blocks[p][k]
    <3>1. Says(blocks, src, p, k, j) /\ j.op = "br" /\ j.to = m + 1
      BY <2>1, <2>2 DEF Code
    <3> HIDE DEF j, k
    <3> QED
      BY <3>1 DEF Says
  <2> QED
    BY <1>2, <1>3, <2>3 DEF Numbered
<1>8. ASSUME NEW c \in DOMAIN after, c % 3 = 2
      PROVE  /\ c \in more => \E p \in DOMAIN after : Into(after, c) = {p}
             /\ c \notin more => \E p, q \in DOMAIN after : p # q /\ Into(after, c) = {p, q}
  <2>1. CASE c = m + 1
    <3>1. Into(after, c) = {insert} /\ c \in more /\ insert \in DOMAIN after
      BY <1>2, <1>5, <1>6, <1>7, <2>1
    <3> QED
      BY <3>1
  <2>2. CASE c # m + 1
    <3>1. c \in DOMAIN blocks
      BY <1>2, <1>3, <1>8, <2>2 DEF Numbered
    <3>2. (c \in more <=> c \in pending) /\ Into(after, c) = Into(blocks, c)
      BY <1>5, <1>6, <2>2
    <3> QED
      BY <1>2, <1>8, <3>1, <3>2 DEF Entered
  <2> QED
    BY <2>1, <2>2
<1> QED
  BY <1>8 DEF Entered

-----------------------------------------------------------------------------
(* The walk: the visits `vs' have come to the place of the n-th symbol in  *)
(* a tree whose Sequences lie at `posn'.                                   *)

(* Where visit v is.                                                       *)
At(vs, posn, v) == posn[vs[v].seq][vs[v].next]

(* The blocks of visit v are those of the loop around its Sequence, and    *)
(* its end has nothing in it yet.                                          *)
LoopOf(vs, bs, posn, src, v) ==
  LET c == vs[v].condition
      a == bs[c][1].at
      z == Until(posn[vs[v].seq])
  IN  /\ c % 3 = 2 /\ vs[v].end = c + 2 /\ bs[c + 2] = <<>>
      /\ src[a] = "[" /\ src[z] = "]"
      /\ Matching(src, a) = z /\ Matching(src, z) = a

Follows(vs, bs, n, posn, src) ==
  /\ vs[1].seq = program
  /\ \A v \in 1 .. Len(vs) : vs[v].next \in 1 .. Len(sequences[vs[v].seq]) + 1
  /\ At(vs, posn, Len(vs)) = n + 1
  /\ \A v \in 2 .. Len(vs) :
       /\ At(vs, posn, v - 1) = Until(posn[vs[v].seq]) + 1
       /\ LoopOf(vs, bs, posn, src, v)

Translation ==
  /\ declared = Called(blocks)
  /\ blocks = <<>> => position = 0
  /\ blocks # <<>> =>
       /\ Len(blocks) = 1 + 3 * Cardinality(Occurrences(Source, position, "["))
       /\ Code(blocks, Source)
       /\ Entered(blocks, {visits[v].condition : v \in 2 .. Len(visits)})
  /\ visits # <<>> =>
       /\ position + 1 = Place(blocks, Source, insert, Len(blocks[insert]) + 1)
       /\ \E posn : /\ Whole(sequences, program, posn, Source, R!Sym)
                    /\ Follows(visits, blocks, position, posn, Source)
  /\ generated => position = Len(Source)

(* The node that is visited next is the one at the next symbol, and the    *)
(* end of the innermost Sequence is where the visits have come to.         *)
LEMMA NextInText ==
  ASSUME Inv, visits # <<>>, NEW S, NEW src \in Seq(S), NEW posn,
         Whole(sequences, program, posn, src, R!Sym),
         Follows(visits, blocks, position, posn, src),
         NEW s, s = G!Top.seq, NEW k, k = G!Top.next
  PROVE  /\ s \in 1 .. Len(sequences) /\ position \in 0 .. Len(src)
         /\ G!AtSequenceEnd => Until(posn[s]) = position + 1
         /\ ~G!AtSequenceEnd =>
              /\ k + 1 \in 1 .. Len(sequences[s]) + 1
              /\ posn[s][k + 1] \in 1 .. Len(src) + 1
              /\ NodeAt(G!CurrentNode, position + 1, posn[s][k + 1], s - 1, posn, src, R!Sym)
<1> DEFINE N == NodeUpTo(Len(sequences))
           d == Len(visits)
           nodes == sequences[s]
           at == posn[s]
<1>1. d \in Nat \ {0} /\ G!Top = visits[d] /\ s \in 1 .. Len(sequences) /\ k \in Nat \ {0}
  BY TopVisit DEF ActiveVisit
<1>2. sequences \in Seq(Seq(N))
  BY DEF Inv, Tree
<1> HIDE DEF N
<1>3. nodes \in Seq(N)
  BY <1>1, <1>2, ElementOfSeq
<1>4. Lies(nodes, at, s - 1, posn, src, R!Sym)
  BY <1>1 DEF Whole, Placed
<1>5. k \in 1 .. Len(nodes) + 1 /\ at[k] = position + 1
  <2>1. d \in 1 .. d
    BY <1>1
  <2> QED
    BY <1>1, <2>1 DEF Follows, At
<1> HIDE DEF nodes, at, d
<1>6. /\ Len(nodes) \in Nat
      /\ \A j \in 1 .. Len(nodes) + 1 : at[j] \in 1 .. Len(src) + 1
      /\ Until(at) = at[Len(nodes) + 1]
  <2> DEFINE b == s - 1
  <2>1. Lies(nodes, at, b, posn, src, R!Sym)
    BY <1>4
  <2> HIDE DEF b
  <2>2. \A sym : Lies(nodes, at, b, posn, src, sym) =>
          /\ Len(nodes) \in Nat
          /\ \A j \in 1 .. Len(nodes) + 1 : at[j] \in 1 .. Len(src) + 1
          /\ Until(at) = at[Len(nodes) + 1]
    BY <1>3, LiesRising
  <2> QED
    BY <2>1, <2>2
<1>7. position \in 0 .. Len(src)
  <2>1. position + 1 \in 1 .. Len(src) + 1 /\ position \in Nat /\ Len(src) \in Nat
    BY <1>5, <1>6, LenProperties DEF Inv, Module
  <2> QED
    BY <2>1
<1>8. G!AtSequenceEnd <=> k > Len(nodes)
  BY DEF G!AtSequenceEnd, nodes
<1>9. ASSUME G!AtSequenceEnd PROVE Until(at) = position + 1
  <2>1. k = Len(nodes) + 1
    BY <1>5, <1>6, <1>8, <1>9
  <2> QED
    BY <1>5, <1>6, <2>1
<1>10. ASSUME ~G!AtSequenceEnd
       PROVE  /\ k + 1 \in 1 .. Len(nodes) + 1
              /\ at[k + 1] \in 1 .. Len(src) + 1
              /\ NodeAt(G!CurrentNode, position + 1, at[k + 1], s - 1, posn, src, R!Sym)
  <2>1. k \in 1 .. Len(nodes) /\ k + 1 \in 1 .. Len(nodes) + 1
    BY <1>1, <1>5, <1>6, <1>8, <1>10
  <2>2. G!CurrentNode = nodes[k]
    BY DEF G!CurrentNode, nodes
  <2>3. NodeAt(nodes[k], at[k], at[k + 1], s - 1, posn, src, R!Sym)
    BY <1>4, <2>1 DEF Lies
  <2> QED
    BY <1>5, <1>6, <2>1, <2>2, <2>3
<1> QED
  BY <1>1, <1>7, <1>9, <1>10 DEF nodes, at

(* What a leaf is translated to is what its symbol says.                   *)
LEMMA LeafSays ==
  ASSUME NEW op \in P!LeafOps, NEW src, NEW n \in 1 .. Len(src), src[n] = R!Sym[op],
         NEW i, i = G!Instruction(op, n), NEW bs, NEW b, NEW k
  PROVE  /\ Says(bs, src, b, k, i) /\ i.at = n
         /\ i.op \in {"add", "move", "call"}
         /\ i.op = "call" => i.callee \in G!Functions
<1>1. op \in R!LeafOps
  BY DEF P!LeafOps, R!LeafOps
<1>2. src[n] = R!Symbol(op)
  BY <1>1 DEF R!Sym
<1>3. \/ i.op = "add" /\ i.amount = 1 /\ src[n] = "+"
      \/ i.op = "add" /\ i.amount = -1 /\ src[n] = "-"
      \/ i.op = "move" /\ i.amount = -1 /\ src[n] = "<"
      \/ i.op = "move" /\ i.amount = 1 /\ src[n] = ">"
      \/ i.op = "call" /\ i.callee = "getchar" /\ src[n] = ","
      \/ i.op = "call" /\ i.callee = "putchar" /\ src[n] = "."
  <2>1. CASE op = "Inc" BY <1>2, <2>1 DEF G!Instruction, R!Symbol
  <2>2. CASE op = "Dec" BY <1>2, <2>2 DEF G!Instruction, R!Symbol
  <2>3. CASE op = "MoveLeft" BY <1>2, <2>3 DEF G!Instruction, R!Symbol
  <2>4. CASE op = "MoveRight" BY <1>2, <2>4 DEF G!Instruction, R!Symbol
  <2>5. CASE op = "Read" BY <1>2, <2>5 DEF G!Instruction, R!Symbol
  <2>6. CASE op = "Print" BY <1>2, <2>6 DEF G!Instruction, R!Symbol
  <2> QED
    BY <2>1, <2>2, <2>3, <2>4, <2>5, <2>6 DEF P!LeafOps
<1>4. i.at = n
  BY DEF G!Instruction, P!LeafOps
<1> DEFINE o == i.op
           x == src[n]
           a == i.amount
           f == i.callee
<1>5. \/ o = "add" /\ a = 1 /\ x = "+"
      \/ o = "add" /\ a = -1 /\ x = "-"
      \/ o = "move" /\ a = -1 /\ x = "<"
      \/ o = "move" /\ a = 1 /\ x = ">"
      \/ o = "call" /\ f = "getchar" /\ x = ","
      \/ o = "call" /\ f = "putchar" /\ x = "."
  BY <1>3
<1> HIDE DEF o, x, a, f
<1>6. /\ o = "add" => x = IF a = 1 THEN "+" ELSE "-"
      /\ o = "move" => x = IF a = 1 THEN ">" ELSE "<"
      /\ o = "call" => x = IF f = "getchar" THEN "," ELSE "."
      /\ o \in {"add", "move", "call"}
      /\ o = "call" => f \in {"getchar", "putchar"}
  <2>1. \/ o = "add" /\ a = 1 /\ x = "+"
        \/ o = "add" /\ a # 1 /\ x = "-"
        \/ o = "move" /\ a # 1 /\ x = "<"
        \/ o = "move" /\ a = 1 /\ x = ">"
        \/ o = "call" /\ f = "getchar" /\ x = ","
        \/ o = "call" /\ f = "putchar" /\ x = "."
    <3>1. -1 # 1
      OBVIOUS
    <3> QED
      BY <1>5, <3>1, Zenon
  <2>2. o = "add" => x = IF a = 1 THEN "+" ELSE "-"
    BY <2>1
  <2>3. o = "move" => x = IF a = 1 THEN ">" ELSE "<"
    BY <2>1
  <2>4. o = "call" => x = IF f = "getchar" THEN "," ELSE "."
    BY <2>1
  <2>5. o \in {"add", "move", "call"} /\ (o = "call" => f \in {"getchar", "putchar"})
    BY <2>1
  <2> QED
    BY <2>2, <2>3, <2>4, <2>5
<1>7. o \notin {"tapeBegin", "ret", "condbr", "br"}
  BY <1>6
<1>8. Says(bs, src, b, k, i)
  BY <1>4, <1>6, <1>7 DEF Says, o, x, a, f
<1> QED
  BY <1>4, <1>6, <1>8 DEF G!Functions, o, f

(* The place behind an instruction that has just been emitted.             *)
LEMMA PlaceBehind ==
  ASSUME Inv, NEW after, NEW i, Grows(after, i), NEW src
  PROVE  /\ Place(after, src, insert, Len(after[insert]) + 1) = After(i)
         /\ \A k \in DOMAIN after[insert] : k < Len(after[insert]) + 1
<1> DEFINE l == Len(blocks[insert])
           n == Len(after[insert])
<1>1. /\ l \in Nat /\ n = l + 1 /\ after[insert][l + 1] = i
      /\ DOMAIN after[insert] = 1 .. n
  <2>1. insert \in 1 .. Len(blocks)
    BY GrowsBounds
  <2> QED
    BY <2>1, OldOrNew
<1> HIDE DEF l, n
<1>2. n + 1 # 1 /\ (n + 1) - 1 = l + 1
  BY <1>1
<1>3. Place(after, src, insert, n + 1) = After(i)
  BY <1>1, <1>2 DEF Place
<1> QED
  BY <1>1, <1>3 DEF n

(* Brackets counted one symbol further.                                    *)
LEMMA OpeningsStep ==
  ASSUME NEW S, NEW src \in Seq(S), NEW n \in Nat, n + 1 <= Len(src), NEW m,
         m = 1 + 3 * Cardinality(Occurrences(src, n, "["))
  PROVE  /\ m \in Nat /\ m % 3 = 1
         /\ src[n + 1] = "[" => m + 3 = 1 + 3 * Cardinality(Occurrences(src, n + 1, "["))
         /\ src[n + 1] # "[" => m = 1 + 3 * Cardinality(Occurrences(src, n + 1, "["))
<1> DEFINE l == n + 1
           C(j) == Cardinality(Occurrences(src, j, "["))
<1>1. n \in 0 .. Len(src) /\ l \in 0 .. Len(src) /\ l > 0 /\ l - 1 = n
  BY LenProperties
<1>2. C(n) \in Nat
  BY <1>1, CountStep
<1> HIDE DEF l
<1>3. C(l) = C(l - 1) + (IF src[l] = "[" THEN 1 ELSE 0)
  BY <1>1, CountStep
<1> HIDE DEF C
<1>4. C(l) = C(n) + (IF src[l] = "[" THEN 1 ELSE 0) /\ m = 1 + 3 * C(n)
  BY <1>1, <1>3 DEF C
<1>5. (m \in Nat /\ m % 3 = 1)
  BY <1>2, <1>4
<1>6. src[l] = "[" => m + 3 = 1 + 3 * C(l)
  BY <1>2, <1>4
<1>7. src[l] # "[" => m = 1 + 3 * C(l)
  BY <1>2, <1>4
<1> QED
  BY <1>5, <1>6, <1>7 DEF C, l

(* While there are visits, there are blocks and a tree.                    *)
LEMMA Working ==
  ASSUME Inv, Parsed, Translation, visits # <<>>
  PROVE  /\ blocks # <<>> /\ ~generated /\ program # 0 /\ insert \in 1 .. Len(blocks)
         /\ DOMAIN blocks = 1 .. Len(blocks) /\ Len(blocks) \in Nat /\ position \in Nat
         /\ Source \in Seq(P!parsable_chars)
         /\ Code(blocks, Source)
         /\ Len(blocks) = 1 + 3 * Cardinality(Occurrences(Source, position, "["))
         /\ Entered(blocks, {visits[v].condition : v \in 2 .. Len(visits)})
         /\ position + 1 = Place(blocks, Source, insert, Len(blocks[insert]) + 1)
         /\ \E posn : /\ Whole(sequences, program, posn, Source, R!Sym)
                      /\ Follows(visits, blocks, position, posn, Source)
<1>1. blocks \in Seq(Seq(InstructionUpTo(Len(blocks)))) /\ insert \in DOMAIN blocks
  BY DEF Inv, Module, Waiting
<1>2. DOMAIN blocks = 1 .. Len(blocks) /\ Len(blocks) \in Nat
  BY <1>1, SeqTypes
<1>3. blocks # <<>>
  BY <1>1
<1>4. ~generated /\ program # 0 /\ position \in Nat
  BY <1>3 DEF Inv, Module
<1>5. Source \in Seq(P!parsable_chars)
  BY <1>4, TreeLies
<1> QED
  BY <1>1, <1>2, <1>3, <1>4, <1>5 DEF Translation

(* The loops around the innermost visit keep their blocks.                 *)
LEMMA LoopOfKept ==
  ASSUME Inv, NEW src, Code(blocks, src), NEW after, NEW i, Grows(after, i),
         visits # <<>>, NEW v \in 2 .. Len(visits), NEW posn,
         LoopOf(visits, blocks, posn, src, v),
         NEW vs, vs[v].seq = visits[v].seq, vs[v].condition = visits[v].condition,
         vs[v].end = visits[v].end
  PROVE  LoopOf(vs, after, posn, src, v)
<1> DEFINE c == visits[v].condition
<1>1. c \in 2 .. Len(blocks) /\ visits[v].end \in DOMAIN blocks /\ visits[v].end # insert
  BY DEF Inv, Module, Waiting
<1>2. c % 3 = 2 /\ visits[v].end = c + 2
  BY DEF LoopOf
<1>3. Len(blocks) \in Nat /\ DOMAIN blocks = 1 .. Len(blocks)
      /\ \A b \in 1 .. Len(blocks) : b # insert => after[b] = blocks[b]
  BY GrowsBounds
<1> HIDE DEF c
<1>4. c \in 1 .. Len(blocks) /\ c + 2 \in 1 .. Len(blocks) /\ c + 2 # insert
  BY <1>1, <1>2, <1>3
<1>5. after[c] = blocks[c]
  BY <1>2, <1>4, ConditionsKept
<1>6. after[c + 2] = blocks[c + 2]
  BY <1>3, <1>4
<1> QED
  BY <1>5, <1>6 DEF LoopOf, c

LEMMA LeafTranslates ==
  ASSUME Inv, Parsed, Translation, G!VisitLeaf, Source' = Source
  PROVE  Translation'
<1> DEFINE op == G!CurrentNode.op
           n == position + 1
           i == G!Instruction(op, n)
           d == Len(visits)
           s == G!Top.seq
           k == G!Top.next
           pending == {visits[v].condition : v \in 2 .. Len(visits)}
<1>1. /\ visits # <<>> /\ ~G!AtSequenceEnd /\ op # "Loop"
      /\ blocks' = G!Emit(i) /\ declared' = G!GetOrInsert(i)
      /\ visits' = G!ToNextNode /\ position' = n
      /\ UNCHANGED <<sequences, program, insert, generated>>
  BY DEF G!VisitLeaf, G!Visiting
<1>2. /\ ~generated /\ insert \in 1 .. Len(blocks) /\ Len(blocks) \in Nat /\ position \in Nat
      /\ Source \in Seq(P!parsable_chars)
      /\ Code(blocks, Source)
      /\ Len(blocks) = 1 + 3 * Cardinality(Occurrences(Source, position, "["))
      /\ Entered(blocks, pending)
      /\ n = Place(blocks, Source, insert, Len(blocks[insert]) + 1)
  BY <1>1, Working
<1>3. PICK posn : /\ Whole(sequences, program, posn, Source, R!Sym)
                  /\ Follows(visits, blocks, position, posn, Source)
  BY <1>1, Working
<1>4. /\ k + 1 \in 1 .. Len(sequences[s]) + 1
      /\ posn[s][k + 1] \in 1 .. Len(Source) + 1
      /\ NodeAt(G!CurrentNode, n, posn[s][k + 1], s - 1, posn, Source, R!Sym)
  BY <1>1, <1>2, <1>3, NextInText
<1>5. posn[s][k + 1] = n + 1 /\ Source[n] = R!Sym[op] /\ Source[n] # "["
  BY <1>1, <1>4 DEF NodeAt
<1>6. n \in 1 .. Len(Source) /\ n \in Nat /\ n <= Len(Source)
  <2>1. Len(Source) \in Nat
    BY <1>2, LenProperties
  <2> QED
    BY <1>2, <1>4, <1>5, <2>1
<1>7. op \in P!LeafOps
  <2>1. G!CurrentNode \in NodeUpTo(Len(sequences))
    BY <1>1, TopVisit
  <2> QED
    BY <1>1, <2>1 DEF NodeUpTo
<1>8. i \in InstructionUpTo(Len(blocks))
  BY <1>6, <1>7, LeafInstruction
<1> HIDE DEF op, n
<1>9. /\ i.at = n /\ i.op \in {"add", "move", "call"}
      /\ i.op = "call" => i.callee \in G!Functions
      /\ \A bs, b, j : Says(bs, Source, b, j, i)
  BY <1>5, <1>6, <1>7, LeafSays
<1> HIDE DEF i
<1>10. Grows(blocks', i) /\ Len(blocks') = Len(blocks)
  BY <1>1, <1>2, <1>8, EmitGrows
<1>11. Len(blocks) % 3 = 1 /\ Len(blocks') = 1 + 3 * Cardinality(Occurrences(Source, n, "["))
  BY <1>2, <1>5, <1>6, <1>10, OpeningsStep DEF n
<1>12. Code(blocks', Source)
  <2>1. Adds(blocks', i.at)
    BY <1>10 DEF Adds
  <2> QED
    BY <1>2, <1>9, <1>10, <1>11, <2>1, CodeGrows
<1>13. /\ d \in Nat \ {0} /\ Len(visits') = d
       /\ \A v \in 1 .. d - 1 : visits'[v] = visits[v]
       /\ visits'[d].seq = visits[d].seq /\ visits'[d].next = visits[d].next + 1
       /\ \A v \in 1 .. d : /\ visits'[v].condition = visits[v].condition
                            /\ visits'[v].end = visits[v].end
  BY <1>1, NextNode
<1>14. \A v \in 2 .. d : v \in 1 .. d /\ v - 1 \in 1 .. d - 1
  BY <1>13
<1>15. s = visits[d].seq /\ k = visits[d].next
  BY <1>1, TopVisit
<1>16. Entered(blocks', {visits'[v].condition : v \in 2 .. Len(visits')})
  <2>1. Entered(blocks', pending)
    BY <1>2, <1>9, <1>10, EnteredLeaf
  <2>2. {visits'[v].condition : v \in 2 .. Len(visits')} = pending
    BY <1>13, <1>14
  <2> QED
    BY <2>1, <2>2
<1>17. declared' = Called(blocks')
  <2>1. Len(blocks') = Len(blocks) /\ Len(blocks) \in Nat
    BY <1>2, <1>10
  <2>2. \A b \in Len(blocks) + 1 .. Len(blocks') :
           \A j \in DOMAIN blocks'[b] : blocks'[b][j].op # "call"
    BY <2>1
  <2>3. /\ i.op = "call" => Called(blocks') = Called(blocks) \cup {i.callee}
        /\ i.op # "call" => Called(blocks') = Called(blocks)
    BY <1>9, <1>10, <2>2, CalledGrows
  <2> QED
    BY <1>1, <2>3 DEF G!GetOrInsert, Translation
<1>18. n + 1 = Place(blocks', Source, insert, Len(blocks'[insert]) + 1)
  <2>1. Place(blocks', Source, insert, Len(blocks'[insert]) + 1) = After(i)
    BY <1>10, PlaceBehind
  <2> QED
    BY <1>9, <2>1 DEF After
<1>19. Follows(visits', blocks', n, posn, Source)
  <2>1. visits'[1].seq = program
    <3>1. visits'[1].seq = visits[1].seq
      <4>1. 1 = d \/ 1 \in 1 .. d - 1
        BY <1>13
      <4> QED
        BY <1>13, <4>1
    <3> QED
      BY <1>3, <3>1 DEF Follows
  <2>2. \A v \in 1 .. d : visits'[v].next \in 1 .. Len(sequences[visits'[v].seq]) + 1
    <3>1. \A v \in 1 .. d : v = d \/ v \in 1 .. d - 1
      BY <1>13
    <3>2. \A v \in 1 .. d - 1 : visits'[v].next \in 1 .. Len(sequences[visits'[v].seq]) + 1
      <4>1. \A v \in 1 .. d - 1 : v \in 1 .. d
        BY <1>13
      <4> QED
        BY <1>3, <1>13, <4>1 DEF Follows
    <3> QED
      BY <1>4, <1>13, <1>15, <3>1, <3>2
  <2>3. At(visits', posn, d) = n + 1
    BY <1>5, <1>13, <1>15 DEF At
  <2>4. \A v \in 2 .. d : visits'[v].seq = visits[v].seq
    <3>1. \A v \in 2 .. d : v = d \/ v \in 1 .. d - 1
      BY <1>13
    <3> QED
      BY <1>13, <3>1
  <2>5. ASSUME NEW v \in 2 .. d
        PROVE  /\ At(visits', posn, v - 1) = Until(posn[visits'[v].seq]) + 1
               /\ LoopOf(visits', blocks', posn, Source, v)
    <3>1. /\ At(visits, posn, v - 1) = Until(posn[visits[v].seq]) + 1
          /\ LoopOf(visits, blocks, posn, Source, v)
      BY <1>3, <2>5 DEF Follows
    <3>2. At(visits', posn, v - 1) = At(visits, posn, v - 1)
      BY <1>13, <1>14, <2>5 DEF At
    <3>3. /\ visits'[v].seq = visits[v].seq
          /\ visits'[v].condition = visits[v].condition
          /\ visits'[v].end = visits[v].end
      BY <1>13, <1>14, <2>4, <2>5
    <3> DEFINE vs == visits'
               bs == blocks'
    <3>4. Grows(bs, i) /\ vs[v].seq = visits[v].seq
          /\ vs[v].condition = visits[v].condition /\ vs[v].end = visits[v].end
      BY <1>10, <3>3
    <3> HIDE DEF vs, bs
    <3>5. LoopOf(vs, bs, posn, Source, v)
      BY <1>1, <1>2, <3>1, <3>4, LoopOfKept
    <3> QED
      BY <3>1, <3>2, <3>3, <3>5 DEF vs, bs
  <2> QED
    BY <1>13, <2>1, <2>2, <2>3, <2>5 DEF Follows
<1>20. blocks' # <<>>
  BY <1>10, <1>2
<1> HIDE DEF pending, d, s, k
<1>21. (\E x : /\ Whole(sequences, program, x, Source, R!Sym)
               /\ Follows(visits, blocks, position, x, Source))'
  <2>1. Whole(sequences', program', posn, Source', R!Sym)
    BY <1>1, <1>3
  <2>2. Follows(visits, blocks, position, posn, Source)'
    BY <1>1, <1>19 DEF Follows
  <2> QED
    BY <2>1, <2>2
<1> QED
  BY <1>1, <1>2, <1>11, <1>12, <1>16, <1>17, <1>18, <1>20, <1>21 DEF Translation

LEMMA EndNumber ==
  ASSUME NEW c \in Nat, c % 3 = 2
  PROVE  (c + 2) % 3 = 1 /\ c + 2 # 1 /\ (c + 2) - 2 = c
  OBVIOUS

LEMMA FinishLoopTranslates ==
  ASSUME Inv, Parsed, Translation, G!FinishLoop, Source' = Source
  PROVE  Translation'
<1> DEFINE n == position + 1
           d == Len(visits)
           c == visits[d].condition
           i == [op |-> "br", to |-> c, at |-> n]
           s == G!Top.seq
           k == G!Top.next
           pending == {visits[v].condition : v \in 2 .. Len(visits)}
           left == pending \ {c}
<1>1. /\ visits # <<>> /\ G!AtSequenceEnd /\ d > 1
      /\ blocks' = G!Emit(i) /\ insert' = visits[d].end
      /\ visits' = Front(visits) /\ position' = n
      /\ UNCHANGED <<sequences, program, declared, generated>>
  <2>1. /\ visits # <<>> /\ G!AtSequenceEnd /\ d > 1
        /\ blocks' = G!Emit([op |-> "br", to |-> G!Top.condition, at |-> n])
        /\ insert' = G!Top.end
        /\ visits' = Front(visits) /\ position' = n
        /\ UNCHANGED <<sequences, program, declared, generated>>
    BY DEF G!FinishLoop, G!Visiting, G!BackEdge, G!AfterLoop, G!Front, Front
  <2>2. G!Top = visits[d]
    BY <2>1, TopVisit
  <2> QED
    BY <2>1, <2>2
<1>2. /\ ~generated /\ insert \in 1 .. Len(blocks) /\ Len(blocks) \in Nat /\ position \in Nat
      /\ Source \in Seq(P!parsable_chars)
      /\ Code(blocks, Source)
      /\ Len(blocks) = 1 + 3 * Cardinality(Occurrences(Source, position, "["))
      /\ Entered(blocks, pending)
      /\ n = Place(blocks, Source, insert, Len(blocks[insert]) + 1)
      /\ DOMAIN blocks = 1 .. Len(blocks)
  BY <1>1, Working
<1>3. PICK posn : /\ Whole(sequences, program, posn, Source, R!Sym)
                  /\ Follows(visits, blocks, position, posn, Source)
  BY <1>1, Working
<1>4. d \in Nat /\ d \in 2 .. d /\ G!Top = visits[d] /\ s = visits[d].seq
  <2>1. d \in Nat /\ G!Top = visits[d]
    BY <1>1, TopVisit
  <2> QED
    BY <1>1, <2>1
<1>5. Until(posn[s]) = n
  BY <1>1, <1>2, <1>3, NextInText
<1>6. /\ At(visits, posn, d - 1) = n + 1
      /\ LoopOf(visits, blocks, posn, Source, d)
  BY <1>3, <1>4, <1>5 DEF Follows
<1>7. /\ c % 3 = 2 /\ visits[d].end = c + 2 /\ blocks[c + 2] = <<>>
      /\ Source[n] = "]" /\ Source[blocks[c][1].at] = "["
      /\ Matching(Source, blocks[c][1].at) = n /\ Matching(Source, n) = blocks[c][1].at
  BY <1>4, <1>5, <1>6 DEF LoopOf
<1>8. /\ c \in 2 .. Len(blocks) /\ c + 2 \in DOMAIN blocks /\ c + 2 # insert
      /\ c \in DOMAIN blocks
  <2>1. c \in 2 .. Len(blocks) /\ visits[d].end \in DOMAIN blocks /\ visits[d].end # insert
    BY <1>1, <1>4 DEF Inv, Module, Waiting
  <2>2. c \in DOMAIN blocks
    BY <1>2, <2>1
  <2> QED
    BY <1>7, <2>1, <2>2
<1>9. /\ n \in 1 .. Len(Source) /\ n \in Nat /\ n <= Len(Source)
      /\ n + 1 \in 1 .. Len(Source) + 1
  <2>1. position \in 0 .. Len(Source) /\ s \in 1 .. Len(sequences)
    BY <1>1, <1>2, <1>3, NextInText
  <2> DEFINE e == visits[d - 1].seq
             f == visits[d - 1].next
  <2>2. e \in 1 .. Len(sequences) /\ f \in 1 .. Len(sequences[e]) + 1 /\ posn[e][f] = n + 1
    <3>1. d - 1 \in 1 .. d
      BY <1>4
    <3>2. visits[d - 1] \in ActiveVisit
      BY <3>1, ElementOfSeq DEF Inv, Module
    <3> QED
      BY <1>3, <1>6, <3>1, <3>2 DEF ActiveVisit, Follows, At
  <2> HIDE DEF e, f
  <2>3. Lies(sequences[e], posn[e], e - 1, posn, Source, R!Sym)
    BY <1>3, <2>2 DEF Whole, Placed
  <2>4. posn[e] \in Seq(1 .. Len(Source) + 1) /\ Len(posn[e]) = Len(sequences[e]) + 1
    BY <2>3 DEF Lies
  <2>5. posn[e][f] \in 1 .. Len(Source) + 1
    BY <2>2, <2>4, ElementOfSeq
  <2>6. Len(Source) \in Nat
    BY <1>2, LenProperties
  <2> QED
    BY <1>2, <2>1, <2>2, <2>5, <2>6
<1>10. i \in InstructionUpTo(Len(blocks)) /\ i.op = "br" /\ i.to = c /\ i.at = n
  BY <1>8, <1>9 DEF InstructionUpTo
<1> HIDE DEF i, n, c
<1>11. Grows(blocks', i) /\ Len(blocks') = Len(blocks) /\ DOMAIN blocks' = DOMAIN blocks
  <2>1. Grows(blocks', i) /\ Len(blocks') = Len(blocks)
    BY <1>1, <1>2, <1>10, EmitGrows
  <2>2. DOMAIN blocks' = 1 .. Len(blocks')
    <3> DEFINE after == blocks'
    <3>1. Grows(after, i)
      BY <2>1
    <3> HIDE DEF after
    <3>2. DOMAIN after = 1 .. Len(after)
      BY <3>1, GrowsBounds
    <3> QED
      BY <3>2 DEF after
  <2> QED
    BY <1>2, <2>1, <2>2
<1>12. Len(blocks) % 3 = 1 /\ Len(blocks') = 1 + 3 * Cardinality(Occurrences(Source, n, "["))
  BY <1>2, <1>7, <1>9, <1>11, OpeningsStep DEF n
<1>13. blocks'[c] = blocks[c] /\ blocks'[c + 2] = blocks[c + 2]
  <2>1. c \in 1 .. Len(blocks)
    BY <1>2, <1>8
  <2>2. blocks'[c] = blocks[c]
    BY <1>2, <1>7, <1>11, <2>1, ConditionsKept
  <2>3. blocks'[c + 2] = blocks[c + 2]
    BY <1>2, <1>8, <1>11 DEF Grows
  <2> QED
    BY <2>2, <2>3
<1>14. Code(blocks', Source)
  <2>1. Adds(blocks', i.at)
    BY <1>11 DEF Adds
  <2>2. Says(blocks', Source, insert, Len(blocks[insert]) + 1, i)
    BY <1>7, <1>8, <1>9, <1>10, <1>11, <1>13 DEF Says
  <2> QED
    BY <1>2, <1>10, <1>11, <1>12, <2>1, <2>2, CodeGrows
<1>15. /\ Len(visits') = d - 1
       /\ \A v \in 1 .. d - 1 : visits'[v] = visits[v]
  BY <1>1, FrontType DEF Inv, Module
<1>16. \A v \in 2 .. d - 1 : v \in 2 .. d /\ v \in 1 .. d - 1 /\ v - 1 \in 1 .. d - 1 /\ v # d
  BY <1>4
<1>17. Entered(blocks', {visits'[v].condition : v \in 2 .. Len(visits')})
  <2>1. c \in pending
    BY <1>4 DEF c
  <2>2. Entered(blocks', left)
    BY <1>2, <1>10, <1>11, <2>1, EnteredBack
  <2>3. {visits'[v].condition : v \in 2 .. Len(visits')} = left
    <3>1. \A v \in 2 .. d - 1 : visits[v].condition # c
      <4> SUFFICES ASSUME NEW v \in 2 .. d - 1, visits[v].condition = c PROVE FALSE
        OBVIOUS
      <4>1. v \in 2 .. d /\ v # d
        BY <1>16
      <4>2. visits[v].end = c + 2
        BY <1>3, <4>1 DEF Follows, LoopOf
      <4> QED
        BY <1>1, <1>4, <1>7, <4>1, <4>2 DEF Inv, Module, Waiting
    <3>2. \A v \in 2 .. d : v = d \/ v \in 2 .. d - 1
      BY <1>4
    <3>3. \A v \in 2 .. d - 1 : visits'[v] = visits[v]
      BY <1>15, <1>16
    <3>4. ASSUME NEW x \in {visits'[v].condition : v \in 2 .. d - 1} PROVE x \in left
      <4>1. PICK v \in 2 .. d - 1 : x = visits'[v].condition
        OBVIOUS
      <4>2. v \in 2 .. d /\ x = visits[v].condition /\ x # c
        BY <1>16, <3>1, <3>3, <4>1
      <4> QED
        BY <4>2
    <3>5. ASSUME NEW x \in left PROVE x \in {visits'[v].condition : v \in 2 .. d - 1}
      <4>1. PICK v \in 2 .. d : x = visits[v].condition
        OBVIOUS
      <4>2. v \in 2 .. d - 1
        BY <3>2, <4>1 DEF c
      <4> QED
        BY <3>3, <4>1, <4>2
    <3> HIDE DEF left, d
    <3>6. {visits'[v].condition : v \in 2 .. d - 1} = left
      BY <3>4, <3>5
    <3> QED
      BY <1>15, <3>6
  <2> QED
    BY <2>2, <2>3
<1>18. declared' = Called(blocks')
  <2>1. Len(blocks') = Len(blocks) /\ Len(blocks) \in Nat
    BY <1>2, <1>11
  <2>2. \A b \in Len(blocks) + 1 .. Len(blocks') :
           \A j \in DOMAIN blocks'[b] : blocks'[b][j].op # "call"
    BY <2>1
  <2>3. Called(blocks') = Called(blocks)
    BY <1>10, <1>11, <2>2, CalledGrows
  <2> QED
    BY <1>1, <2>3 DEF Translation
<1>19. insert' = c + 2 /\ blocks'[insert'] = <<>>
  BY <1>1, <1>7, <1>13
<1>20. n + 1 = Place(blocks', Source, insert', Len(blocks'[insert']) + 1)
  <2>1. Len(blocks'[insert']) + 1 = 1
    BY <1>19
  <2>2. (c + 2) % 3 = 1 /\ c + 2 # 1 /\ (c + 2) - 2 = c
    <3>1. c \in Nat /\ c % 3 = 2
      BY <1>2, <1>7, <1>8
    <3> QED
      BY <3>1, EndNumber
  <2>3. Due(blocks', Source, c + 2) = Matching(Source, blocks'[c][1].at) + 1
    BY <2>2 DEF Due
  <2> QED
    BY <1>7, <1>13, <1>19, <2>1, <2>3 DEF Place
<1>21. Follows(visits', blocks', n, posn, Source)
  <2>1. visits'[1].seq = program
    <3>1. 1 \in 1 .. d - 1
      BY <1>4
    <3> QED
      BY <1>3, <1>15, <3>1 DEF Follows
  <2>2. \A v \in 1 .. d - 1 : visits'[v].next \in 1 .. Len(sequences[visits'[v].seq]) + 1
    <3>1. \A v \in 1 .. d - 1 : v \in 1 .. d
      BY <1>4
    <3> QED
      BY <1>3, <1>15, <3>1 DEF Follows
  <2>3. At(visits', posn, d - 1) = n + 1
    <3>1. d - 1 \in 1 .. d - 1
      BY <1>4
    <3> QED
      BY <1>6, <1>15, <3>1 DEF At
  <2>4. ASSUME NEW v \in 2 .. d - 1
        PROVE  /\ At(visits', posn, v - 1) = Until(posn[visits'[v].seq]) + 1
               /\ LoopOf(visits', blocks', posn, Source, v)
    <3>1. v \in 2 .. d /\ visits'[v] = visits[v] /\ visits'[v - 1] = visits[v - 1]
      BY <1>15, <1>16
    <3>2. /\ At(visits, posn, v - 1) = Until(posn[visits[v].seq]) + 1
          /\ LoopOf(visits, blocks, posn, Source, v)
      BY <1>3, <3>1 DEF Follows
    <3> DEFINE vs == visits'
               bs == blocks'
    <3>3. Grows(bs, i) /\ vs[v].seq = visits[v].seq
          /\ vs[v].condition = visits[v].condition /\ vs[v].end = visits[v].end
      BY <1>11, <3>1
    <3> HIDE DEF vs, bs
    <3>4. LoopOf(vs, bs, posn, Source, v)
      BY <1>1, <1>2, <3>1, <3>2, <3>3, LoopOfKept
    <3> QED
      BY <3>1, <3>2, <3>4 DEF vs, bs, At
  <2> QED
    BY <1>15, <2>1, <2>2, <2>3, <2>4 DEF Follows
<1>22. blocks' # <<>>
  BY <1>11, <1>2
<1> HIDE DEF pending, d, s, k
<1>23. (\E x : /\ Whole(sequences, program, x, Source, R!Sym)
               /\ Follows(visits, blocks, position, x, Source))'
  <2>1. Whole(sequences', program', posn, Source', R!Sym)
    BY <1>1, <1>3
  <2>2. Follows(visits, blocks, position, posn, Source)'
    BY <1>1, <1>21 DEF Follows
  <2> QED
    BY <2>1, <2>2
<1> QED
  BY <1>1, <1>2, <1>12, <1>14, <1>17, <1>18, <1>20, <1>22, <1>23 DEF Translation

LEMMA FinishProgramTranslates ==
  ASSUME Inv, Parsed, Translation, G!FinishProgram, Source' = Source
  PROVE  Translation'
<1> DEFINE n == position + 1
           i == [op |-> "ret", value |-> 0, at |-> n]
           s == G!Top.seq
           pending == {visits[v].condition : v \in 2 .. Len(visits)}
<1>1. /\ visits # <<>> /\ G!AtSequenceEnd /\ Len(visits) = 1
      /\ blocks' = G!Emit(i) /\ visits' = <<>>
      /\ UNCHANGED <<sequences, program, insert, declared, position>>
  BY DEF G!FinishProgram, G!Visiting
<1>2. /\ insert \in 1 .. Len(blocks) /\ Len(blocks) \in Nat /\ position \in Nat
      /\ Source \in Seq(P!parsable_chars)
      /\ Code(blocks, Source)
      /\ Len(blocks) = 1 + 3 * Cardinality(Occurrences(Source, position, "["))
      /\ Entered(blocks, pending)
      /\ n = Place(blocks, Source, insert, Len(blocks[insert]) + 1)
  BY <1>1, Working
<1>3. PICK posn : /\ Whole(sequences, program, posn, Source, R!Sym)
                  /\ Follows(visits, blocks, position, posn, Source)
  BY <1>1, Working
<1>4. Until(posn[s]) = n
  BY <1>1, <1>2, <1>3, NextInText
<1>5. s = program
  <2>1. G!Top = visits[1]
    BY <1>1, TopVisit
  <2> QED
    BY <1>3, <2>1 DEF Follows
<1>6. n = Len(Source) + 1 /\ Len(Source) \in Nat
  BY <1>2, <1>3, <1>4, <1>5, LenProperties DEF Whole
<1>7. position = Len(Source)
  BY <1>2, <1>6
<1>8. i \in InstructionUpTo(Len(blocks)) /\ i.op = "ret" /\ i.at = n
  BY <1>6 DEF InstructionUpTo
<1> HIDE DEF i, n
<1>9. Grows(blocks', i) /\ Len(blocks') = Len(blocks)
  BY <1>1, <1>2, <1>8, EmitGrows
<1>10. Len(blocks) % 3 = 1
  <2> DEFINE o == Cardinality(Occurrences(Source, position, "["))
  <2>1. o \in Nat
    <3>1. position \in 0 .. Len(Source)
      BY <1>6, <1>7
    <3> QED
      BY <1>2, <3>1, CountStep
  <2> HIDE DEF o
  <2>2. Len(blocks) = 1 + 3 * o
    BY <1>2 DEF o
  <2> QED
    BY <2>1, <2>2
<1>11. Code(blocks', Source)
  <2>1. Adds(blocks', i.at)
    BY <1>9 DEF Adds
  <2>2. Says(blocks', Source, insert, Len(blocks[insert]) + 1, i)
    BY <1>6, <1>8 DEF Says
  <2> QED
    BY <1>2, <1>8, <1>9, <1>10, <2>1, <2>2, CodeGrows
<1>12. Entered(blocks', {visits'[v].condition : v \in 2 .. Len(visits')})
  <2>1. Entered(blocks', pending)
    BY <1>2, <1>8, <1>9, EnteredLeaf
  <2>2. {visits'[v].condition : v \in 2 .. Len(visits')} = {} /\ pending = {}
    BY <1>1
  <2> QED
    BY <2>1, <2>2
<1>13. declared' = Called(blocks')
  <2>1. Len(blocks') = Len(blocks) /\ Len(blocks) \in Nat
    BY <1>2, <1>9
  <2>2. \A b \in Len(blocks) + 1 .. Len(blocks') :
           \A j \in DOMAIN blocks'[b] : blocks'[b][j].op # "call"
    BY <2>1
  <2>3. Called(blocks') = Called(blocks)
    BY <1>8, <1>9, <2>2, CalledGrows
  <2> QED
    BY <1>1, <2>3 DEF Translation
<1>14. blocks' # <<>>
  BY <1>2, <1>9
<1> HIDE DEF pending, s
<1> QED
  BY <1>1, <1>2, <1>7, <1>9, <1>11, <1>12, <1>13, <1>14 DEF Translation

(* The blocks of a loop, behind those there are. *)
Branch(to, n) == [op |-> "br", to |-> to, at |-> n]
Test(m, n) == [op |-> "condbr", then |-> m + 2, else |-> m + 3, at |-> n]
WithLoop(m, n) == G!Emit(Branch(m + 1, n)) \o << <<Test(m, n)>>, <<>>, <<>> >>

LEMMA LoopGrows ==
  ASSUME Inv, visits # <<>>, NEW n \in Nat, NEW m, m = Len(blocks),
         NEW after, after = WithLoop(m, n)
  PROVE  Grows(after, Branch(m + 1, n)) /\ Adds(after, n) /\ Len(after) = m + 3
<1>1. /\ m \in Nat /\ m > 0
  <2>1. blocks \in Seq(Seq(InstructionUpTo(Len(blocks)))) /\ insert \in DOMAIN blocks
    BY DEF Inv, Module, Waiting
  <2>2. DOMAIN blocks = 1 .. m /\ m \in Nat
    BY <2>1, SeqTypes
  <2> QED
    BY <2>1, <2>2
<1> DEFINE z == m + 3
           i == Branch(m + 1, n)
           test == Test(m, n)
           S == InstructionUpTo(z)
           emitted == G!Emit(i)
<1>2. z \in Nat /\ Len(blocks) <= z /\ i \in S /\ test \in S
  BY <1>1 DEF InstructionUpTo, Branch, Test
<1> HIDE DEF z, i
<1>3. Grows(emitted, i) /\ Len(emitted) = m /\ emitted \in Seq(Seq(S))
  BY <1>2, EmitGrows
<1> HIDE DEF emitted, S
<1> DEFINE x == <<test>>
           e == <<>>
           T == Seq(S)
<1>4. emitted \in Seq(T) /\ x \in T /\ e \in T
  BY <1>2, <1>3
<1>5. x = <<test>> /\ e = <<>> /\ after = emitted \o <<x, e, e>>
  BY DEF emitted, i, WithLoop
<1> HIDE DEF x, e, T
<1>6. /\ emitted \o <<x, e, e>> \in Seq(T)
      /\ Len(emitted \o <<x, e, e>>) = Len(emitted) + 3
      /\ \A k \in 1 .. Len(emitted) : (emitted \o <<x, e, e>>)[k] = emitted[k]
      /\ (emitted \o <<x, e, e>>)[Len(emitted) + 1] = x
      /\ (emitted \o <<x, e, e>>)[Len(emitted) + 2] = e
      /\ (emitted \o <<x, e, e>>)[Len(emitted) + 3] = e
  BY <1>4, ThreeMore
<1>7. /\ after \in Seq(T) /\ Len(after) = m + 3
      /\ \A k \in 1 .. m : after[k] = emitted[k]
      /\ after[m + 1] = x /\ after[m + 2] = e /\ after[m + 3] = e
  BY <1>3, <1>5, <1>6
<1>8. DOMAIN after = 1 .. Len(after) /\ Len(after) \in Nat
  BY <1>7, SeqTypes
<1>9. m <= m + 3
  BY <1>1
<1>10. Grows(after, i)
  BY <1>3, <1>7, <1>8, <1>9 DEF Grows
<1>11. Adds(after, n)
  BY <1>5, <1>7 DEF Adds, Test
<1> QED
  BY <1>7, <1>10, <1>11 DEF i

LEMMA VisitLoopTranslates ==
  ASSUME Inv, Parsed, Translation, G!VisitLoop, Source' = Source
  PROVE  Translation'
<1> DEFINE n == position + 1
           d == Len(visits)
           m == Len(blocks)
           c == m + 1
           i == [op |-> "br", to |-> m + 1, at |-> n]
           test == [op |-> "condbr", then |-> m + 2, else |-> m + 3, at |-> n]
           s == G!Top.seq
           k == G!Top.next
           inner == G!CurrentNode.inner
           pending == {visits[v].condition : v \in 2 .. Len(visits)}
           more == pending \cup {c}
<1>1. /\ visits # <<>> /\ ~G!AtSequenceEnd /\ G!CurrentNode.op = "Loop"
      /\ blocks' = G!Emit(i) \o << <<test>>, <<>>, <<>> >>
      /\ insert' = m + 2 /\ visits' = Append(G!ToNextNode, G!Visit(inner, m + 1, m + 3))
      /\ position' = n
      /\ UNCHANGED <<sequences, program, declared, generated>>
  BY DEF G!VisitLoop, G!Visiting
<1>2. /\ ~generated /\ insert \in 1 .. Len(blocks) /\ m \in Nat /\ position \in Nat
      /\ Source \in Seq(P!parsable_chars)
      /\ Code(blocks, Source)
      /\ m = 1 + 3 * Cardinality(Occurrences(Source, position, "["))
      /\ Entered(blocks, pending)
      /\ n = Place(blocks, Source, insert, Len(blocks[insert]) + 1)
      /\ DOMAIN blocks = 1 .. m
  BY <1>1, Working
<1>3. PICK posn : /\ Whole(sequences, program, posn, Source, R!Sym)
                  /\ Follows(visits, blocks, position, posn, Source)
  BY <1>1, Working
<1> DEFINE q == posn[s][k + 1]
           r == q - 1
<1>4. /\ s \in 1 .. Len(sequences)
      /\ k + 1 \in 1 .. Len(sequences[s]) + 1
      /\ q \in 1 .. Len(Source) + 1
      /\ NodeAt(G!CurrentNode, n, q, s - 1, posn, Source, R!Sym)
  BY <1>1, <1>2, <1>3, NextInText
<1>5. /\ inner \in 1 .. s - 1
      /\ posn[inner][1] = n + 1 /\ Until(posn[inner]) = r
      /\ n + 1 <= r /\ Source[n] = "[" /\ Source[r] = "]"
  BY <1>1, <1>4 DEF NodeAt
<1>6. n \in 1 .. Len(Source) /\ n \in 1 .. Len(Source) + 1 /\ n \in Nat /\ n <= Len(Source)
      /\ r + 1 = q
  <2>1. Len(Source) \in Nat
    BY <1>2, LenProperties
  <2>2. q \in 1 .. Len(Source) + 1 /\ n + 1 <= r /\ r = q - 1 /\ n \in Nat /\ n >= 1
    BY <1>2, <1>4, <1>5
  <2> HIDE DEF q, n, r
  <2>3. q \in Int /\ r \in Int
    BY <2>1, <2>2
  <2> QED
    BY <2>1, <2>2, <2>3
<1> HIDE DEF n, q, r
<1>7. Matching(Source, n) = r /\ Matching(Source, r) = n
  <2> DEFINE b == s - 1
             node == G!CurrentNode
             N == NodeUpTo(Len(sequences))
  <2>1. AllFlat(posn, Len(sequences), Source)
    <3>1. sequences \in Seq(Seq(N)) /\ Placed(sequences, posn, Source, R!Sym)
      BY <1>3 DEF Inv, Tree, Whole
    <3> HIDE DEF N
    <3> QED
      BY <1>2, <3>1, FlatSequences
  <2>2. AllFlat(posn, b, Source)
    <3>1. \A x \in 1 .. b : x \in 1 .. Len(sequences)
      <4>1. Len(sequences) \in Nat
        BY LenProperties DEF Inv, Tree
      <4> QED
        BY <1>4, <4>1
    <3> QED
      BY <2>1, <3>1 DEF AllFlat
  <2>3. NodeAt(node, n, q, b, posn, Source, R!Sym) /\ node.op = "Loop"
    BY <1>1, <1>4
  <2> HIDE DEF b, node
  <2>4. \A sym : /\ NodeAt(node, n, q, b, posn, Source, sym) /\ AllFlat(posn, b, Source)
                 /\ node.op = "Loop"
                 => Matching(Source, n) = q - 1 /\ Matching(Source, q - 1) = n
    BY <1>2, <1>4, <1>6, FlatNode
  <2> QED
    BY <2>2, <2>3, <2>4 DEF r
<1>8. i.op = "br" /\ i.to = c /\ i.at = n
  OBVIOUS
<1>9. Grows(blocks', i) /\ Adds(blocks', n) /\ Len(blocks') = m + 3
  <2> DEFINE after == blocks'
  <2>1. after = WithLoop(m, n) /\ m = Len(blocks)
    BY <1>1 DEF WithLoop, Branch, Test
  <2> HIDE DEF after, m
  <2>2. Grows(after, Branch(m + 1, n)) /\ Adds(after, n) /\ Len(after) = m + 3
    BY <1>1, <1>6, <2>1, LoopGrows
  <2> QED
    BY <2>2 DEF after, Branch
<1>10. m % 3 = 1 /\ Len(blocks') = 1 + 3 * Cardinality(Occurrences(Source, n, "["))
  <2>1. m = 1 + 3 * Cardinality(Occurrences(Source, position, "[")) /\ n = position + 1
    BY <1>2 DEF n
  <2> HIDE DEF m
  <2>2. m % 3 = 1 /\ m + 3 = 1 + 3 * Cardinality(Occurrences(Source, n, "["))
    BY <1>2, <1>5, <1>6, <2>1, OpeningsStep DEF n
  <2> QED
    BY <1>9, <2>2
<1>11. Numbered(blocks', n, m)
  <2> DEFINE after == blocks'
  <2>1. Grows(after, i) /\ Adds(after, n) /\ m = Len(blocks) /\ Len(blocks) % 3 = 1
    BY <1>9, <1>10
  <2> HIDE DEF after, i, m
  <2>2. Numbered(after, n, m)
    BY <2>1, AddsWhere
  <2> QED
    BY <2>2 DEF after
<1>12. /\ m + 1 \in DOMAIN blocks' /\ (m + 1) % 3 = 2 /\ (m + 2) % 3 = 0 /\ m + 2 # 1
       /\ blocks'[m + 1] = <<test>> /\ blocks'[m + 2] = <<>> /\ blocks'[m + 3] = <<>>
       /\ (m + 1) + 2 = m + 3 /\ (m + 2) - 1 = m + 1
  <2> DEFINE after == blocks'
  <2>1. Numbered(after, n, m) /\ Len(after) = m + 3
    BY <1>9, <1>11
  <2> HIDE DEF after, m
  <2>2. /\ m + 1 \in DOMAIN after /\ (m + 1) % 3 = 2 /\ (m + 2) % 3 = 0
        /\ after[m + 1] = <<test>> /\ after[m + 2] = <<>> /\ after[m + 3] = <<>>
        /\ (m + 1) + 2 = m + 3
    BY <2>1 DEF Numbered
  <2>3. m + 2 # 1 /\ (m + 2) - 1 = m + 1
    BY <1>2
  <2> QED
    BY <2>2, <2>3 DEF after
<1>13. blocks'[m + 1][1].at = n
  BY <1>12
<1> HIDE DEF i, test
<1>14. Code(blocks', Source)
  <2>1. Says(blocks', Source, insert, Len(blocks[insert]) + 1, i)
    <3> DEFINE after == blocks'
    <3>1. i.op = "br" /\ i.to \in DOMAIN after /\ i.to % 3 = 2 /\ i.at = n
          /\ after[i.to][1].at = i.at /\ Source[i.at] = "[" /\ i.at \in 1 .. Len(Source)
      BY <1>5, <1>6, <1>8, <1>12, <1>13
    <3> HIDE DEF after
    <3>2. Says(after, Source, insert, Len(blocks[insert]) + 1, i)
      BY <3>1 DEF Says
    <3> QED
      BY <3>2 DEF after
  <2>2. Adds(blocks', i.at) /\ i.at \in 1 .. Len(Source) /\ Source[i.at] = "["
        /\ i.at = Place(blocks, Source, insert, Len(blocks[insert]) + 1)
    BY <1>2, <1>5, <1>6, <1>8, <1>9
  <2> DEFINE after == blocks'
  <2>3. Grows(after, i) /\ Adds(after, i.at)
        /\ Says(after, Source, insert, Len(blocks[insert]) + 1, i)
    BY <1>9, <2>1, <2>2
  <2>4. Len(blocks) % 3 = 1
    BY <1>10
  <2> HIDE DEF after, m
  <2>5. Code(after, Source)
    BY <1>2, <2>2, <2>3, <2>4, CodeGrows
  <2> QED
    BY <2>5 DEF after
<1>15. /\ Len(visits') = d + 1 /\ d \in Nat \ {0}
       /\ visits'[d + 1] = G!Visit(inner, m + 1, m + 3)
       /\ \A v \in 1 .. d : visits'[v] = G!ToNextNode[v]
  <2> DEFINE w == G!ToNextNode
             x == G!Visit(inner, m + 1, m + 3)
             V == ActiveVisit
  <2>1. w \in Seq(V) /\ Len(w) = d /\ d \in Nat \ {0}
    BY <1>1, NextNode
  <2>2. x \in V
    <3>1. inner \in 1 .. Len(sequences)
      <4>1. Len(sequences) \in Nat
        BY LenProperties DEF Inv, Tree
      <4> QED
        BY <1>4, <1>5, <4>1
    <3> QED
      BY <1>2, <3>1 DEF G!Visit, ActiveVisit
  <2>3. visits' = Append(w, x)
    BY <1>1
  <2> HIDE DEF w, x, V
  <2>4. /\ Len(Append(w, x)) = Len(w) + 1
        /\ \A j \in 1 .. Len(w) : Append(w, x)[j] = w[j]
        /\ Append(w, x)[Len(w) + 1] = x
    BY <2>1, <2>2, AppendType
  <2> QED
    BY <2>1, <2>3, <2>4 DEF w, x
<1>16. /\ visits'[d + 1].seq = inner /\ visits'[d + 1].next = 1
       /\ visits'[d + 1].condition = m + 1 /\ visits'[d + 1].end = m + 3
  BY <1>15 DEF G!Visit
<1>17. /\ \A v \in 1 .. d - 1 : visits'[v] = visits[v]
       /\ visits'[d].seq = visits[d].seq /\ visits'[d].next = visits[d].next + 1
       /\ \A v \in 1 .. d : /\ visits'[v].condition = visits[v].condition
                            /\ visits'[v].end = visits[v].end
  <2>1. d \in 1 .. d /\ \A v \in 1 .. d - 1 : v \in 1 .. d
    BY <1>15
  <2>2. /\ \A v \in 1 .. d - 1 : G!ToNextNode[v] = visits[v]
        /\ G!ToNextNode[d].seq = visits[d].seq /\ G!ToNextNode[d].next = visits[d].next + 1
        /\ \A v \in 1 .. d : /\ G!ToNextNode[v].condition = visits[v].condition
                             /\ G!ToNextNode[v].end = visits[v].end
    BY <1>1, NextNode
  <2> QED
    BY <1>15, <2>1, <2>2
<1>18. s = visits[d].seq /\ k = visits[d].next
  BY <1>1, TopVisit
<1>19. /\ \A v \in 1 .. d + 1 : v \in 1 .. d - 1 \/ v = d \/ v = d + 1
       /\ \A v \in 2 .. d + 1 : v = d + 1 \/ v \in 2 .. d
       /\ \A v \in 2 .. d : v \in 1 .. d /\ v \in 2 .. d + 1 /\ v - 1 \in 1 .. d - 1
       /\ \A v \in 2 .. d : v = d \/ v \in 1 .. d - 1
       /\ \A v \in 1 .. d - 1 : v \in 1 .. d
       /\ (d + 1) - 1 = d /\ d + 1 \in 2 .. d + 1
  BY <1>15
<1> HIDE DEF m, s, k, inner
<1>20. Entered(blocks', {visits'[v].condition : v \in 2 .. Len(visits')})
  <2>1. Entered(blocks', more)
    <3> DEFINE after == blocks'
               o == more
    <3>1. /\ Code(blocks, Source) /\ Len(blocks) % 3 = 1 /\ Entered(blocks, pending)
          /\ Grows(after, i) /\ Adds(after, n) /\ Len(after) = Len(blocks) + 3
          /\ i.op = "br" /\ i.to = Len(blocks) + 1 /\ o = pending \cup {Len(blocks) + 1}
      BY <1>2, <1>8, <1>9, <1>10 DEF m
    <3> HIDE DEF after, o, pending
    <3>2. Entered(after, o)
      BY <3>1, EnteredLoop
    <3> QED
      BY <3>2 DEF after, o
  <2>2. \A v \in 2 .. d : visits'[v].condition = visits[v].condition
    BY <1>17, <1>19
  <2>3. {visits'[v].condition : v \in 2 .. d + 1} \subseteq more
    BY <1>16, <1>19, <2>2
  <2>4. more \subseteq {visits'[v].condition : v \in 2 .. d + 1}
    BY <1>16, <1>19, <2>2
  <2> QED
    BY <1>15, <2>1, <2>3, <2>4
<1>21. declared' = Called(blocks')
  <2> DEFINE after == blocks'
  <2>1. Grows(after, i) /\ Adds(after, n) /\ Len(blocks) % 3 = 1 /\ i.op # "call"
    BY <1>8, <1>9, <1>10 DEF m
  <2> HIDE DEF after
  <2>2. \A b \in Len(blocks) + 1 .. Len(after) : \A j \in DOMAIN after[b] : after[b][j].op # "call"
    BY <2>1, NewBlocks
  <2>3. Called(after) = Called(blocks)
    BY <2>1, <2>2, CalledGrows
  <2> QED
    BY <1>1, <2>3 DEF Translation, after
<1>22. n + 1 = Place(blocks', Source, insert', Len(blocks'[insert']) + 1)
  <2>1. insert' = m + 2 /\ Len(blocks'[insert']) + 1 = 1
    <3>1. insert' = m + 2 /\ blocks'[m + 2] = <<>>
      BY <1>1, <1>12
    <3>2. Len(<<>>) + 1 = 1
      OBVIOUS
    <3> QED
      BY <3>1, <3>2
  <2>2. Due(blocks', Source, m + 2) = blocks'[m + 1][1].at + 1
    BY <1>12 DEF Due
  <2> QED
    BY <1>13, <2>1, <2>2 DEF Place
<1>23. Follows(visits', blocks', n, posn, Source)
  <2>1. visits'[1].seq = program
    <3>1. visits'[1].seq = visits[1].seq
      <4>1. 1 = d \/ 1 \in 1 .. d - 1
        <5>1. d \in Nat \ {0}
          BY <1>15
        <5> HIDE DEF d
        <5> QED
          BY <5>1
      <4> QED
        BY <1>17, <4>1
    <3> QED
      BY <1>3, <3>1 DEF Follows
  <2>2. \A v \in 1 .. d + 1 : visits'[v].next \in 1 .. Len(sequences[visits'[v].seq]) + 1
    <3>1. \A v \in 1 .. d - 1 : visits'[v].next \in 1 .. Len(sequences[visits'[v].seq]) + 1
      BY <1>3, <1>17, <1>19 DEF Follows
    <3>2. visits'[d].next \in 1 .. Len(sequences[visits'[d].seq]) + 1
      BY <1>4, <1>17, <1>18
    <3>3. visits'[d + 1].next \in 1 .. Len(sequences[visits'[d + 1].seq]) + 1
      <4>1. Len(sequences) \in Nat
        BY LenProperties DEF Inv, Tree
      <4>2. inner \in 1 .. Len(sequences)
        BY <1>4, <1>5, <4>1
      <4>3. Len(sequences[inner]) \in Nat
        <5> DEFINE N == Seq(NodeUpTo(Len(sequences)))
                   x == sequences[inner]
        <5>1. sequences \in Seq(N)
          BY DEF Inv, Tree
        <5> HIDE DEF N
        <5>2. x \in N
          BY <4>2, <5>1, ElementOfSeq
        <5> HIDE DEF x
        <5>3. Len(x) \in Nat
          BY <5>2, LenProperties DEF N
        <5> QED
          BY <5>3 DEF x
      <4> QED
        BY <1>16, <4>3
    <3> QED
      BY <1>19, <3>1, <3>2, <3>3
  <2>3. At(visits', posn, d + 1) = n + 1
    BY <1>5, <1>16 DEF At
  <2>4. ASSUME NEW v \in 2 .. d
        PROVE  /\ At(visits', posn, v - 1) = Until(posn[visits'[v].seq]) + 1
               /\ LoopOf(visits', blocks', posn, Source, v)
    <3>1. /\ At(visits, posn, v - 1) = Until(posn[visits[v].seq]) + 1
          /\ LoopOf(visits, blocks, posn, Source, v)
      BY <1>3, <2>4 DEF Follows
    <3>2. At(visits', posn, v - 1) = At(visits, posn, v - 1)
      BY <1>17, <1>19, <2>4 DEF At
    <3>3. /\ visits'[v].seq = visits[v].seq
          /\ visits'[v].condition = visits[v].condition
          /\ visits'[v].end = visits[v].end
      BY <1>17, <1>19, <2>4
    <3> DEFINE vs == visits'
               bs == blocks'
    <3>4. Grows(bs, i) /\ vs[v].seq = visits[v].seq
          /\ vs[v].condition = visits[v].condition /\ vs[v].end = visits[v].end
      BY <1>9, <3>3
    <3> HIDE DEF vs, bs
    <3>5. LoopOf(vs, bs, posn, Source, v)
      BY <1>1, <1>2, <3>1, <3>4, LoopOfKept
    <3> QED
      BY <3>1, <3>2, <3>3, <3>5 DEF vs, bs
  <2>5. At(visits', posn, d) = Until(posn[visits'[d + 1].seq]) + 1
    BY <1>5, <1>6, <1>16, <1>17, <1>18 DEF At, q
  <2>6. LoopOf(visits', blocks', posn, Source, d + 1)
    BY <1>5, <1>7, <1>12, <1>13, <1>16 DEF LoopOf
  <2>7. ASSUME NEW v \in 2 .. d + 1
        PROVE  /\ At(visits', posn, v - 1) = Until(posn[visits'[v].seq]) + 1
               /\ LoopOf(visits', blocks', posn, Source, v)
    BY <1>19, <2>4, <2>5, <2>6, <2>7
  <2> QED
    BY <1>15, <2>1, <2>2, <2>3, <2>7 DEF Follows
<1>24. blocks' # <<>>
  BY <1>12
<1> HIDE DEF pending, more, d
<1>25. (\E x : /\ Whole(sequences, program, x, Source, R!Sym)
               /\ Follows(visits, blocks, position, x, Source))'
  <2>1. Whole(sequences', program', posn, Source', R!Sym)
    BY <1>1, <1>3
  <2>2. Follows(visits, blocks, position, posn, Source)'
    BY <1>1, <1>23 DEF Follows
  <2> QED
    BY <2>1, <2>2
<1> QED
  BY <1>1, <1>2, <1>10, <1>14, <1>20, <1>21, <1>22, <1>24, <1>25 DEF Translation

LEMMA VisitProgramTranslates ==
  ASSUME Inv, Parsed, Translation, G!VisitProgram, Source' = Source
  PROVE  Translation'
<1> DEFINE i == [op |-> "tapeBegin", at |-> 1]
           visit == G!Visit(program, 0, 0)
<1>1. /\ program # 0 /\ blocks = <<>>
      /\ blocks' = << <<i>> >> /\ insert' = 1 /\ visits' = <<visit>>
      /\ UNCHANGED <<sequences, program, declared, position, generated>>
  BY DEF G!VisitProgram
<1>2. ~generated /\ position = 0 /\ declared = Called(blocks)
  BY <1>1 DEF Inv, Module, Translation
<1>3. PICK posn : Whole(sequences, program, posn, Source, R!Sym)
  BY <1>1, TreeLies
<1>4. visit.seq = program /\ visit.next = 1
  BY DEF G!Visit
<1>5. i.op = "tapeBegin" /\ i.at = 1
  OBVIOUS
<1> HIDE DEF i, visit
<1>6. /\ Len(blocks') = 1 /\ DOMAIN blocks' = {1} /\ blocks'[1] = <<i>>
      /\ Len(visits') = 1 /\ visits'[1] = visit /\ blocks' # <<>>
  BY <1>1
<1>7. DOMAIN <<i>> = {1} /\ <<i>>[1] = i /\ Len(<<i>>) = 1
  OBVIOUS
<1>8. 1 % 3 = 1
  OBVIOUS
<1>9. Code(blocks', Source)
  <2>1. Says(blocks', Source, 1, 1, i)
    BY <1>5 DEF Says
  <2>2. Place(blocks', Source, 1, 1) = 1
    BY DEF Place, Due
  <2> QED
    BY <1>5, <1>6, <1>7, <1>8, <2>1, <2>2 DEF Code
<1>10. Entered(blocks', {visits'[v].condition : v \in 2 .. Len(visits')})
  BY <1>6, <1>8 DEF Entered
<1>11. Called(blocks') = {} /\ Called(blocks) = {}
  <2>1. DOMAIN blocks = {}
    BY <1>1
  <2>2. Called(blocks) = {}
    BY <2>1 DEF Called
  <2>3. Called(blocks') = {}
    BY <1>5, <1>6, <1>7 DEF Called
  <2> QED
    BY <2>2, <2>3
<1>12. Len(blocks') = 1 + 3 * Cardinality(Occurrences(Source, position, "["))
  <2>1. Occurrences(Source, position, "[") = {}
    BY <1>2 DEF Occurrences
  <2>2. Cardinality({}) = 0
    BY FS_EmptySet
  <2>3. Cardinality(Occurrences(Source, position, "[")) = 0
    BY <2>1, <2>2
  <2> DEFINE o == Cardinality(Occurrences(Source, position, "["))
  <2>4. o = 0 /\ Len(blocks') = 1
    BY <1>6, <2>3
  <2> HIDE DEF o
  <2>5. Len(blocks') = 1 + 3 * o
    BY <2>4
  <2> QED
    BY <2>5 DEF o
<1>13. position + 1 = Place(blocks', Source, insert', Len(blocks'[insert']) + 1)
  <2>1. Len(blocks'[insert']) + 1 = 2 /\ blocks'[insert'][2 - 1] = i
    BY <1>1, <1>6, <1>7
  <2> QED
    BY <1>2, <1>5, <2>1 DEF Place, After
<1>14. Follows(visits', blocks', position, posn, Source)
  <2>1. 1 \in 1 .. Len(sequences[program]) + 1
    <3> DEFINE N == Seq(NodeUpTo(Len(sequences)))
               x == sequences[program]
    <3>1. sequences \in Seq(N) /\ program \in 1 .. Len(sequences)
      BY <1>3 DEF Inv, Tree, Whole
    <3> HIDE DEF N
    <3>2. x \in N
      BY <3>1, ElementOfSeq
    <3> HIDE DEF x
    <3>3. Len(x) \in Nat
      BY <3>2, LenProperties DEF N
    <3> QED
      BY <3>3 DEF x
  <2>2. At(visits', posn, 1) = position + 1
    BY <1>2, <1>3, <1>4, <1>6 DEF At, Whole
  <2>3. \A v \in 1 .. Len(visits') : visits'[v].next \in 1 .. Len(sequences[visits'[v].seq]) + 1
    BY <1>4, <1>6, <2>1
  <2>4. \A v \in 2 .. Len(visits') : FALSE
    BY <1>6
  <2> QED
    BY <1>4, <1>6, <2>2, <2>3, <2>4 DEF Follows
<1>15. (\E x : /\ Whole(sequences, program, x, Source, R!Sym)
               /\ Follows(visits, blocks, position, x, Source))'
  <2>1. Whole(sequences', program', posn, Source', R!Sym)
    BY <1>1, <1>3
  <2>2. Follows(visits, blocks, position, posn, Source)'
    BY <1>1, <1>14 DEF Follows
  <2> QED
    BY <2>1, <2>2
<1> QED
  BY <1>1, <1>2, <1>6, <1>9, <1>10, <1>11, <1>12, <1>13, <1>15 DEF Translation

LEMMA TranslationInit == Init => Translation
<1> SUFFICES ASSUME Init PROVE Translation
  OBVIOUS
<1>1. blocks = <<>> /\ visits = <<>> /\ declared = {} /\ position = 0 /\ ~generated
  BY DEF Init, G!Init
<1>2. Called(blocks) = {}
  <2>1. DOMAIN blocks = {}
    BY <1>1
  <2> QED
    BY <2>1 DEF Called
<1> QED
  BY <1>1, <1>2 DEF Translation

(* The source text is never changed.                                       *)
LEMMA SourceStays == [Next]_vars => Source' = Source
<1> SUFFICES ASSUME [Next]_vars PROVE Source' = Source
  OBVIOUS
<1>1. text' = text
  <2>1. P!Next => text' = text
    BY DEF P!Next, P!PushLeaf, P!EnterLoop, P!LeaveLoop, P!UnexpectedLoopEnd,
           P!UnclosedLoop, P!Finish, P!Throw
  <2> QED
    BY <2>1 DEF Next, Parse, Generate, Run, vars, parserVars
<1> QED
  BY <1>1 DEF Source, P!WithoutComments

LEMMA TranslationStep == Inv /\ Parsed /\ Translation /\ [Next]_vars => Translation'
<1> SUFFICES ASSUME Inv, Parsed, Translation, [Next]_vars PROVE Translation'
  OBVIOUS
<1>1. Source' = Source
  BY SourceStays
<1>2. CASE Parse
  <2>1. UNCHANGED <<blocks, insert, visits, declared, position, generated>> /\ P!Next
    BY <1>2 DEF Parse, generatorVars
  <2>2. program = 0
    BY <2>1 DEF Inv, Tree, P!Next, P!PushLeaf, P!EnterLoop, P!LeaveLoop,
                P!UnexpectedLoopEnd, P!UnclosedLoop, P!Finish
  <2>3. blocks = <<>> /\ visits = <<>> /\ ~generated
    BY <2>2, EmptySeq DEF Inv, Module, Waiting
  <2>4. declared' = Called(blocks')
    BY <2>1 DEF Translation
  <2> QED
    BY <2>1, <2>3, <2>4 DEF Translation
<1>3. CASE Generate
  BY <1>1, <1>3, VisitProgramTranslates, LeafTranslates, VisitLoopTranslates,
     FinishLoopTranslates, FinishProgramTranslates DEF Generate, G!Next
<1>4. CASE UNCHANGED <<parserVars, generatorVars>>
  <2>1. UNCHANGED <<sequences, program, blocks, insert, visits, declared, position, generated>>
    BY <1>4 DEF parserVars, generatorVars
  <2>2. (\E x : /\ Whole(sequences, program, x, Source, R!Sym)
                /\ Follows(visits, blocks, position, x, Source))'
          <=> \E x : /\ Whole(sequences, program, x, Source, R!Sym)
                     /\ Follows(visits, blocks, position, x, Source)
    BY <1>1, <2>1 DEF Follows
  <2> QED
    BY <1>1, <2>1, <2>2 DEF Translation
<1>5. UNCHANGED vars => UNCHANGED <<parserVars, generatorVars>>
  BY DEF vars, parserVars, generatorVars
<1> QED
  BY <1>2, <1>3, <1>4, <1>5 DEF Next, Run

IInv == Inv /\ Parsed /\ Translation

LEMMA IInvAlways == Spec => []IInv
<1>1. Init => IInv
  BY InvInit, ParsedInit, TranslationInit DEF IInv
<1>2. IInv /\ [Next]_vars => IInv'
  BY InvStep, ParsedStep, TranslationStep DEF IInv
<1> QED
  BY <1>1, <1>2, PTL DEF Spec

(* For every source text: when generate() returns, main has three blocks   *)
(* for every loop, conditions are entered from two places, bodies and ends *)
(* from the condition alone, and the functions declared are those called.  *)
THEOREM ModuleCorrect == Spec => []ModuleMatchesTree
<1>1. ASSUME IInv, generated PROVE ModuleMatchesTree
  <2> DEFINE m == Len(blocks)
             S == InstructionUpTo(m)
  <2>1. /\ visits = <<>> /\ blocks # <<>> /\ program # 0
        /\ blocks \in Seq(Seq(S)) /\ Code(blocks, Source)
        /\ \A b \in DOMAIN blocks : Closed(blocks[b])
        /\ m = 1 + 3 * Cardinality(Occurrences(Source, Len(Source), "["))
        /\ Entered(blocks, {})
        /\ declared = Called(blocks)
    <3>1. /\ visits = <<>> /\ blocks # <<>> /\ program # 0
          /\ blocks \in Seq(Seq(S)) /\ Code(blocks, Source)
          /\ \A b \in DOMAIN blocks : Closed(blocks[b])
          /\ m = 1 + 3 * Cardinality(Occurrences(Source, Len(Source), "["))
          /\ Entered(blocks, {visits[v].condition : v \in 2 .. Len(visits)})
          /\ declared = Called(blocks)
      BY <1>1 DEF IInv, Inv, Module, Translation
    <3>2. {visits[v].condition : v \in 2 .. Len(visits)} = {}
      BY <3>1
    <3> QED
      BY <3>1, <3>2
  <2>2. m = 1 + 3 * (Len(sequences) - 1)
    <3>1. PICK posn : Whole(sequences, program, posn, Source, R!Sym)
      BY <1>1, <2>1, TreeLies DEF IInv
    <3>2. Source \in Seq(P!parsable_chars) /\ sequences \in Seq(Seq(NodeUpTo(Len(sequences))))
      BY <1>1, <2>1, TreeLies DEF IInv, Inv, Tree
    <3> DEFINE N == NodeUpTo(Len(sequences))
    <3>3. sequences \in Seq(Seq(N))
      BY <3>2
    <3> HIDE DEF N
    <3> DEFINE o == Cardinality(Occurrences(Source, Len(Source), "["))
    <3>4. Len(sequences) = 1 + o
      BY <3>1, <3>2, <3>3, WholeBalances
    <3>5. o \in Nat
      <4>1. Len(Source) \in 0 .. Len(Source)
        BY <3>2, LenProperties
      <4> QED
        BY <3>2, <4>1, CountStep
    <3> HIDE DEF o, m
    <3>6. m = 1 + 3 * o
      BY <2>1 DEF o
    <3> QED
      BY <3>4, <3>5, <3>6
  <2>3. DOMAIN blocks = 1 .. m /\ m \in Nat
    BY <2>1, SeqTypes
  <2> HIDE DEF m, S
  <2>4. ASSUME NEW b \in 2 .. m
        PROVE  G!Predecessors(b) = IF b % 3 = 2 THEN Into(blocks, b)
                                   ELSE IF b % 3 = 0 THEN {b - 1} ELSE {b - 2}
    <3>1. ASSUME NEW p \in 1 .. m
          PROVE  b \in G!Targets(Last(blocks[p])) <=>
                   IF b % 3 = 2 THEN Last(blocks[p]).op = "br" /\ Last(blocks[p]).to = b
                   ELSE p = (IF b % 3 = 0 THEN b - 1 ELSE b - 2)
      <4> DEFINE j == Last(blocks[p])
                 k == Len(blocks[p])
      <4>1. /\ j = blocks[p][k] /\ k \in DOMAIN blocks[p] /\ blocks[p] # <<>>
            /\ j.op \in G!Terminators
        <5> DEFINE T == Seq(S)
                   x == blocks[p]
        <5>1. blocks \in Seq(T) /\ Closed(x)
          BY <2>1, <2>3
        <5> HIDE DEF T
        <5>2. x \in T
          BY <2>3, <5>1, ElementOfSeq
        <5> HIDE DEF x
        <5>3. x # <<>> /\ Last(x) = x[Len(x)] /\ Len(x) \in DOMAIN x
              /\ Last(x).op \in G!Terminators
          BY <5>1, <5>2, SeqTypes DEF T, Closed, Last
        <5> QED
          BY <5>3 DEF x
      <4>2. Says(blocks, Source, p, k, j)
        BY <2>1, <2>3, <4>1 DEF Code
      <4>3. p % 3 = 2 => j.op = "condbr" /\ j.then = p + 1 /\ j.else = p + 2
        BY <2>1, <2>3, <4>1 DEF Code, Condition
      <4> HIDE DEF j, k
      <4>4. /\ j.op = "br" => j.to % 3 = 2 /\ p % 3 # 2
            /\ j.op = "condbr" => p % 3 = 2 /\ j.then = p + 1 /\ j.else = p + 2
            /\ j.op \in {"br", "condbr", "ret"}
        BY <4>1, <4>2, <4>3 DEF Says, G!Terminators
      <4>5. CASE j.op = "br"
        <5>1. G!Targets(j) = {j.to}
          BY <4>5 DEF G!Targets
        <5>2. b % 3 # 2 => p # (IF b % 3 = 0 THEN b - 1 ELSE b - 2)
          BY <2>3, <4>4, <4>5
        <5> QED
          BY <4>4, <4>5, <5>1, <5>2 DEF j
      <4>6. CASE j.op = "condbr"
        <5>1. G!Targets(j) = {p + 1, p + 2}
          BY <4>4, <4>6 DEF G!Targets
        <5>2. b \in {p + 1, p + 2} <=>
                b % 3 # 2 /\ p = (IF b % 3 = 0 THEN b - 1 ELSE b - 2)
          BY <2>3, <4>4, <4>6
        <5> QED
          BY <4>6, <5>1, <5>2 DEF j
      <4>7. CASE j.op = "ret"
        <5>1. G!Targets(j) = {}
          BY <4>7 DEF G!Targets
        <5>2. b % 3 # 2 => p # (IF b % 3 = 0 THEN b - 1 ELSE b - 2)
          <6>1. p % 3 # 2
            BY <4>3, <4>7
          <6> QED
            BY <2>3, <6>1
        <5> QED
          BY <4>7, <5>1, <5>2 DEF j
      <4> QED
        BY <4>4, <4>5, <4>6, <4>7
    <3>2. G!Predecessors(b) = {p \in 1 .. m : b \in G!Targets(Last(blocks[p]))}
      BY <2>3 DEF G!Predecessors, G!Last, Last
    <3>3. CASE b % 3 = 2
      <4>1. \A p \in 1 .. m : blocks[p] # <<>>
        BY <2>1, <2>3 DEF Closed
      <4> QED
        BY <2>3, <3>1, <3>2, <3>3, <4>1 DEF Into
    <3>4. CASE b % 3 # 2
      <4> DEFINE e == IF b % 3 = 0 THEN b - 1 ELSE b - 2
      <4>1. e \in 1 .. m
        BY <2>3, <3>4
      <4>2. \A p \in 1 .. m : b \in G!Targets(Last(blocks[p])) <=> p = e
        BY <3>1, <3>4
      <4> HIDE DEF e
      <4>3. G!Predecessors(b) = {e}
        BY <3>2, <4>1, <4>2
      <4> QED
        BY <3>4, <4>3 DEF e
    <3> QED
      BY <3>3, <3>4
  <2>5. ASSUME NEW b \in 2 .. m
        PROVE  Cardinality(G!Predecessors(b)) = IF b % 3 = 2 THEN 2 ELSE 1
    <3>1. CASE b % 3 = 2
      <4>1. b \in DOMAIN blocks
        BY <2>3
      <4>2. PICK p, q \in DOMAIN blocks : p # q /\ Into(blocks, b) = {p, q}
        BY <2>1, <3>1, <4>1 DEF Entered
      <4>3. Cardinality({p, q}) = 2
        <5>1. Cardinality({p}) = 1 /\ IsFiniteSet({p}) /\ q \notin {p}
          BY <4>2, FS_Singleton
        <5>2. Cardinality({p} \cup {q}) = 1 + 1
          BY <5>1, FS_AddElement
        <5>3. {p} \cup {q} = {p, q}
          OBVIOUS
        <5> QED
          BY <5>2, <5>3
      <4> QED
        BY <2>4, <3>1, <4>2, <4>3
    <3>2. CASE b % 3 # 2
      <4>1. \A e : Cardinality({e}) = 1
        BY FS_Singleton
      <4> QED
        BY <2>4, <3>2, <4>1
    <3> QED
      BY <3>1, <3>2
  <2>6. G!Calls = Called(blocks)
    <3>1. ASSUME NEW b \in DOMAIN blocks
          PROVE  /\ G!Range(blocks[b]) = {blocks[b][k] : k \in DOMAIN blocks[b]}
                 /\ \A k \in DOMAIN blocks[b] :
                      blocks[b][k].op = "call" => blocks[b][k].callee \in G!Functions
      <4> DEFINE T == Seq(S)
                 x == blocks[b]
      <4>1. blocks \in Seq(T)
        BY <2>1
      <4> HIDE DEF T
      <4>2. x \in T
        BY <4>1, SeqTypes
      <4> HIDE DEF x
      <4>3. \A k \in DOMAIN x : x[k] \in S
        BY <4>2, SeqTypes DEF T
      <4>4. \A j \in S : j.op = "call" => j.callee \in G!Functions
        BY DEF S, InstructionUpTo
      <4>5. G!Range(x) = {x[k] : k \in DOMAIN x}
        BY DEF G!Range
      <4> QED
        BY <4>3, <4>4, <4>5 DEF x
    <3>2. G!Calls \subseteq Called(blocks)
      BY <3>1 DEF G!Calls, Called
    <3>3. Called(blocks) \subseteq G!Calls
      BY <3>1 DEF G!Calls, Called
    <3> QED
      BY <3>2, <3>3
  <2>7. \A A : G!Cardinality(A) = Cardinality(A)
    BY DEF G!Cardinality, Cardinality
  <2> QED
    BY <2>1, <2>2, <2>5, <2>6, <2>7 DEF ModuleMatchesTree, G!ModuleMatchesTree, m
<1>2. IInv => ModuleMatchesTree
  BY <1>1 DEF ModuleMatchesTree, G!ModuleMatchesTree
<1> QED
  BY <1>2, IInvAlways, PTL

-----------------------------------------------------------------------------
(* How deep the visits nest.                                               *)

(* The language and the parser count the same brackets.                    *)
LEMMA SameBrackets ==
  /\ \A s, i : L!Depth(s, i) = Depth(s, i) /\ R!Depth(s, i) = Depth(s, i)
  /\ \A s, i : L!Matching(s, i) = Matching(s, i)
  /\ \A s : L!Balanced(s) <=> Balanced(s)
<1>1. \A s, i : L!Depth(s, i) = Depth(s, i) /\ R!Depth(s, i) = Depth(s, i)
  BY DEF L!Depth, R!Depth, Depth, L!Occurrences, R!Occurrences, Occurrences,
         L!Cardinality, R!Cardinality, Cardinality
<1>2. \A s, i : L!Matching(s, i) = Matching(s, i)
  BY DEF L!Matching, Matching, L!Depth, Depth, L!Occurrences, Occurrences,
         L!Cardinality, Cardinality
<1>3. \A s : L!Balanced(s) <=> Balanced(s)
  BY <1>1 DEF L!Balanced, Balanced, L!NeverNegative, NeverNegative
<1> QED
  BY <1>1, <1>2, <1>3

(* What the next step of the generator translates: a node that is no loop, *)
(* the bracket that opens one, or the bracket behind a body.               *)
LEMMA NextSymbol ==
  ASSUME Inv, Parsed, Translation, visits # <<>>
  PROVE  /\ Source \in Seq(P!parsable_chars) /\ position \in Nat
         /\ ~G!AtSequenceEnd =>
              /\ position + 1 <= Len(Source)
              /\ IF G!CurrentNode.op = "Loop" THEN Source[position + 1] = "["
                 ELSE Source[position + 1] \notin {"[", "]"}
         /\ (G!AtSequenceEnd /\ Len(visits) > 1) =>
              position + 1 <= Len(Source) /\ Source[position + 1] = "]"
<1> DEFINE n == position + 1
           d == Len(visits)
           s == G!Top.seq
           k == G!Top.next
<1>1. Source \in Seq(P!parsable_chars) /\ position \in Nat /\ Len(Source) \in Nat
  BY Working, LenProperties
<1>2. PICK posn : /\ Whole(sequences, program, posn, Source, R!Sym)
                  /\ Follows(visits, blocks, position, posn, Source)
  BY Working
<1>3. ASSUME ~G!AtSequenceEnd
      PROVE  /\ n <= Len(Source)
             /\ IF G!CurrentNode.op = "Loop" THEN Source[n] = "["
                ELSE Source[n] \notin {"[", "]"}
  <2> DEFINE q == posn[s][k + 1]
  <2>1. q \in 1 .. Len(Source) + 1
        /\ NodeAt(G!CurrentNode, n, q, s - 1, posn, Source, R!Sym)
    BY <1>1, <1>2, <1>3, NextInText
  <2>2. IF G!CurrentNode.op = "Loop" THEN Source[n] = "[" /\ n + 1 <= q - 1
        ELSE Source[n] \notin {"[", "]"} /\ q = n + 1
    BY <2>1 DEF NodeAt
  <2>3. n + 1 <= q - 1 \/ q = n + 1
    BY <2>2
  <2>4. q \in 1 .. Len(Source) + 1 /\ n \in Nat
    BY <1>1, <2>1
  <2> HIDE DEF q, n
  <2>5. n <= Len(Source)
    BY <1>1, <2>3, <2>4
  <2> QED
    BY <2>2, <2>5
<1>4. ASSUME G!AtSequenceEnd, d > 1 PROVE n <= Len(Source) /\ Source[n] = "]"
  <2>1. d \in Nat /\ d \in 2 .. d /\ d - 1 \in 1 .. d /\ s = visits[d].seq
    <3>1. d \in Nat /\ G!Top = visits[d]
      BY TopVisit
    <3> QED
      BY <1>4, <3>1
  <2>2. Until(posn[s]) = n
    BY <1>1, <1>2, <1>4, NextInText
  <2>3. /\ At(visits, posn, d - 1) = n + 1
        /\ LoopOf(visits, blocks, posn, Source, d)
    BY <1>2, <2>1, <2>2 DEF Follows
  <2>4. Source[n] = "]"
    BY <2>1, <2>2, <2>3 DEF LoopOf
  <2> DEFINE e == visits[d - 1].seq
             f == visits[d - 1].next
  <2>5. e \in 1 .. Len(sequences) /\ f \in 1 .. Len(sequences[e]) + 1 /\ posn[e][f] = n + 1
    <3>1. visits[d - 1] \in ActiveVisit
      BY <2>1, ElementOfSeq DEF Inv, Module
    <3> QED
      BY <1>2, <2>1, <2>3, <3>1 DEF ActiveVisit, Follows, At
  <2> HIDE DEF e, f
  <2>6. Lies(sequences[e], posn[e], e - 1, posn, Source, R!Sym)
    BY <1>2, <2>5 DEF Whole, Placed
  <2>7. posn[e] \in Seq(1 .. Len(Source) + 1) /\ Len(posn[e]) = Len(sequences[e]) + 1
    BY <2>6 DEF Lies
  <2>8. posn[e][f] \in 1 .. Len(Source) + 1
    BY <2>5, <2>7, ElementOfSeq
  <2>9. n <= Len(Source)
    BY <1>1, <2>5, <2>8
  <2> QED
    BY <2>4, <2>9
<1> QED
  BY <1>1, <1>3, <1>4

VisitsNest == visits # <<>> => Len(visits) = 1 + Depth(Source, position)

LEMMA NestsBy ==
  ASSUME NEW S, NEW src \in Seq(S), NEW n \in Nat, n + 1 <= Len(src),
         NEW d, d = 1 + Depth(src, n)
  PROVE  /\ src[n + 1] = "[" => d + 1 = 1 + Depth(src, n + 1)
         /\ src[n + 1] = "]" => d - 1 = 1 + Depth(src, n + 1)
         /\ src[n + 1] \notin {"[", "]"} => d = 1 + Depth(src, n + 1)
<1> DEFINE l == n + 1
           x == Depth(src, n)
           y == Depth(src, l)
<1>1. n \in 0 .. Len(src) /\ l \in 0 .. Len(src) /\ l > 0 /\ l - 1 = n
  BY LenProperties
<1>2. x \in Int
  BY <1>1, DepthStep
<1> HIDE DEF l
<1>3. y = Depth(src, l - 1) + (IF src[l] = "[" THEN 1 ELSE IF src[l] = "]" THEN -1 ELSE 0)
  BY <1>1, DepthStep
<1>4. y = x + (IF src[l] = "[" THEN 1 ELSE IF src[l] = "]" THEN -1 ELSE 0) /\ d = 1 + x
  BY <1>1, <1>3
<1> HIDE DEF x, y
<1>5. /\ src[l] = "[" => d + 1 = 1 + y
      /\ src[l] = "]" => d - 1 = 1 + y
      /\ src[l] \notin {"[", "]"} => d = 1 + y
  BY <1>2, <1>4
<1> QED
  BY <1>5 DEF l, y

LEMMA VisitsNestStep == IInv /\ VisitsNest /\ [Next]_vars => VisitsNest'
<1> SUFFICES ASSUME IInv, VisitsNest, [Next]_vars PROVE VisitsNest'
  OBVIOUS
<1>1. Source' = Source
  BY SourceStays
<1>2. ASSUME visits' = visits, position' = position PROVE VisitsNest'
  BY <1>1, <1>2 DEF VisitsNest
<1>3. CASE G!VisitProgram
  <2>1. visits' = <<G!Visit(program, 0, 0)>> /\ position' = position /\ blocks = <<>>
        /\ program # 0
    BY <1>3 DEF G!VisitProgram
  <2>2. position = 0 /\ Len(visits') = 1
    BY <2>1 DEF IInv, Translation
  <2>3. Depth(Source, 0) = 0
    <3>1. Source \in Seq(P!parsable_chars)
      BY <2>1, TreeLies DEF IInv
    <3> QED
      BY <3>1, DepthOfNothing
  <2> QED
    BY <1>1, <2>1, <2>2, <2>3 DEF VisitsNest
<1>4. ASSUME visits # <<>>
      PROVE  /\ Source \in Seq(P!parsable_chars) /\ position \in Nat
             /\ Len(visits) \in Nat \ {0} /\ Len(visits) = 1 + Depth(Source, position)
             /\ Len(G!ToNextNode) = Len(visits)
             /\ G!ToNextNode \in Seq(ActiveVisit)
  BY <1>4, NextSymbol, TopVisit, NextNode DEF IInv, VisitsNest
<1> DEFINE d == Len(visits)
           n == position + 1
<1>5. CASE G!VisitLeaf
  <2>1. visits # <<>> /\ ~G!AtSequenceEnd /\ G!CurrentNode.op # "Loop"
        /\ visits' = G!ToNextNode /\ position' = n
    BY <1>5 DEF G!VisitLeaf, G!Visiting
  <2>2. n <= Len(Source) /\ Source[n] \notin {"[", "]"}
    BY <2>1, NextSymbol DEF IInv
  <2>3. d = 1 + Depth(Source, n)
    BY <1>4, <2>1, <2>2, NestsBy
  <2> QED
    BY <1>1, <1>4, <2>1, <2>3 DEF VisitsNest
<1>6. CASE G!VisitLoop
  <2>1. visits # <<>> /\ ~G!AtSequenceEnd /\ G!CurrentNode.op = "Loop" /\ position' = n
        /\ \E v : visits' = Append(G!ToNextNode, v)
    BY <1>6 DEF G!VisitLoop, G!Visiting
  <2>2. n <= Len(Source) /\ Source[n] = "["
    BY <2>1, NextSymbol DEF IInv
  <2>3. d + 1 = 1 + Depth(Source, n)
    BY <1>4, <2>1, <2>2, NestsBy
  <2>4. Len(visits') = d + 1
    BY <1>4, <2>1
  <2> QED
    BY <1>1, <2>1, <2>3, <2>4 DEF VisitsNest
<1>7. CASE G!FinishLoop
  <2>1. visits # <<>> /\ G!AtSequenceEnd /\ d > 1
        /\ visits' = Front(visits) /\ position' = n
    BY <1>7 DEF G!FinishLoop, G!Visiting, G!Front, Front
  <2>2. n <= Len(Source) /\ Source[n] = "]"
    BY <2>1, NextSymbol DEF IInv
  <2>3. d - 1 = 1 + Depth(Source, n)
    BY <1>4, <2>1, <2>2, NestsBy
  <2>4. Len(visits') = d - 1
    BY <2>1, FrontType DEF IInv, Inv, Module
  <2> QED
    BY <1>1, <2>1, <2>3, <2>4 DEF VisitsNest
<1>8. CASE G!FinishProgram
  <2>1. visits' = <<>>
    BY <1>8 DEF G!FinishProgram
  <2> QED
    BY <2>1 DEF VisitsNest
<1>9. UNCHANGED generatorVars => visits' = visits /\ position' = position
  BY DEF generatorVars
<1> QED
  BY <1>2, <1>3, <1>5, <1>6, <1>7, <1>8, <1>9 DEF Next, Parse, Generate, Run, G!Next, vars

(* The generator's calls nest exactly as the brackets of the source do, to *)
(* any depth: what the parser's stack can hold, its stack must hold.       *)
THEOREM NestingKept == Spec => []VisitsMatchNesting
<1>1. Init => VisitsNest
  BY DEF Init, G!Init, VisitsNest
<1>2. IInv /\ VisitsNest /\ [Next]_vars => VisitsNest'
  BY VisitsNestStep
<1>3. VisitsNest => VisitsMatchNesting
  <2>1. \A s, i : L!Depth(s, i) = Depth(s, i)
    BY SameBrackets
  <2> QED
    BY <2>1 DEF VisitsNest, VisitsMatchNesting, G!Visiting
<1> QED
  BY <1>1, <1>2, <1>3, IInvAlways, PTL DEF Spec

-----------------------------------------------------------------------------
(* The compiler ends.                                                      *)

(* A step of the parser passes a character or ends parse().                *)
LEMMA ParserMovesOn ==
  ASSUME Parsed, P!Next
  PROVE  ParserWork \in Nat /\ ParserWork' \in 0 .. ParserWork - 1
<1>1. R!IInv /\ R!Next /\ outcome = "parsing" /\ text' = text
  <2>1. outcome = "parsing" /\ text' = text
    BY DEF P!Next, P!PushLeaf, P!EnterLoop, P!LeaveLoop, P!UnexpectedLoopEnd,
           P!UnclosedLoop, P!Finish, P!Throw
  <2> QED
    BY <2>1, SameParser DEF Parsed
<1>2. text \in Seq(P!Char) /\ Texts \subseteq Seq(R!Char)
  BY <1>1, SourcesAssumption, SameParser DEF R!IInv, R!TypeOK
<1>3. Len(text) \in Nat /\ current \in 1 .. Len(text) + 1
  BY <1>1, <1>2, LenProperties DEF R!IInv, R!TypeOK, R!End
<1>4. outcome' # "parsing" \/ current' \in current + 1 .. Len(text) + 1
  <2>1. ASSUME R!PushLeaf \/ R!EnterLoop \/ R!LeaveLoop
        PROVE  current' \in current + 1 .. R!End(text)
    <3>1. ~R!AtEnd /\ R!Advance
      BY <2>1 DEF R!PushLeaf, R!EnterLoop, R!LeaveLoop, R!CallerAdvance
    <3> QED
      BY <1>1, <1>2, <3>1, R!AdvanceMovesOn
  <2>2. R!UnexpectedLoopEnd \/ R!UnclosedLoop \/ R!Finish => outcome' # "parsing"
    BY DEF R!UnexpectedLoopEnd, R!UnclosedLoop, R!Finish, R!Throw
  <2> QED
    BY <1>1, <2>1, <2>2 DEF R!Next, R!End
<1>5. ParserWork = Len(text) + 2 - current
  BY <1>1 DEF ParserWork
<1>6. ParserWork' = IF outcome' = "parsing" THEN Len(text) + 2 - current' ELSE 0
  BY <1>1 DEF ParserWork
<1> QED
  BY <1>3, <1>4, <1>5, <1>6

(* A step of the generator makes the entry block, translates a symbol or   *)
(* ends generate().                                                        *)
LEMMA GeneratorMovesOn ==
  ASSUME IInv, IInv', G!Next, Source' = Source
  PROVE  GeneratorWork \in Int /\ GeneratorWork' \in 0 .. GeneratorWork - 1
<1>1. Source \in Seq(P!parsable_chars) /\ Len(Source) \in Nat /\ position \in Nat
  BY SourceType, LenProperties DEF IInv, Inv, Module
<1>2. CASE G!VisitProgram
  <2>1. blocks = <<>> /\ blocks' # <<>> /\ UNCHANGED <<position, generated>>
    BY <1>2 DEF G!VisitProgram
  <2>2. position = 0 /\ ~generated
    BY <2>1 DEF IInv, Inv, Module, Translation
  <2> QED
    BY <1>1, <2>1, <2>2 DEF GeneratorWork
<1>3. ASSUME visits # <<>> PROVE blocks # <<>> /\ ~generated
  BY <1>3, Working DEF IInv
<1>4. CASE G!VisitLeaf \/ G!VisitLoop \/ G!FinishLoop
  <2>1. visits # <<>> /\ (G!AtSequenceEnd => Len(visits) > 1)
        /\ position' = position + 1 /\ generated' = generated
    BY <1>4 DEF G!VisitLeaf, G!VisitLoop, G!FinishLoop, G!Visiting
  <2>2. position + 1 <= Len(Source)
    BY <2>1, NextSymbol DEF IInv
  <2>3. blocks' # <<>>
    BY <1>1, <2>1 DEF IInv, Translation
  <2> QED
    BY <1>1, <1>3, <2>1, <2>2, <2>3 DEF GeneratorWork
<1>5. CASE G!FinishProgram
  <2>1. visits # <<>> /\ position' = position /\ generated'
    BY <1>5 DEF G!FinishProgram, G!Visiting
  <2>2. position = Len(Source)
    BY <2>1 DEF IInv, Translation
  <2> QED
    BY <1>1, <1>3, <2>1, <2>2 DEF GeneratorWork
<1> QED
  BY <1>2, <1>4, <1>5 DEF G!Next

(* Parser and generator work one after the other.                          *)
LEMMA WorkSinks ==
  IInv /\ IInv' /\ [Next]_vars =>
    [Parse \/ Generate =>
       ParserWork' + GeneratorWork' \in 0 .. ParserWork + GeneratorWork - 1]_vars
<1> SUFFICES ASSUME IInv, IInv', [Next]_vars, Parse \/ Generate
             PROVE  ParserWork' + GeneratorWork' \in 0 .. ParserWork + GeneratorWork - 1
  OBVIOUS
<1>1. Source' = Source
  BY SourceStays
<1>2. ASSUME program = 0 PROVE blocks = <<>> /\ visits = <<>> /\ ~generated
  BY <1>2, EmptySeq DEF IInv, Inv, Module, Waiting
<1>3. CASE Parse
  <2>1. P!Next /\ outcome = "parsing"
    BY <1>3 DEF Parse, P!Next, P!PushLeaf, P!EnterLoop, P!LeaveLoop,
                P!UnexpectedLoopEnd, P!UnclosedLoop, P!Finish
  <2>2. ParserWork \in Nat /\ ParserWork' \in 0 .. ParserWork - 1
    BY <2>1, ParserMovesOn DEF IInv
  <2>3. blocks = <<>> /\ ~generated /\ position = 0
    BY <1>2, <2>1 DEF IInv, Inv, Tree, Translation
  <2>4. GeneratorWork' = GeneratorWork /\ GeneratorWork \in Nat
    <3>1. Len(Source) \in Nat
      BY SourceType, LenProperties DEF IInv
    <3>2. UNCHANGED <<blocks, position, generated>>
      BY <1>3 DEF Parse, generatorVars
    <3> QED
      BY <1>1, <2>3, <3>1, <3>2 DEF GeneratorWork
  <2> DEFINE before == ParserWork
             after == ParserWork'
             other == GeneratorWork
  <2>5. after + other \in 0 .. before + other - 1
    <3>1. before \in Nat /\ after \in 0 .. before - 1 /\ other \in Nat
      BY <2>2, <2>4
    <3> HIDE DEF before, after, other
    <3> QED
      BY <3>1
  <2> QED
    BY <2>4, <2>5
<1>4. CASE Generate
  <2>1. G!Next /\ outcome' = outcome
    BY <1>4 DEF Generate
  <2>2. program # 0
    BY <1>2, <2>1 DEF G!Next, G!VisitProgram, G!VisitLeaf, G!VisitLoop, G!FinishLoop,
                      G!FinishProgram, G!Visiting
  <2>3. ParserWork = 0 /\ ParserWork' = 0
    BY <2>1, <2>2 DEF IInv, Parsed, ParserWork
  <2>4. GeneratorWork \in Int /\ GeneratorWork' \in 0 .. GeneratorWork - 1
    BY <1>1, <2>1, GeneratorMovesOn
  <2> DEFINE before == GeneratorWork
             after == GeneratorWork'
  <2>5. 0 + after \in 0 .. 0 + before - 1
    <3>1. before \in Int /\ after \in 0 .. before - 1
      BY <2>4
    <3> HIDE DEF before, after
    <3> QED
      BY <3>1
  <2> QED
    BY <2>3, <2>5
<1> QED
  BY <1>3, <1>4

(* Whatever the text, parser and generator have less to do after each of   *)
(* their steps: the compiler ends, and nothing in a text makes it work for *)
(* longer than its length allows.                                          *)
THEOREM CompilerMovesOn == Spec => EveryStepIsProgress
<1>1. IInv /\ IInv' /\ [Next]_vars =>
        [Parse \/ Generate =>
           ParserWork' + GeneratorWork' \in 0 .. ParserWork + GeneratorWork - 1]_vars
  BY WorkSinks
<1> QED
  BY <1>1, IInvAlways, PTL DEF Spec, EveryStepIsProgress

-----------------------------------------------------------------------------
(* The execution: once the program runs there is a next instruction, and   *)
(* the pointer is at the start of the tape before the first is executed.   *)
Control ==
  /\ status \in {"idle", "running", "exited", "faulted"}
  /\ status = "idle" => block = 1 /\ next = 1
  /\ status # "idle" =>
       generated /\ block \in DOMAIN blocks /\ next \in DOMAIN blocks[block]

Data ==
  /\ (block = 1 /\ next = 1) => ptr = 0
  /\ ptr \in Int
  /\ tape \in [Tape -> Cell]
  /\ stdin \in Seq(Cell)

Execution == Control /\ Data

(* The language and the generated code have the same memory.               *)
LEMMA SameMemory ==
  /\ L!Tape = Tape /\ X!Tape = Tape
  /\ L!Cell = Cell /\ X!Cell = Cell
  /\ \A p : (L!Mapped(p) <=> Mapped(p)) /\ (X!Mapped(p) <=> Mapped(p))
  /\ \A t, p : L!Load(t, p) = Load(t, p) /\ X!Load(t, p) = Load(t, p)
  /\ \A t, p, v : L!Store(t, p, v) = Store(t, p, v) /\ X!Store(t, p, v) = Store(t, p, v)
  BY DEF L!Tape, X!Tape, Tape, L!Cell, X!Cell, Cell, L!Mapped, X!Mapped, Mapped,
         L!Load, X!Load, Load, L!Store, X!Store, Store

LEMMA MemoryTypes ==
  ASSUME NEW t \in [Tape -> Cell], NEW p
  PROVE  /\ Load(t, p) \subseteq Cell
         /\ \A v \in Cell : Store(t, p, v) \in [Tape -> Cell]
  BY DEF Load, Store

(* A cell wraps: 255 is one less than 0.                                   *)
LEMMA Wraps ==
  ASSUME NEW a \in Cell
  PROVE  /\ a % CellValues = a
         /\ (a + 1) % CellValues \in Cell /\ (a + (-1)) % CellValues \in Cell
         /\ (a + (-1)) % CellValues = (a + (CellValues - 1)) % CellValues
  BY MemoryAssumption DEF Cell

(* Both exceptions of the parser mean that the source without its comments *)
(* does not balance.                                                       *)
LEMMA RejectedRightly ==
  Parsed /\ outcome \in {"Unexpected loop end", "Unclosed loop"} => ~Balanced(Source)
<1> DEFINE rejected == outcome \in {"Unexpected loop end", "Unclosed loop"}
<1> SUFFICES ASSUME Parsed, rejected PROVE ~Balanced(Source)
  OBVIOUS
<1> HIDE DEF rejected
<1>1. text \in Seq(P!Char) /\ R!RecognisesBalanced
  BY SourcesAssumption DEF Parsed, R!IInv, R!TypeOK
<1>2. Len(text) \in Nat
  BY <1>1, LenProperties
<1>3. PICK i \in 0 .. Len(text) : Depth(text, i) < 0 \/ (i = Len(text) /\ Depth(text, i) > 0)
  <2>1. \/ current \in 1 .. Len(text) /\ R!Depth(text, current) < 0
        \/ R!Depth(text, Len(text)) > 0
    BY <1>1 DEF R!RecognisesBalanced, rejected
  <2>2. CASE current \in 1 .. Len(text) /\ R!Depth(text, current) < 0
    <3>1. current \in 0 .. Len(text)
      BY <1>2, <2>2
    <3> QED
      BY <2>2, <3>1, SameBrackets
  <2>3. CASE R!Depth(text, Len(text)) > 0
    <3>1. Len(text) \in 0 .. Len(text)
      BY <1>2
    <3> QED
      BY <2>3, <3>1, SameBrackets
  <2> QED
    BY <2>1, <2>2, <2>3
<1> DEFINE t == text
           symbols == P!parsable_chars
           src == Kept(t, symbols)[Len(t)]
           n == Len(Kept(t, symbols)[i])
<1>4. src = Source
  <2>1. Kept(text, P!parsable_chars) = P!Kept(text, P!parsable_chars)
    BY DEF Kept, P!Kept
  <2> QED
    BY <2>1 DEF Source, P!WithoutComments
<1>5. n \in 0 .. Len(src) /\ Depth(src, n) = Depth(text, i) /\ (i = Len(text) => n = Len(src))
  <2>1. t \in Seq(P!Char) /\ {"[", "]"} \subseteq symbols
    BY <1>1 DEF P!parsable_chars
  <2>2. src = Kept(t, symbols)[Len(t)]
    OBVIOUS
  <2>3. i = Len(text) => n = Len(src)
    OBVIOUS
  <2> HIDE DEF t, symbols, src
  <2>4. \A j \in 0 .. Len(t) : /\ Len(Kept(t, symbols)[j]) \in 0 .. Len(src)
                               /\ Depth(src, Len(Kept(t, symbols)[j])) = Depth(t, j)
    BY <2>1, <2>2, KeptDepth
  <2>5. i \in 0 .. Len(t) /\ t = text
    BY DEF t
  <2> QED
    BY <2>3, <2>4, <2>5
<1>6. Depth(src, n) < 0 \/ (n = Len(src) /\ Depth(src, n) > 0)
  BY <1>3, <1>5
<1>7. Depth(src, n) \in Int
  BY <1>1, <1>5, DepthStep
<1> HIDE DEF src, n
<1>8. ~Balanced(src)
  <2> DEFINE d == Depth(src, n)
  <2>1. d \in Int /\ (d < 0 \/ (n = Len(src) /\ d > 0))
    BY <1>6, <1>7
  <2>2. Balanced(src) => d >= 0 /\ (n = Len(src) => d = 0)
    BY <1>5 DEF Balanced, NeverNegative
  <2> HIDE DEF d
  <2> QED
    BY <2>1, <2>2
<1> QED
  BY <1>4, <1>8

(* The next instruction, and where it is in the source.                    *)
LEMMA Now ==
  ASSUME IInv, Control, status # "idle", NEW i, i = blocks[block][next]
  PROVE  /\ SourcePosition = i.at /\ MachineStatus = status
         /\ i \in InstructionUpTo(Len(blocks))
         /\ Says(blocks, Source, block, next, i)
<1> DEFINE S == InstructionUpTo(Len(blocks))
           T == Seq(S)
           b == blocks[block]
<1>1. blocks \in Seq(T) /\ Code(blocks, Source) /\ block \in DOMAIN blocks /\ next \in DOMAIN b
  BY DEF IInv, Inv, Module, Translation, Control
<1>2. i \in S
  <2> HIDE DEF T, b
  <2>1. b \in T
    BY <1>1, SeqTypes DEF b
  <2>2. i = b[next]
    BY DEF b
  <2> HIDE DEF S
  <2> QED
    BY <1>1, <2>1, <2>2, SeqTypes DEF T
<1>3. Says(blocks, Source, block, next, i)
  BY <1>1 DEF Code
<1>4. SourcePosition = i.at /\ MachineStatus = status
  BY DEF Control, SourcePosition, MachineStatus
<1> QED
  BY <1>2, <1>3, <1>4

(* Behind an instruction that does not end its block comes the next one,   *)
(* which belongs to the next symbol.                                       *)
LEMMA Proceeds ==
  ASSUME IInv, Control, status # "idle", NEW i, i = blocks[block][next],
         i.op \notin G!Terminators
  PROVE  /\ next + 1 \in DOMAIN blocks[block] /\ blocks[block][next + 1].at = After(i)
         /\ next + 1 # 1
<1> DEFINE S == InstructionUpTo(Len(blocks))
           T == Seq(S)
           b == blocks[block]
<1>1. /\ blocks \in Seq(T) /\ Code(blocks, Source) /\ block \in DOMAIN blocks
      /\ next \in DOMAIN b /\ Closed(b)
  BY DEF IInv, Inv, Module, Translation, Control
<1>2. DOMAIN b = 1 .. Len(b) /\ Len(b) \in Nat
  <2> HIDE DEF T, b
  <2>1. b \in T
    BY <1>1, SeqTypes DEF b
  <2> HIDE DEF S
  <2> QED
    BY <2>1, SeqTypes DEF T
<1>3. next # Len(b)
  BY <1>1 DEF Closed, Last
<1>4. next + 1 \in DOMAIN b /\ next + 1 # 1 /\ (next + 1) - 1 = next
  BY <1>1, <1>2, <1>3
<1>5. b[next + 1].at = Place(blocks, Source, block, next + 1)
  BY <1>1, <1>4 DEF Code
<1> QED
  BY <1>4, <1>5 DEF Place

(* A branch goes to a block with instructions.                             *)
LEMMA Begun ==
  ASSUME IInv, generated, NEW to \in DOMAIN blocks
  PROVE  1 \in DOMAIN blocks[to] /\ blocks[to][1].at = Due(blocks, Source, to)
<1> DEFINE S == InstructionUpTo(Len(blocks))
           T == Seq(S)
           b == blocks[to]
<1>1. blocks \in Seq(T) /\ Code(blocks, Source) /\ b # <<>>
  BY DEF IInv, Inv, Module, Translation, Closed
<1>2. 1 \in DOMAIN b
  <2> HIDE DEF T, b
  <2>1. b \in T
    BY <1>1, SeqTypes DEF b
  <2> HIDE DEF S
  <2> QED
    BY <1>1, <2>1, SeqTypes DEF T
<1> QED
  BY <1>1, <1>2 DEF Code, Place

(* Where the program is after a step to the next instruction, ...          *)
LEMMA Advances ==
  ASSUME IInv, Control, status = "running", status' = "running",
         UNCHANGED <<parserVars, generatorVars>>, X!ToNextInstruction,
         NEW i, i = blocks[block][next], i.op \notin G!Terminators
  PROVE  /\ Control' /\ next' # 1
         /\ SourcePosition' = After(i) /\ MachineStatus' = "running"
<1>1. block' = block /\ next' = next + 1 /\ blocks' = blocks /\ generated' = generated
  BY DEF X!ToNextInstruction, generatorVars
<1>2. next + 1 \in DOMAIN blocks[block] /\ blocks[block][next + 1].at = After(i) /\ next + 1 # 1
  BY Proceeds
<1>3. generated /\ block \in DOMAIN blocks
  BY DEF Control
<1>4. Control'
  BY <1>1, <1>2, <1>3 DEF Control
<1>5. SourcePosition' = After(i) /\ MachineStatus' = "running"
  BY <1>1, <1>2 DEF SourcePosition, MachineStatus
<1> QED
  BY <1>1, <1>2, <1>4, <1>5

(* ... after a branch, ...                                                 *)
LEMMA Branches ==
  ASSUME IInv, Control, status = "running", status' = "running",
         UNCHANGED <<parserVars, generatorVars>>, NEW to \in DOMAIN blocks, X!Jump(to)
  PROVE  /\ Control' /\ block' = to
         /\ SourcePosition' = Due(blocks, Source, to) /\ MachineStatus' = "running"
<1>1. block' = to /\ next' = 1 /\ blocks' = blocks /\ generated' = generated
  BY DEF X!Jump, generatorVars
<1>2. generated
  BY DEF Control
<1>3. 1 \in DOMAIN blocks[to] /\ blocks[to][1].at = Due(blocks, Source, to)
  BY <1>2, Begun
<1>4. Control'
  BY <1>1, <1>2, <1>3 DEF Control
<1>5. SourcePosition' = Due(blocks, Source, to) /\ MachineStatus' = "running"
  BY <1>1, <1>3 DEF SourcePosition, MachineStatus
<1> QED
  BY <1>1, <1>4, <1>5

(* ... and when it stops.                                                  *)
LEMMA Stops ==
  ASSUME Control, status = "running", status' \in {"exited", "faulted"},
         UNCHANGED <<parserVars, generatorVars, block, next>>
  PROVE  Control' /\ SourcePosition' = SourcePosition /\ MachineStatus' = status'
<1>1. UNCHANGED <<block, next, blocks, generated>>
  BY DEF generatorVars
<1> QED
  BY <1>1 DEF Control, SourcePosition, MachineStatus

LEMMA SourceKept ==
  ASSUME UNCHANGED parserVars PROVE Source' = Source
  BY DEF parserVars, Source, P!WithoutComments

(* The setup of the tape executes no symbol.                               *)
LEMMA TapeBeginImplements ==
  ASSUME IInv, Execution, UNCHANGED <<parserVars, generatorVars>>, X!TapeBegin
  PROVE  Execution' /\ UNCHANGED L!machineVars
<1> DEFINE i == blocks[block][next]
<1>1. status = "running" /\ i.op = "tapeBegin" /\ X!ToNextInstruction
      /\ ptr' = 0 /\ UNCHANGED <<tape, stdin, stdout, status>>
  BY DEF X!TapeBegin, X!Executing, X!current
<1>2. Control /\ Data
  BY DEF Execution
<1>3. SourcePosition = i.at /\ MachineStatus = "running" /\ block = 1 /\ next = 1
  BY <1>1, <1>2, Now DEF Says
<1>4. Control' /\ next' # 1 /\ SourcePosition' = After(i) /\ MachineStatus' = "running"
  BY <1>1, <1>2, Advances DEF G!Terminators
<1>5. After(i) = i.at
  BY <1>1 DEF After
<1>6. ptr' = ptr /\ Data'
  BY <1>1, <1>2, <1>3, <1>4 DEF Data
<1>7. Source' = Source
  BY SourceKept
<1> QED
  BY <1>1, <1>3, <1>4, <1>5, <1>6, <1>7 DEF L!machineVars, Execution

LEMMA AddImplements ==
  ASSUME IInv, Execution, UNCHANGED <<parserVars, generatorVars>>, X!Add
  PROVE  Execution' /\ L!Change
<1> DEFINE i == blocks[block][next]
<1>1. status = "running" /\ i.op = "add" /\ X!ToNextInstruction
      /\ UNCHANGED <<ptr, stdin, stdout, status>>
  BY DEF X!Add, X!Executing, X!current
<1>2. Control /\ Data
  BY DEF Execution
<1>3. /\ SourcePosition = i.at /\ MachineStatus = "running"
      /\ i \in InstructionUpTo(Len(blocks)) /\ Says(blocks, Source, block, next, i)
  BY <1>1, <1>2, Now
<1>4. i.amount \in {-1, 1} /\ i.at \in 1 .. Len(Source)
      /\ Source[i.at] = IF i.amount = 1 THEN "+" ELSE "-"
  BY <1>1, <1>3 DEF Says, InstructionUpTo
<1>5. Control' /\ next' # 1 /\ SourcePosition' = After(i) /\ MachineStatus' = "running"
  BY <1>1, <1>2, Advances DEF G!Terminators
<1>6. After(i) = i.at + 1
  BY <1>1 DEF After
<1>7. PICK cell \in Load(tape, ptr) :
        tape' = Store(tape, ptr, X!Incremented(cell, i.amount))
  BY SameMemory DEF X!Add, X!current
<1>8. cell \in Cell
  BY <1>2, <1>7, MemoryTypes DEF Data
<1> DEFINE value == (cell + (IF Source[i.at] = "+" THEN 1 ELSE CellValues - 1)) % CellValues
<1>9. X!Incremented(cell, i.amount) = value /\ value \in Cell
  <2>1. CASE i.amount = 1
    BY <1>4, <1>8, <2>1, Wraps DEF X!Incremented
  <2>2. CASE i.amount = -1
    <3>1. Source[i.at] # "+"
      BY <1>4, <2>2
    <3> QED
      BY <1>8, <2>2, <3>1, Wraps DEF X!Incremented
  <2> QED
    BY <1>4, <2>1, <2>2
<1>10. tape' = Store(tape, ptr, value) /\ tape' \in [Tape -> Cell]
  BY <1>2, <1>7, <1>9, MemoryTypes DEF Data
<1>11. Data'
  BY <1>1, <1>2, <1>5, <1>10 DEF Data
<1>12. Source' = Source
  BY SourceKept
<1>13. L!Running({"+", "-"})
  BY <1>3, <1>4 DEF L!Running, L!Symbol
<1>14. cell \in L!Load(tape, ptr) /\ tape' = L!Store(tape, ptr, value)
  BY <1>7, <1>10, SameMemory
<1>15. value = (cell + (IF L!Symbol = "+" THEN 1 ELSE CellValues - 1)) % CellValues
  BY <1>3 DEF L!Symbol
<1> HIDE DEF value, i
<1>16. L!Change
  BY <1>1, <1>3, <1>5, <1>6, <1>12, <1>13, <1>14, <1>15 DEF L!Change
<1> QED
  BY <1>5, <1>11, <1>16 DEF Execution

LEMMA MoveImplements ==
  ASSUME IInv, Execution, UNCHANGED <<parserVars, generatorVars>>, X!Move
  PROVE  Execution' /\ L!Move
<1> DEFINE i == blocks[block][next]
<1>1. status = "running" /\ i.op = "move" /\ X!ToNextInstruction
      /\ ptr' = ptr + i.amount /\ UNCHANGED <<tape, stdin, stdout, status>>
  BY DEF X!Move, X!Executing, X!current
<1>2. Control /\ Data
  BY DEF Execution
<1>3. /\ SourcePosition = i.at /\ MachineStatus = "running"
      /\ i \in InstructionUpTo(Len(blocks)) /\ Says(blocks, Source, block, next, i)
  BY <1>1, <1>2, Now
<1>4. i.amount \in {-1, 1} /\ i.at \in 1 .. Len(Source)
      /\ Source[i.at] = IF i.amount = 1 THEN ">" ELSE "<"
  BY <1>1, <1>3 DEF Says, InstructionUpTo
<1>5. Control' /\ next' # 1 /\ SourcePosition' = After(i) /\ MachineStatus' = "running"
  BY <1>1, <1>2, Advances DEF G!Terminators
<1>6. After(i) = i.at + 1
  BY <1>1 DEF After
<1>7. ptr' = IF Source[i.at] = ">" THEN ptr + 1 ELSE ptr - 1
  <2>1. CASE i.amount = 1
    BY <1>1, <1>4, <2>1
  <2>2. CASE i.amount = -1
    <3>1. Source[i.at] # ">"
      BY <1>4, <2>2
    <3>2. ptr \in Int
      BY <1>2 DEF Data
    <3> QED
      BY <1>1, <2>2, <3>1, <3>2
  <2> QED
    BY <1>4, <2>1, <2>2
<1>8. Data'
  <2>1. ptr' \in Int
    BY <1>2, <1>7 DEF Data
  <2> QED
    BY <1>1, <1>2, <1>5, <2>1 DEF Data
<1>9. Source' = Source
  BY SourceKept
<1>10. L!Running({">", "<"})
  BY <1>3, <1>4 DEF L!Running, L!Symbol
<1>11. L!Symbol = Source[i.at]
  BY <1>3 DEF L!Symbol
<1> HIDE DEF i
<1>12. L!Move
  BY <1>1, <1>3, <1>5, <1>6, <1>7, <1>9, <1>10, <1>11 DEF L!Move
<1> QED
  BY <1>5, <1>8, <1>12 DEF Execution

(* What getchar may leave of the input, and what is stored of its result:  *)
(* the next byte, or 0.                                                    *)
LEMMA GetcharReads ==
  ASSUME stdin \in Seq(Cell), NEW result \in X!GetcharResults
  PROVE  \/ /\ stdin # <<>> /\ result.rest = Tail(stdin)
            /\ X!InputValue(result.value) = Head(stdin) /\ Head(stdin) \in Cell
         \/ /\ result.rest = stdin
            /\ X!InputValue(result.value) = 0
<1>1. PICK call \in X!ReadCalls :
        /\ result.rest = call.rest
        /\ result.value = IF X!ReadSucceeded(call) THEN X!ReadValue(call.byte) ELSE -1
  BY DEF X!GetcharResults
<1>2. X!ReadSucceeded(call) <=> call.ok /\ call.count = 1
  <2>1. CASE target = "linux"
    BY <2>1 DEF X!ReadSucceeded, X!LinuxReadSucceeded, X!BytesRead
  <2>2. CASE target # "linux"
    BY <2>2 DEF X!ReadSucceeded, X!IoSucceeded
  <2> QED
    BY <2>1, <2>2
<1>3. \/ /\ stdin # <<>> /\ call.ok /\ call.count = 1
         /\ call.byte = Head(stdin) /\ call.rest = Tail(stdin)
      \/ ~(call.ok /\ call.count = 1) /\ call.rest = stdin
  BY <1>1 DEF X!ReadCalls
<1>4. CASE /\ stdin # <<>> /\ call.ok /\ call.count = 1
           /\ call.byte = Head(stdin) /\ call.rest = Tail(stdin)
  <2>1. Head(stdin) \in Cell
    BY <1>4
  <2>2. Head(stdin) % CellValues = Head(stdin) /\ Head(stdin) # -1
    <3> DEFINE h == Head(stdin)
    <3>1. h \in Cell
      BY <2>1
    <3> HIDE DEF h
    <3>2. h % CellValues = h
      BY <3>1, Wraps
    <3>3. h # -1
      BY <3>1, MemoryAssumption DEF Cell
    <3> QED
      BY <3>2, <3>3 DEF h
  <2>3. result.value = Head(stdin)
    BY <1>1, <1>2, <1>4 DEF X!ReadValue
  <2>4. X!InputValue(result.value) = Head(stdin)
    BY <2>2, <2>3 DEF X!InputValue
  <2> QED
    BY <1>1, <1>4, <2>1, <2>4
<1>5. CASE ~(call.ok /\ call.count = 1) /\ call.rest = stdin
  <2>1. result.value = -1
    BY <1>1, <1>2, <1>5
  <2>2. X!InputValue(result.value) = 0
    BY <2>1 DEF X!InputValue
  <2> QED
    BY <1>1, <1>5, <2>2
<1> QED
  BY <1>3, <1>4, <1>5

LEMMA CallGetcharImplements ==
  ASSUME IInv, Execution, UNCHANGED <<parserVars, generatorVars>>, X!CallGetchar
  PROVE  Execution' /\ L!Read
<1> DEFINE i == blocks[block][next]
<1>1. status = "running" /\ i.op = "call" /\ i.callee = "getchar" /\ X!ToNextInstruction
      /\ Mapped(ptr) /\ UNCHANGED <<ptr, stdout, status>>
  BY SameMemory DEF X!CallGetchar, X!Calling, X!Executing, X!current
<1>2. Control /\ Data
  BY DEF Execution
<1>3. /\ SourcePosition = i.at /\ MachineStatus = "running"
      /\ Says(blocks, Source, block, next, i)
  BY <1>1, <1>2, Now
<1>4. i.at \in 1 .. Len(Source) /\ Source[i.at] = ","
  BY <1>1, <1>3 DEF Says
<1>5. Control' /\ next' # 1 /\ SourcePosition' = After(i) /\ MachineStatus' = "running"
  BY <1>1, <1>2, Advances DEF G!Terminators
<1>6. After(i) = i.at + 1
  BY <1>1 DEF After
<1>7. PICK result \in X!GetcharResults :
        stdin' = result.rest /\ tape' = Store(tape, ptr, X!InputValue(result.value))
  BY SameMemory DEF X!CallGetchar
<1>8. \/ /\ stdin # <<>> /\ stdin' = Tail(stdin)
         /\ tape' = Store(tape, ptr, Head(stdin)) /\ Head(stdin) \in Cell
      \/ stdin' = stdin /\ tape' = Store(tape, ptr, 0)
  BY <1>2, <1>7, GetcharReads DEF Data
<1>9. Data'
  <2>1. 0 \in Cell
    BY MemoryAssumption DEF Cell
  <2>2. tape' \in [Tape -> Cell]
    BY <1>2, <1>8, <2>1, MemoryTypes DEF Data
  <2>3. stdin' \in Seq(Cell)
    BY <1>2, <1>8 DEF Data
  <2> QED
    BY <1>1, <1>2, <1>5, <2>2, <2>3 DEF Data
<1>10. Source' = Source
  BY SourceKept
<1>11. L!Running({","})
  <2>1. SourcePosition <= Len(Source)
    <3>1. i.at \in 1 .. Len(Source) /\ SourcePosition = i.at
      BY <1>3, <1>4
    <3> HIDE DEF i
    <3> QED
      BY <3>1
  <2>2. Source[SourcePosition] = ","
    BY <1>3, <1>4
  <2> QED
    BY <1>3, <2>1, <2>2 DEF L!Running, L!Symbol
<1>12. /\ L!Mapped(ptr)
       /\ \/ stdin # <<>> /\ tape' = L!Store(tape, ptr, Head(stdin)) /\ stdin' = Tail(stdin)
          \/ tape' = L!Store(tape, ptr, 0) /\ UNCHANGED stdin
  BY <1>1, <1>8, SameMemory
<1> HIDE DEF i
<1>13. L!Read
  BY <1>1, <1>3, <1>5, <1>6, <1>10, <1>11, <1>12 DEF L!Read
<1> QED
  BY <1>5, <1>9, <1>13 DEF Execution

LEMMA CallPutcharImplements ==
  ASSUME IInv, Execution, UNCHANGED <<parserVars, generatorVars>>, X!CallPutchar
  PROVE  Execution' /\ L!Write
<1> DEFINE i == blocks[block][next]
<1>1. status = "running" /\ i.op = "call" /\ i.callee = "putchar" /\ X!ToNextInstruction
      /\ UNCHANGED <<ptr, tape, stdin, status>>
  BY DEF X!CallPutchar, X!Calling, X!Executing, X!current
<1>2. Control /\ Data
  BY DEF Execution
<1>3. /\ SourcePosition = i.at /\ MachineStatus = "running"
      /\ Says(blocks, Source, block, next, i)
  BY <1>1, <1>2, Now
<1>4. i.at \in 1 .. Len(Source) /\ Source[i.at] = "."
  BY <1>1, <1>3 DEF Says
<1>5. Control' /\ next' # 1 /\ SourcePosition' = After(i) /\ MachineStatus' = "running"
  BY <1>1, <1>2, Advances DEF G!Terminators
<1>6. After(i) = i.at + 1
  BY <1>1 DEF After
<1>7. \E byte \in L!Load(tape, ptr) :
        \/ Len(stdout) < Capacity /\ stdout' = Append(stdout, byte)
        \/ UNCHANGED stdout
  BY SameMemory DEF X!CallPutchar
<1>8. Data'
  BY <1>1, <1>2, <1>5 DEF Data
<1>9. Source' = Source
  BY SourceKept
<1>10. L!Running({"."})
  BY <1>3, <1>4 DEF L!Running, L!Symbol
<1> HIDE DEF i
<1>11. L!Write
  BY <1>1, <1>3, <1>5, <1>6, <1>7, <1>9, <1>10 DEF L!Write
<1> QED
  BY <1>5, <1>8, <1>11 DEF Execution

(* A branch into a condition executes no symbol; the one back is the "]".  *)
LEMMA BrImplements ==
  ASSUME IInv, Execution, UNCHANGED <<parserVars, generatorVars>>, X!Br
  PROVE  Execution' /\ (L!Return \/ UNCHANGED L!machineVars)
<1> DEFINE i == blocks[block][next]
<1>1. status = "running" /\ i.op = "br" /\ X!Jump(i.to)
      /\ UNCHANGED <<ptr, tape, stdin, stdout, status>>
  BY DEF X!Br, X!Executing, X!current
<1>2. Control /\ Data
  BY DEF Execution
<1>3. /\ SourcePosition = i.at /\ MachineStatus = "running"
      /\ Says(blocks, Source, block, next, i)
  BY <1>1, <1>2, Now
<1>4. /\ i.at \in 1 .. Len(Source) /\ i.to \in DOMAIN blocks /\ i.to % 3 = 2
      /\ \/ Source[i.at] = "[" /\ blocks[i.to][1].at = i.at
         \/ Source[i.at] = "]" /\ blocks[i.to][1].at = Matching(Source, i.at)
  BY <1>1, <1>3 DEF Says
<1>5. /\ Control' /\ block' = i.to
      /\ SourcePosition' = Due(blocks, Source, i.to) /\ MachineStatus' = "running"
  BY <1>1, <1>2, <1>4, Branches
<1>6. Due(blocks, Source, i.to) = blocks[i.to][1].at /\ i.to # 1
  BY <1>4 DEF Due
<1>7. Data'
  BY <1>1, <1>2, <1>5, <1>6 DEF Data
<1>8. Source' = Source
  BY SourceKept
<1>9. CASE Source[i.at] = "[" /\ blocks[i.to][1].at = i.at
  BY <1>1, <1>2, <1>3, <1>5, <1>6, <1>7, <1>8, <1>9 DEF L!machineVars, Execution
<1>10. CASE Source[i.at] = "]" /\ blocks[i.to][1].at = Matching(Source, i.at)
  <2>1. L!Running({"]"})
    <3>1. i.at \in 1 .. Len(Source) /\ SourcePosition = i.at
      BY <1>3, <1>4
    <3>2. SourcePosition <= Len(Source)
      <4> HIDE DEF i
      <4> QED
        BY <3>1
    <3> QED
      BY <1>3, <1>10, <3>2 DEF L!Running, L!Symbol
  <2>2. SourcePosition' = L!Matching(Source, SourcePosition)
    BY <1>3, <1>5, <1>6, <1>10, SameBrackets
  <2>3. L!Return
    BY <1>1, <1>3, <1>5, <1>8, <2>1, <2>2 DEF L!Return
  <2> QED
    BY <1>5, <1>7, <2>3 DEF Execution
<1> QED
  BY <1>4, <1>9, <1>10

LEMMA CondBrImplements ==
  ASSUME IInv, Execution, UNCHANGED <<parserVars, generatorVars>>, X!CondBr
  PROVE  Execution' /\ L!Enter
<1> DEFINE i == blocks[block][next]
<1>1. /\ status = "running" /\ i.op = "condbr"
      /\ UNCHANGED <<ptr, tape, stdin, stdout, status>>
  BY DEF X!CondBr, X!Executing, X!current
<1>2. Control /\ Data
  BY DEF Execution
<1>3. /\ SourcePosition = i.at /\ MachineStatus = "running"
      /\ Says(blocks, Source, block, next, i)
  BY <1>1, <1>2, Now
<1>4. i.at \in 1 .. Len(Source) /\ Source[i.at] = "[" /\ block % 3 = 2
  BY <1>1, <1>3 DEF Says
<1>5. block \in DOMAIN blocks /\ next \in DOMAIN blocks[block] /\ DOMAIN blocks = 1 .. Len(blocks)
      /\ Len(blocks) \in Nat
  <2> DEFINE T == Seq(InstructionUpTo(Len(blocks)))
  <2>1. blocks \in Seq(T)
    BY DEF IInv, Inv, Module
  <2> HIDE DEF T
  <2>2. DOMAIN blocks = 1 .. Len(blocks) /\ Len(blocks) \in Nat
    BY <2>1, SeqTypes
  <2> QED
    BY <1>1, <1>2, <2>2 DEF Control
<1>6. /\ next = 1 /\ block + 2 \in DOMAIN blocks
      /\ i.then = block + 1 /\ i.else = block + 2
  <2>1. Condition(blocks, block)
    BY <1>1, <1>2, <1>4, <1>5 DEF IInv, Translation, Code
  <2> QED
    BY <1>5, <2>1 DEF Condition
<1>7. /\ block + 1 \in DOMAIN blocks /\ (block + 1) % 3 = 0
      /\ (block + 2) % 3 = 1 /\ block + 1 # 1 /\ block + 2 # 1
      /\ (block + 1) - 1 = block /\ (block + 2) - 2 = block
  <2> DEFINE n == Len(blocks)
  <2>1. n \in Nat /\ block \in 1 .. n /\ block + 2 \in 1 .. n /\ block % 3 = 2
    BY <1>4, <1>5, <1>6
  <2> HIDE DEF n
  <2>2. /\ block + 1 \in 1 .. n /\ (block + 1) % 3 = 0
        /\ (block + 2) % 3 = 1 /\ block + 1 # 1 /\ block + 2 # 1
        /\ (block + 1) - 1 = block /\ (block + 2) - 2 = block
    BY <2>1
  <2> QED
    BY <1>5, <2>2 DEF n
<1>8. /\ Due(blocks, Source, block + 1) = i.at + 1
      /\ Due(blocks, Source, block + 2) = Matching(Source, i.at) + 1
  BY <1>6, <1>7 DEF Due
<1>9. PICK cell \in Load(tape, ptr) : X!Jump(IF cell # 0 THEN i.then ELSE i.else)
  BY SameMemory DEF X!CondBr, X!current
<1> DEFINE to == IF cell # 0 THEN i.then ELSE i.else
<1>10. to \in DOMAIN blocks /\ to # 1
       /\ Due(blocks, Source, to) = IF cell # 0 THEN i.at + 1 ELSE Matching(Source, i.at) + 1
  BY <1>6, <1>7, <1>8
<1>11. X!Jump(to)
  BY <1>9
<1> HIDE DEF to
<1>12. /\ Control' /\ block' = to
       /\ SourcePosition' = Due(blocks, Source, to) /\ MachineStatus' = "running"
  BY <1>1, <1>2, <1>10, <1>11, Branches
<1>13. Data'
  BY <1>1, <1>2, <1>10, <1>12 DEF Data
<1>14. Source' = Source
  BY SourceKept
<1>15. L!Running({"["})
  <2>1. i.at \in 1 .. Len(Source) /\ SourcePosition = i.at
    BY <1>3, <1>4
  <2>2. SourcePosition <= Len(Source)
    <3> HIDE DEF i
    <3> QED
      BY <2>1
  <2> QED
    BY <1>3, <1>4, <2>2 DEF L!Running, L!Symbol
<1>16. /\ cell \in L!Load(tape, ptr)
       /\ SourcePosition' = IF cell # 0 THEN SourcePosition + 1
                            ELSE L!Matching(Source, SourcePosition) + 1
  BY <1>3, <1>9, <1>10, <1>12, SameMemory, SameBrackets
<1> HIDE DEF i
<1>17. L!Enter
  BY <1>1, <1>3, <1>12, <1>14, <1>15, <1>16 DEF L!Enter
<1> QED
  BY <1>12, <1>13, <1>17 DEF Execution

LEMMA FaultImplements ==
  ASSUME IInv, Execution, UNCHANGED <<parserVars, generatorVars>>, X!Fault
  PROVE  Execution' /\ L!Fault
<1> DEFINE i == blocks[block][next]
<1>1. /\ status = "running" /\ i.op \in {"add", "call", "condbr"}
      /\ ptr \notin Tape /\ status' = "faulted"
      /\ UNCHANGED <<block, next, ptr, tape, stdout>>
  BY SameMemory DEF X!Fault, X!current
<1>2. Control /\ Data
  BY DEF Execution
<1>3. /\ SourcePosition = i.at /\ MachineStatus = "running"
      /\ Says(blocks, Source, block, next, i)
  BY <1>1, <1>2, Now
<1>4. /\ i.at \in 1 .. Len(Source) /\ Source[i.at] \in {"+", "-", ",", ".", "["}
      /\ (i.op = "call" /\ i.callee = "getchar") => Source[i.at] = ","
  BY <1>1, <1>3 DEF Says
<1>5. Control' /\ SourcePosition' = SourcePosition /\ MachineStatus' = "faulted"
  BY <1>1, <1>2, Stops
<1>6. \/ stdin' = stdin
      \/ Source[i.at] = "," /\ stdin # <<>> /\ stdin' = Tail(stdin)
  <2>1. CASE ~X!Calling("getchar") /\ UNCHANGED stdin
    BY <2>1
  <2>2. CASE X!Calling("getchar") /\ \E result \in X!GetcharResults : stdin' = result.rest
    <3>1. Source[i.at] = ","
      BY <1>4, <2>2 DEF X!Calling, X!Executing, X!current
    <3>2. stdin' = stdin \/ (stdin # <<>> /\ stdin' = Tail(stdin))
      BY <1>2, <2>2, GetcharReads DEF Data
    <3> QED
      BY <3>1, <3>2
  <2> QED
    BY <2>1, <2>2 DEF X!Fault
<1>7. Data'
  <2>1. stdin \in Seq(Cell)
    BY <1>2 DEF Data
  <2>2. stdin' = stdin \/ (stdin # <<>> /\ stdin' = Tail(stdin))
    BY <1>6
  <2>3. stdin' \in Seq(Cell)
    BY <2>1, <2>2
  <2> QED
    BY <1>1, <1>2, <2>3 DEF Data
<1>8. Source' = Source
  BY SourceKept
<1>9. L!Running({"+", "-", ",", ".", "["})
  <2>1. i.at \in 1 .. Len(Source) /\ SourcePosition = i.at
    BY <1>3, <1>4
  <2>2. SourcePosition <= Len(Source)
    <3> HIDE DEF i
    <3> QED
      BY <2>1
  <2> QED
    BY <1>3, <1>4, <2>2 DEF L!Running, L!Symbol
<1>10. L!Symbol = Source[i.at] /\ ptr \notin L!Tape
  BY <1>1, <1>3, SameMemory DEF L!Symbol
<1> HIDE DEF i
<1>11. L!Fault
  BY <1>1, <1>5, <1>6, <1>8, <1>9, <1>10 DEF L!Fault
<1> QED
  BY <1>5, <1>7, <1>11 DEF Execution

LEMMA RetImplements ==
  ASSUME IInv, Execution, UNCHANGED <<parserVars, generatorVars>>, X!Ret
  PROVE  Execution' /\ L!Exit
<1> DEFINE i == blocks[block][next]
<1>1. /\ status = "running" /\ i.op = "ret" /\ status' = "exited"
      /\ UNCHANGED <<block, next, ptr, tape, stdin, stdout>>
  BY DEF X!Ret, X!Executing, X!current
<1>2. Control /\ Data
  BY DEF Execution
<1>3. /\ SourcePosition = i.at /\ MachineStatus = "running"
      /\ Says(blocks, Source, block, next, i)
  BY <1>1, <1>2, Now
<1>4. SourcePosition = Len(Source) + 1
  BY <1>1, <1>3 DEF Says
<1>5. Len(Source) \in Nat
  <2>1. program # 0
    BY <1>1, <1>2 DEF IInv, Inv, Module, Control
  <2>2. Source \in Seq(P!parsable_chars)
    BY <2>1, TreeLies DEF IInv
  <2> QED
    BY <2>2, LenProperties
<1>6. Control' /\ SourcePosition' = SourcePosition /\ MachineStatus' = "exited"
  BY <1>1, <1>2, Stops
<1>7. Data'
  BY <1>1, <1>2 DEF Data
<1>8. Source' = Source
  BY SourceKept
<1>9. SourcePosition > Len(Source)
  BY <1>4, <1>5
<1> HIDE DEF i
<1>10. L!Exit
  BY <1>1, <1>3, <1>6, <1>8, <1>9 DEF L!Exit
<1> QED
  BY <1>6, <1>7, <1>10 DEF Execution

(* The source of a program that runs balances.                             *)
LEMMA StartImplements ==
  ASSUME IInv, Execution, UNCHANGED <<parserVars, generatorVars>>, X!Start
  PROVE  Execution' /\ L!Compile
<1>1. /\ generated /\ status = "idle" /\ status' = "running"
      /\ UNCHANGED <<block, next, ptr, tape, stdin, stdout, blocks>>
      /\ generated' = generated
  BY DEF X!Start, generatorVars
<1>2. Control /\ Data /\ block = 1 /\ next = 1
  BY <1>1 DEF Execution, Control
<1>3. program # 0 /\ outcome = "parsed" /\ blocks # <<>>
  BY <1>1 DEF IInv, Inv, Module, Parsed
<1>4. SourcePosition = 1 /\ MachineStatus = "compiling"
  BY <1>1, <1>3 DEF SourcePosition, MachineStatus
<1>5. 1 \in DOMAIN blocks
  <2> DEFINE T == Seq(InstructionUpTo(Len(blocks)))
  <2>1. blocks \in Seq(T)
    BY DEF IInv, Inv, Module
  <2> HIDE DEF T
  <2> QED
    BY <1>3, <2>1, SeqTypes
<1>6. 1 \in DOMAIN blocks[1] /\ blocks[1][1].at = 1
  BY <1>1, <1>5, Begun DEF Due
<1>7. Control' /\ Data'
  BY <1>1, <1>2, <1>5, <1>6 DEF Control, Data
<1>8. SourcePosition' = 1 /\ MachineStatus' = "running"
  BY <1>1, <1>2, <1>6 DEF SourcePosition, MachineStatus
<1>9. Balanced(Source)
  <2> DEFINE N == NodeUpTo(Len(sequences))
  <2>1. PICK posn : Whole(sequences, program, posn, Source, R!Sym)
    BY <1>3, TreeLies DEF IInv
  <2>2. Source \in Seq(P!parsable_chars) /\ sequences \in Seq(Seq(N))
    BY <1>3, TreeLies DEF IInv, Inv, Tree
  <2> HIDE DEF N
  <2> QED
    BY <2>1, <2>2, WholeBalances
<1>10. Source' = Source
  BY SourceKept
<1>11. L!Compile
  BY <1>1, <1>4, <1>8, <1>9, <1>10, SameBrackets DEF L!Compile
<1> QED
  BY <1>7, <1>11 DEF Execution

(* A step of the parser is seen only when it rejects the source.           *)
LEMMA ParseImplements ==
  ASSUME IInv, Execution, Parse, Parsed'
  PROVE  Execution' /\ (L!Compile \/ UNCHANGED L!machineVars)
<1> DEFINE rejected == outcome \in {"Unexpected loop end", "Unclosed loop"}
<1>1. P!Next /\ UNCHANGED <<blocks, generated, block, next, ptr, tape, stdin, stdout, status>>
  BY DEF Parse, generatorVars, programVars
<1>2. outcome = "parsing" /\ text' = text
  BY <1>1 DEF P!Next, P!PushLeaf, P!EnterLoop, P!LeaveLoop, P!UnexpectedLoopEnd,
              P!UnclosedLoop, P!Finish, P!Throw
<1>3. ~generated /\ Control /\ Data
  BY <1>2 DEF IInv, Inv, Tree, Module, Execution
<1>4. status = "idle"
  BY <1>3 DEF Control
<1>5. Control' /\ Data'
  BY <1>1, <1>3, <1>4 DEF Control, Data
<1>6. SourcePosition = 1 /\ SourcePosition' = 1
  BY <1>1, <1>4 DEF SourcePosition
<1>7. Source' = Source
  BY <1>2 DEF Source, P!WithoutComments
<1>8. MachineStatus = "compiling" /\ MachineStatus' = IF rejected' THEN "rejected" ELSE "compiling"
  BY <1>1, <1>2, <1>4 DEF MachineStatus
<1>9. rejected' => ~Balanced(Source)
  <2>1. (Parsed /\ rejected => ~Balanced(Source))'
    BY RejectedRightly, PTL
  <2>2. Balanced(Source)' <=> Balanced(Source)
    BY <1>7
  <2> QED
    BY <2>1, <2>2
<1> HIDE DEF rejected
<1>10. CASE rejected'
  <2>1. L!Compile
    BY <1>1, <1>6, <1>7, <1>8, <1>9, <1>10, SameBrackets DEF L!Compile
  <2> QED
    BY <1>5, <2>1 DEF Execution
<1>11. CASE ~rejected'
  BY <1>1, <1>5, <1>6, <1>7, <1>8, <1>11 DEF L!machineVars, Execution
<1> QED
  BY <1>10, <1>11

(* The generator works while the program does not run.                     *)
LEMMA GenerateImplements ==
  ASSUME IInv, Execution, Generate
  PROVE  Execution' /\ UNCHANGED L!machineVars
<1>1. G!Next /\ UNCHANGED <<text, outcome, block, next, ptr, tape, stdin, stdout, status>>
  BY DEF Generate, programVars
<1>2. ~generated
  <2>1. generated => visits = <<>> /\ blocks # <<>>
    BY DEF IInv, Inv, Module
  <2> QED
    BY <1>1, <2>1 DEF G!Next, G!VisitProgram, G!VisitLeaf, G!VisitLoop, G!FinishLoop,
                      G!FinishProgram, G!Visiting
<1>3. Control /\ Data /\ status = "idle"
  BY <1>2 DEF Execution, Control
<1>4. Control' /\ Data'
  BY <1>1, <1>3 DEF Control, Data
<1>5. UNCHANGED <<SourcePosition, MachineStatus, Source>>
  BY <1>1, <1>3 DEF SourcePosition, MachineStatus, Source, P!WithoutComments
<1> QED
  BY <1>1, <1>4, <1>5 DEF L!machineVars, Execution

LEMMA ExecutionInit == Init => Execution /\ L!Start({Source}, Inputs)
<1> SUFFICES ASSUME Init PROVE Execution /\ L!Start({Source}, Inputs)
  OBVIOUS
<1>1. /\ block = 1 /\ next = 1 /\ ptr = 0 /\ stdin \in Inputs /\ stdout = <<>>
      /\ status = "idle" /\ outcome = "parsing" /\ tape = [p \in Tape |-> 0]
  BY SameMemory DEF Init, X!Init, X!ZeroTape, P!Init
<1>2. tape \in [Tape -> Cell] /\ stdin \in Seq(Cell)
  <2>1. 0 \in Cell
    BY MemoryAssumption DEF Cell
  <2> QED
    BY <1>1, <2>1, InputsAssumption
<1>3. Execution
  BY <1>1, <1>2 DEF Execution, Control, Data
<1>4. SourcePosition = 1 /\ MachineStatus = "compiling"
  BY <1>1 DEF SourcePosition, MachineStatus
<1>5. L!Start({Source}, Inputs)
  BY <1>1, <1>4, SameMemory DEF L!Start
<1> QED
  BY <1>3, <1>5

LEMMA StepImplements ==
  IInv /\ Execution /\ [Next]_vars => Execution' /\ [L!Step]_L!machineVars
<1> SUFFICES ASSUME IInv, Execution, [Next]_vars
             PROVE  Execution' /\ [L!Step]_L!machineVars
  OBVIOUS
<1>1. CASE Parse
  <2>1. Parsed'
    BY ParsedStep DEF IInv
  <2> QED
    BY <1>1, <2>1, ParseImplements DEF L!Step
<1>2. CASE Generate
  BY <1>2, GenerateImplements
<1>3. CASE Run
  <2>1. UNCHANGED <<parserVars, generatorVars>> /\ X!Execute
    BY <1>3 DEF Run
  <2> QED
    BY <2>1, StartImplements, TapeBeginImplements, AddImplements, MoveImplements,
       CallGetcharImplements, CallPutcharImplements, BrImplements, CondBrImplements,
       FaultImplements, RetImplements DEF X!Execute, L!Step
<1>4. CASE UNCHANGED vars
  <2>1. /\ UNCHANGED <<block, next, ptr, tape, stdin, stdout, status>>
        /\ UNCHANGED <<text, outcome, blocks, generated>>
    BY <1>4 DEF vars, programVars, parserVars, generatorVars
  <2>2. UNCHANGED <<SourcePosition, MachineStatus, Source>>
    BY <2>1 DEF SourcePosition, MachineStatus, Source, P!WithoutComments
  <2>3. Control' /\ Data'
    BY <2>1 DEF Execution, Control, Data
  <2> QED
    BY <2>1, <2>2, <2>3 DEF L!machineVars, Execution
<1> QED
  BY <1>1, <1>2, <1>3, <1>4 DEF Next

(* The compiler implements the language: for every source text and every   *)
(* input, a text whose brackets do not balance is rejected and any other   *)
(* runs step by step as Brainfuck.tla says.                                *)
THEOREM LanguageCorrect == Spec => ImplementsLanguage
<1>1. Init => Execution /\ L!Start({Source}, Inputs)
  BY ExecutionInit
<1>2. IInv /\ Execution /\ [Next]_vars => Execution' /\ [L!Step]_L!machineVars
  BY StepImplements
<1> QED
  BY <1>1, <1>2, IInvAlways, PTL DEF Spec, ImplementsLanguage, L!Machine

=============================================================================
