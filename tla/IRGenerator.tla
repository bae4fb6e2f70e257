----------------------------- MODULE IRGenerator -----------------------------
(***************************************************************************)
(* IRGenerator of src/bfc/llvm/ir_generator.cpp: an ast::Visitor that      *)
(* emits the function "main" through an llvm::IRBuilder.                   *)
(*                                                                         *)
(* The tree comes from the parser: `sequences' are its ast::Sequence       *)
(* objects and `program' the one the Program owns.  One element of         *)
(* `visits' is one active visit(Sequence), with the blocks of the          *)
(* visit(Loop) that called it.  The loads, arithmetic and stores of one    *)
(* visit are one instruction of the model; branches and the return are     *)
(* instructions of their own, because the shape of the blocks is what can  *)
(* go wrong.  `position' is a history variable: it counts the nodes and    *)
(* loop ends translated so far, in source order, and each instruction      *)
(* carries it in `at', like a debug location.                              *)
(***************************************************************************)
EXTENDS Integers, Sequences, SequencesExt

VARIABLES
  sequences, program,  \* the tree
  blocks,    \* the basic blocks of main, each a sequence of instructions
  insert,    \* the block where the builder inserts, 0 before there is one
  visits,    \* the active visits, outermost first
  declared,  \* the functions getOrInsertFunction has put in the module
  position,  \* history: source symbols translated so far
  generated  \* generate() has returned

irVars == <<blocks, insert, visits, declared, position, generated>>

Functions == {"getchar", "putchar"}
Terminators == {"br", "condbr", "ret"}
Terminated(b) == blocks[b] # <<>> /\ Last(blocks[b]).op \in Terminators

(* What visit emits for a leaf at source position loc. *)
Instruction(op, loc) ==
  CASE op = "Inc"       -> [op |-> "add", amount |-> 1, at |-> loc]
    [] op = "Dec"       -> [op |-> "add", amount |-> -1, at |-> loc]
    [] op = "MoveLeft"  -> [op |-> "move", amount |-> -1, at |-> loc]
    [] op = "MoveRight" -> [op |-> "move", amount |-> 1, at |-> loc]
    [] op = "Read"      -> [op |-> "call", callee |-> "getchar", at |-> loc]
    [] op = "Print"     -> [op |-> "call", callee |-> "putchar", at |-> loc]

(* builder_.Create...: append to the insertion block. *)
Emit(instruction) == [blocks EXCEPT ![insert] = Append(@, instruction)]

(* Variant: every leaf declares both functions. *)
GetOrInsertBoth(instruction) == Functions

(* module_.getOrInsertFunction for the function an instruction calls. *)
GetOrInsert(instruction) ==
  IF instruction.op = "call" THEN declared \cup {instruction.callee} ELSE declared

Visit(seq, condition, end) ==
  [seq |-> seq, next |-> 1, condition |-> condition, end |-> end]

Top == Last(visits)
Visiting == visits # <<>>
AtSequenceEnd == Top.next > Len(sequences[Top.seq])
CurrentNode == sequences[Top.seq][Top.next]
ToNextNode == Append(Front(visits), [Top EXCEPT !.next = @ + 1])

-----------------------------------------------------------------------------
Init ==
  /\ blocks = <<>>
  /\ insert = 0
  /\ visits = <<>>
  /\ declared = {}
  /\ position = 0
  /\ generated = FALSE

(* visit(Program): the entry block, with the data pointer set to the start *)
(* of the tape.                                                            *)
VisitProgram ==
  /\ program # 0 /\ blocks = <<>>
  /\ blocks' = << <<[op |-> "tapeBegin", at |-> 1]>> >>
  /\ insert' = 1
  /\ visits' = <<Visit(program, 0, 0)>>
  /\ UNCHANGED <<sequences, program, declared, position, generated>>

(* visit(Inc), visit(Dec), visit(MoveLeft), visit(MoveRight), visit(Read), *)
(* visit(Print).                                                           *)
VisitLeaf ==
  /\ Visiting /\ ~AtSequenceEnd
  /\ CurrentNode.op # "Loop"
  /\ LET instruction == Instruction(CurrentNode.op, position + 1) IN
       /\ blocks' = Emit(instruction)
       /\ declared' = GetOrInsert(instruction)
  /\ position' = position + 1
  /\ visits' = ToNextNode
  /\ UNCHANGED <<sequences, program, insert, generated>>

(* visit(Loop) up to the visit of its inner Sequence: three blocks, a      *)
(* branch into the condition, and the test of the cell.                    *)
VisitLoop ==
  /\ Visiting /\ ~AtSequenceEnd
  /\ CurrentNode.op = "Loop"
  /\ LET condition == Len(blocks) + 1
         body == Len(blocks) + 2
         end == Len(blocks) + 3
         test == [op |-> "condbr", then |-> body, else |-> end, at |-> position + 1]
     IN
       /\ blocks' = Emit([op |-> "br", to |-> condition, at |-> position + 1])
                      \o << <<test>>, <<>>, <<>> >>
       /\ insert' = body
       /\ visits' = Append(ToNextNode, Visit(CurrentNode.inner, condition, end))
  /\ position' = position + 1
  /\ UNCHANGED <<sequences, program, declared, generated>>

(* Variant: the back edge leaves from the block that began the body, not   *)
(* from where its translation ended.                                       *)
BackEdgeFromBody ==
  [blocks EXCEPT ![Top.condition + 1] =
     Append(@, [op |-> "br", to |-> Top.condition, at |-> position + 1])]

(* The back edge, from wherever the translation of the body has ended. *)
BackEdge == Emit([op |-> "br", to |-> Top.condition, at |-> position + 1])

(* Variant: the builder stays in the block that ends with the back edge. *)
AfterLoopStays == insert

(* SetInsertPoint(end) *)
AfterLoop == Top.end

(* The rest of visit(Loop), after the visit of its inner Sequence. *)
FinishLoop ==
  /\ Visiting /\ AtSequenceEnd
  /\ Len(visits) > 1
  /\ blocks' = BackEdge
  /\ insert' = AfterLoop
  /\ visits' = Front(visits)
  /\ position' = position + 1
  /\ UNCHANGED <<sequences, program, declared, generated>>

(* The rest of visit(Program): return 0. *)
FinishProgram ==
  /\ Visiting /\ AtSequenceEnd
  /\ Len(visits) = 1
  /\ blocks' = Emit([op |-> "ret", value |-> 0, at |-> position + 1])
  /\ visits' = <<>>
  /\ generated' = TRUE
  /\ UNCHANGED <<sequences, program, insert, declared, position>>

Next == VisitProgram \/ VisitLeaf \/ VisitLoop \/ FinishLoop \/ FinishProgram

-----------------------------------------------------------------------------
Targets(instruction) ==
  CASE instruction.op = "br"     -> {instruction.to}
    [] instruction.op = "condbr" -> {instruction.then, instruction.else}
    [] OTHER                     -> {}

(* Nothing is ever emitted behind a terminator, branches go to blocks that *)
(* exist and never to the entry block: what llvm::verifyFunction asks of a *)
(* block, at every moment of the generation.                               *)
BlocksWellFormed ==
  \A b \in DOMAIN blocks : \A k \in DOMAIN blocks[b] :
    /\ blocks[b][k].op \in Terminators => k = Len(blocks[b])
    /\ Targets(blocks[b][k]) \subseteq 2 .. Len(blocks)

(* The blocks that still lack a terminator are exactly the insertion block *)
(* and the ends of the loops being visited, all of them different; when    *)
(* generate() returns every block has its terminator.                      *)
PendingEnds == {visits[v].end : v \in 2 .. Len(visits)}

OpenBlocksArePending ==
  LET open == {b \in DOMAIN blocks : ~Terminated(b)} IN
    /\ Visiting => /\ open = {insert} \cup PendingEnds
                   /\ insert \notin PendingEnds
                   /\ Cardinality(PendingEnds) = Len(visits) - 1
    /\ generated => open = {}

(* The module has the shape of the tree: three blocks for every loop, a    *)
(* condition entered from before the loop and from the end of its body, a  *)
(* body and an end entered from the condition alone, and a declaration for *)
(* each runtime function that is called and for no other.                  *)
Predecessors(b) == {p \in DOMAIN blocks : b \in Targets(Last(blocks[p]))}

Calls ==
  {i.callee : i \in {i \in UNION {Range(blocks[b]) : b \in DOMAIN blocks} : i.op = "call"}}

ModuleMatchesTree ==
  generated =>
    /\ Len(blocks) = 1 + 3 * (Len(sequences) - 1)
    /\ \A b \in 2 .. Len(blocks) :
         Cardinality(Predecessors(b)) = IF b % 3 = 2 THEN 2 ELSE 1
    /\ declared = Calls
=============================================================================
