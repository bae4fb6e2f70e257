------------------------------- MODULE Parser -------------------------------
(***************************************************************************)
(* The recursive-descent parser of src/bfc/core/parser.cpp.                *)
(*                                                                         *)
(* One element of `frames' is one active call: the first is parse_sequence *)
(* and holds its vector `operations', every further one is a parse_loop.   *)
(* All calls share one iterator, `current'.  A Sequence that has been      *)
(* constructed is an element of `sequences'; a Loop node owns its inner    *)
(* Sequence by the index of that element.                                  *)
(***************************************************************************)
EXTENDS Lexer, Brackets, SequencesExt

CONSTANT Texts  \* the source texts that may be compiled
ASSUME TextsAssumption == Texts \subseteq Seq(Char)

VARIABLES
  text,       \* the input stream
  current,    \* position of the shared TokenIterator
  frames,     \* the vectors `operations' of the active calls, outermost first
  sequences,  \* the ast::Sequence objects constructed so far
  program,    \* index of the Sequence owned by ast::Program, 0 before there is one
  outcome     \* how parse() ended, "parsing" while it has not

vars == <<text, current, frames, sequences, program, outcome>>

LeafOps == {"Inc", "Dec", "MoveLeft", "MoveRight", "Read", "Print"}
Node == [op : LeafOps] \cup [op : {"Loop"}, inner : Nat \ {0}]
Outcomes == {"parsing", "parsed", "Unexpected loop end", "Unclosed loop"}

(* Variant: the pointer moves are swapped. *)
MakeNodeSwapped(t) ==
  CASE t = "INC"       -> [op |-> "Inc"]
    [] t = "DEC"       -> [op |-> "Dec"]
    [] t = "INC_PTR"   -> [op |-> "MoveLeft"]
    [] t = "DEC_PTR"   -> [op |-> "MoveRight"]
    [] t = "READ_CHAR" -> [op |-> "Read"]
    [] OTHER           -> [op |-> "Print"]

(* make_node, which the callers never hand a bracket. *)
MakeNode(t) ==
  CASE t = "INC"       -> [op |-> "Inc"]
    [] t = "DEC"       -> [op |-> "Dec"]
    [] t = "INC_PTR"   -> [op |-> "MoveRight"]
    [] t = "DEC_PTR"   -> [op |-> "MoveLeft"]
    [] t = "READ_CHAR" -> [op |-> "Read"]
    [] OTHER           -> [op |-> "Print"]

AtEnd == current = End(text)
token == Deref(text, current)

(* Variant: one parse_loop call is taken for parse_sequence. *)
InLoopOffByOne == Len(frames) > 2

InLoop == Len(frames) > 1

(* operations.push_back(node) in the innermost of the calls `calls'. *)
PushBack(calls, node) ==
  Append(Front(calls), Append(Last(calls), node))

(* current++ *)
Advance == current' = Increment(text, current)

(* Variants of the caller's step: parse_loop has already stepped over its  *)
(* bracket; the position is raw arithmetic on the stream; the statement    *)
(* has no step, for parse_loop is taken to have stepped over its bracket.  *)
CallerAdvanceTwice == current' = Increment(text, Increment(text, current))
CallerAdvanceRaw == current' = current + 2
CallerStays == UNCHANGED current

(* The step of the caller's for statement after parse_loop has returned.   *)
CallerAdvance == Advance

-----------------------------------------------------------------------------
Init ==
  /\ text \in Texts
  /\ current = Begin(text)
  /\ frames = << <<>> >>
  /\ sequences = <<>>
  /\ program = 0
  /\ outcome = "parsing"

(* The default branch of either switch: a node for one token. *)
PushLeaf ==
  /\ outcome = "parsing" /\ ~AtEnd
  /\ token \notin {"LOOP_START", "LOOP_END"}
  /\ frames' = PushBack(frames, MakeNode(token))
  /\ Advance
  /\ UNCHANGED <<text, sequences, program, outcome>>

(* LOOP_START: call parse_loop, which steps over its own bracket. *)
EnterLoop ==
  /\ outcome = "parsing" /\ ~AtEnd
  /\ token = "LOOP_START"
  /\ frames' = Append(frames, <<>>)
  /\ Advance
  /\ UNCHANGED <<text, sequences, program, outcome>>

(* LOOP_END in parse_loop: it returns the Loop with the iterator on the    *)
(* closing bracket; the caller pushes it and its own for statement steps   *)
(* over the bracket.                                                       *)
LeaveLoop ==
  /\ outcome = "parsing" /\ ~AtEnd
  /\ token = "LOOP_END" /\ InLoop
  /\ sequences' = Append(sequences, Last(frames))
  /\ frames' = PushBack(Front(frames), [op |-> "Loop", inner |-> Len(sequences) + 1])
  /\ CallerAdvance
  /\ UNCHANGED <<text, program, outcome>>

(* An exception destroys the vectors of every active call. *)
Throw(message) ==
  /\ outcome' = message
  /\ frames' = <<>>
  /\ sequences' = <<>>
  /\ UNCHANGED <<text, current, program>>

(* LOOP_END in parse_sequence. *)
UnexpectedLoopEnd ==
  /\ outcome = "parsing" /\ ~AtEnd
  /\ token = "LOOP_END" /\ ~InLoop
  /\ Throw("Unexpected loop end")

(* Variant: parse_loop does not look for the end of the input. *)
UnclosedLoopIgnored == AtEnd /\ InLoop /\ UNCHANGED vars

(* The end of the input in parse_loop. *)
UnclosedLoop ==
  /\ outcome = "parsing" /\ AtEnd
  /\ InLoop
  /\ Throw("Unclosed loop")

(* The end of the input in parse_sequence: parse() returns the Program. *)
Finish ==
  /\ outcome = "parsing" /\ AtEnd
  /\ ~InLoop
  /\ sequences' = Append(sequences, frames[1])
  /\ program' = Len(sequences) + 1
  /\ frames' = <<>>
  /\ outcome' = "parsed"
  /\ UNCHANGED <<text, current>>

Next == PushLeaf \/ EnterLoop \/ LeaveLoop \/ UnexpectedLoopEnd \/ UnclosedLoop \/ Finish

Spec == Init /\ [][Next]_vars

(* parse() is an ordinary call: while it can go on, it does. *)
FairSpec == Spec /\ WF_vars(Next)

-----------------------------------------------------------------------------
TypeOK ==
  /\ text \in Texts
  /\ current \in 1 .. End(text)
  /\ frames \in Seq(Seq(Node))
  /\ sequences \in Seq(Seq(Node))
  /\ program \in Nat
  /\ outcome \in Outcomes
  /\ outcome = "parsing" => frames # <<>>

(* The iterator rests only on tokens, so operator* never throws "Unknown   *)
(* symbol slipped into tokenizer" (lexer.cpp:69).                          *)
IteratorOnToken == ~AtEnd => token \in Token

(* The calls that are active are exactly the loops that the text before    *)
(* the iterator leaves open: nothing is skipped or read twice when         *)
(* parse_loop hands the shared iterator back to its caller.                *)
NestingMatchesText ==
  outcome = "parsing" =>
    /\ Len(frames) = 1 + Depth(text, current - 1)
    /\ NeverNegative(text, current - 1)

(* parse() accepts exactly the texts whose brackets balance, and each      *)
(* rejection names what is wrong with the text: "Unexpected loop end" is   *)
(* thrown at the first bracket that closes nothing, "Unclosed loop" when   *)
(* every prefix is fine and the whole text leaves a loop open.             *)
RecognisesBalanced ==
  /\ outcome = "parsed" => Balanced(text)
  /\ outcome = "Unexpected loop end" =>
       /\ current \in 1 .. Len(text)
       /\ NeverNegative(text, current - 1)
       /\ Depth(text, current) < 0
  /\ outcome = "Unclosed loop" =>
       NeverNegative(text, Len(text)) /\ Depth(text, Len(text)) > 0

-----------------------------------------------------------------------------
(* The source characters a node stands for. *)
Symbol(op) ==
  CASE op = "Inc" -> "+" [] op = "Dec" -> "-" [] op = "MoveLeft" -> "<"
    [] op = "MoveRight" -> ">" [] op = "Read" -> "," [] op = "Print" -> "."

(* Writing back a vector of nodes, given how to write inner Sequences. *)
Render(operations, written) ==
  FlattenSeq([k \in DOMAIN operations |->
    IF operations[k].op = "Loop"
      THEN <<"[">> \o written[operations[k].inner] \o <<"]">>
      ELSE <<Symbol(operations[k].op)>>])

(* Every constructed Sequence, written back as source. *)
Written ==
  LET written[s \in DOMAIN sequences] == Render(sequences[s], written)
  IN  written

(* The part of the tree built so far, written back: open loops have their  *)
(* opening bracket only.                                                   *)
WrittenFrames ==
  FlattenSeq([f \in DOMAIN frames |->
    (IF f = 1 THEN <<>> ELSE <<"[">>) \o Render(frames[f], Written)])

(* The first i characters of the text without their comments. *)
WithoutComments(i) == Kept(text, parsable_chars)[i]

(* The tree keeps the program: written back as source it is, at every      *)
(* moment, the text read so far without its comments, and the finished     *)
(* Program is the whole text without its comments.                         *)
TreeKeepsText ==
  /\ outcome = "parsing" =>
       WrittenFrames = WithoutComments(current - 1)
  /\ outcome = "parsed" =>
       Written[program] = WithoutComments(Len(text))

(* A text is finite, so parse() ends: it returns or throws.                *)
ParseEnds == <>(outcome # "parsing")
=============================================================================
