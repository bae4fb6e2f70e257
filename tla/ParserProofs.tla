---------------------------- MODULE ParserProofs ----------------------------
(***************************************************************************)
(* The parser accepts exactly the balanced texts, for every set of texts.  *)
(***************************************************************************)
EXTENDS Parser, LayoutProofs

-----------------------------------------------------------------------------
(* Facts about the lexer. *)

(* find_next returns the first stop at or after a position of the text. *)
LEMMA FindNextStops ==
  ASSUME NEW t \in Seq(Char), NEW i \in 1 .. End(t)
  PROVE  /\ FindNext(t, i) \in i .. End(t)
         /\ Stop(t, FindNext(t, i))
         /\ \A j \in i .. FindNext(t, i) - 1 : ~Stop(t, j)
<1> DEFINE T == {k \in i .. End(t) : Stop(t, k)}
<1>1. End(t) \in T /\ T \subseteq Nat
  BY DEF End, Stop
<1>2. PICK x \in T : \A y \in T : x <= y
  BY <1>1, LeastNumber
<1>3. \A j \in i .. x-1 : ~Stop(t, j)
  BY <1>2 DEF End
<1>4. \E k \in i .. End(t) : Stop(t, k) /\ \A j \in i .. k-1 : ~Stop(t, j)
  BY <1>2, <1>3
<1> QED
  BY <1>4 DEF FindNext

-----------------------------------------------------------------------------
(* Comments and tokens. *)

(* Comments do not change the depth. *)
LEMMA DepthOfComments ==
  ASSUME NEW t \in Seq(Char), NEW i \in 1 .. End(t), NEW k \in i .. End(t),
         \A j \in i .. k-1 : ~Stop(t, j)
  PROVE  \A j \in i-1 .. k-1 : Depth(t, j) = Depth(t, i - 1)
<1>1. ASSUME NEW j \in i-1 .. k-1 PROVE Depth(t, j) = Depth(t, i - 1)
  <2>1. ASSUME NEW m \in i .. j PROVE t[m] # "[" /\ t[m] # "]"
    <3>1. m \in i .. k-1
      BY LenProperties DEF End
    <3>2. t[m] \notin parsable_chars
      BY <3>1 DEF Stop
    <3> QED
      BY <3>2 DEF parsable_chars
  <2>2. ASSUME NEW c \in {"[", "]"}
        PROVE  Occurrences(t, j, c) = Occurrences(t, i - 1, c)
    BY <2>1 DEF Occurrences, End
  <2> QED
    BY <2>2 DEF Depth
<1> QED
  BY <1>1

(* The step of the iterator from a token to the next or to the end. *)
LEMMA IncrementSteps ==
  ASSUME NEW t \in Seq(Char), NEW i \in 1 .. Len(t)
  PROVE  /\ Increment(t, i) \in i+1 .. End(t)
         /\ Stop(t, Increment(t, i))
         /\ \A j \in i .. Increment(t, i) - 1 : Depth(t, j) = Depth(t, i)
<1>1. i + 1 \in 1 .. End(t) /\ Increment(t, i) = FindNext(t, i + 1)
  BY DEF End, Increment
<1>2. /\ FindNext(t, i + 1) \in i+1 .. End(t)
      /\ Stop(t, FindNext(t, i + 1))
      /\ \A j \in i+1 .. FindNext(t, i + 1) - 1 : ~Stop(t, j)
  BY <1>1, FindNextStops
<1>3. \A j \in (i+1)-1 .. FindNext(t, i + 1) - 1 : Depth(t, j) = Depth(t, (i+1) - 1)
  BY <1>1, <1>2, DepthOfComments
<1> QED
  BY <1>1, <1>2, <1>3

(* What lies behind the iterator after a step. *)
LEMMA IncrementDepth ==
  ASSUME NEW t \in Seq(Char), NEW i \in 1 .. Len(t), NEW k, k = Increment(t, i)
  PROVE  /\ Depth(t, i - 1) \in Int
         /\ Depth(t, i) = Depth(t, i - 1) +
              (IF t[i] = "[" THEN 1 ELSE IF t[i] = "]" THEN -1 ELSE 0)
         /\ Depth(t, k - 1) = Depth(t, i)
         /\ NeverNegative(t, i - 1) /\ Depth(t, i) >= 0 => NeverNegative(t, k - 1)
<1>1. /\ k \in i+1 .. End(t)
      /\ \A j \in i .. k - 1 : Depth(t, j) = Depth(t, i)
  BY IncrementSteps
<1>2. Len(t) \in Nat /\ i \in Int /\ k \in Int /\ i < k
  BY <1>1, LenProperties DEF End
<1>3. /\ Depth(t, i - 1) \in Int
      /\ Depth(t, i) = Depth(t, i - 1) +
           (IF t[i] = "[" THEN 1 ELSE IF t[i] = "]" THEN -1 ELSE 0)
  <2>1. i \in 0 .. Len(t) /\ i - 1 \in 0 .. Len(t) /\ i > 0
    BY <1>2
  <2> QED
    BY <2>1, DepthStep
<1>4. Depth(t, k - 1) = Depth(t, i)
  <2>1. k - 1 \in i .. k - 1
    BY <1>2
  <2> QED
    BY <1>1, <2>1
<1>5. ASSUME NeverNegative(t, i - 1), Depth(t, i) >= 0 PROVE NeverNegative(t, k - 1)
  <2>1. ASSUME NEW j \in 0 .. k - 1 PROVE Depth(t, j) >= 0
    <3>1. CASE j \in 0 .. i - 1
      BY <1>5, <3>1 DEF NeverNegative
    <3>2. CASE j \in i .. k - 1
      BY <1>1, <1>5, <3>2
    <3> QED
      BY <1>2, <3>1, <3>2
  <2> QED
    BY <2>1 DEF NeverNegative
<1> QED
  BY <1>3, <1>4, <1>5

LEMMA BeginStops ==
  ASSUME NEW t \in Seq(Char)
  PROVE  /\ Begin(t) \in 1 .. End(t)
         /\ Stop(t, Begin(t))
         /\ \A j \in 0 .. Begin(t) - 1 : Depth(t, j) = 0
<1>1. 1 \in 1 .. End(t)
  BY DEF End
<1>2. /\ Begin(t) \in 1 .. End(t)
      /\ Stop(t, Begin(t))
      /\ \A j \in 1 .. Begin(t) - 1 : ~Stop(t, j)
  BY <1>1, FindNextStops DEF Begin
<1>3. \A j \in 1-1 .. Begin(t) - 1 : Depth(t, j) = Depth(t, 1 - 1)
  BY <1>1, <1>2, DepthOfComments
<1> QED
  BY <1>2, <1>3, DepthOfNothing

-----------------------------------------------------------------------------
(* Facts about the vectors of the active calls. *)

LEMMA PushBackType ==
  ASSUME NEW calls \in Seq(Seq(Node)), calls # <<>>, NEW node \in Node
  PROVE  /\ PushBack(calls, node) \in Seq(Seq(Node))
         /\ Len(PushBack(calls, node)) = Len(calls)
<1> DEFINE vector == Append(Last(calls), node)
<1>1. vector \in Seq(Node)
  BY LastType, AppendProperties
<1> HIDE DEF vector
<1> QED
  BY <1>1, LastReplaced DEF PushBack, vector

LEMMA OuterCalls ==
  ASSUME NEW calls \in Seq(Seq(Node)), Len(calls) > 1
  PROVE  /\ Front(calls) \in Seq(Seq(Node)) /\ Front(calls) # <<>>
         /\ Len(Front(calls)) = Len(calls) - 1
         /\ Last(calls) \in Seq(Node)
<1>1. Len(calls) \in Nat /\ calls # <<>>
  BY SeqTypes
<1>2. Front(calls) \in Seq(Seq(Node)) /\ Len(Front(calls)) = Len(calls) - 1
  BY <1>1, FrontType
<1>3. Last(calls) \in Seq(Node)
  BY <1>1, LastType
<1>4. Len(Front(calls)) > 0
  BY <1>1, <1>2
<1> QED
  BY <1>2, <1>3, <1>4, SeqTypes

-----------------------------------------------------------------------------
(* The inductive invariant: the iterator is on a token or at the end,      *)
(* which with the nesting of the calls determines the verdict of every     *)
(* step.                                                                   *)
IInv ==
  /\ TypeOK
  /\ Stop(text, current)
  /\ NestingMatchesText
  /\ RecognisesBalanced

LEMMA InitEstablishes == Init => IInv
<1> SUFFICES ASSUME Init PROVE IInv
  OBVIOUS
<1>1. text \in Seq(Char)
  BY TextsAssumption DEF Init
<1>2. current \in 1 .. End(text) /\ Stop(text, current)
      /\ \A j \in 0 .. current - 1 : Depth(text, j) = 0
  BY <1>1, BeginStops DEF Init
<1>3. << <<>> >> \in Seq(Seq(Node)) /\ << <<>> >> # <<>> /\ Len(<< <<>> >>) = 1
  OBVIOUS
<1>4. TypeOK
  BY <1>2, <1>3 DEF Init, TypeOK, Outcomes
<1>5. NestingMatchesText
  BY <1>2, <1>3 DEF Init, NestingMatchesText, NeverNegative, End
<1>6. RecognisesBalanced
  BY DEF Init, RecognisesBalanced
<1> QED
  BY <1>2, <1>4, <1>5, <1>6 DEF IInv

(* Before the end the iterator is on a token of the text. *)
LEMMA IteratorInText ==
  ASSUME IInv, ~AtEnd
  PROVE  /\ text \in Seq(Char) /\ Len(text) \in Nat
         /\ current \in 1 .. Len(text) /\ text[current] \in parsable_chars
<1>1. text \in Seq(Char) /\ current \in 1 .. End(text)
  BY TextsAssumption DEF IInv, TypeOK
<1>2. Len(text) \in Nat
  BY <1>1, LenProperties
<1>3. current # End(text)
  BY DEF AtEnd
<1>4. text[current] \in parsable_chars
  BY <1>3 DEF IInv, Stop
<1> QED
  BY <1>1, <1>2, <1>3, <1>4 DEF End

(* What a step of the iterator does to the text behind it. *)
LEMMA AdvanceMovesOn ==
  ASSUME IInv, outcome = "parsing", ~AtEnd, Advance, UNCHANGED text
  PROVE  /\ text \in Seq(Char) /\ text' = text
         /\ current \in 1 .. Len(text)
         /\ text[current] \in parsable_chars
         /\ current' \in current+1 .. End(text)
         /\ Stop(text, current')
         /\ Depth(text, current - 1) \in Int
         /\ Depth(text, current) = Depth(text, current - 1) +
              (IF text[current] = "[" THEN 1 ELSE IF text[current] = "]" THEN -1 ELSE 0)
         /\ Depth(text, current' - 1) = Depth(text, current)
         /\ Depth(text, current) >= 0 => NeverNegative(text, current' - 1)
<1>1. /\ text \in Seq(Char) /\ Len(text) \in Nat
      /\ current \in 1 .. Len(text) /\ text[current] \in parsable_chars
  BY IteratorInText
<1>2. current' = Increment(text, current) /\ text' = text
  BY DEF Advance
<1>3. /\ current' \in current+1 .. End(text)
      /\ Stop(text, current')
  BY <1>1, <1>2, IncrementSteps
<1>4. NeverNegative(text, current - 1)
  BY DEF IInv, NestingMatchesText
<1> QED
  BY <1>1, <1>2, <1>3, <1>4, IncrementDepth

(* The character behind each token. *)
LEMMA TokenCharacter ==
  ASSUME text[current] \in parsable_chars
  PROVE  /\ token \in Token
         /\ token = "LOOP_START" <=> text[current] = "["
         /\ token = "LOOP_END" <=> text[current] = "]"
BY DEF token, Token, Deref, parsable_chars

LEMMA PushLeafPreserves == IInv /\ PushLeaf => IInv'
<1> SUFFICES ASSUME IInv, PushLeaf PROVE IInv'
  OBVIOUS
<1>1. outcome = "parsing" /\ ~AtEnd /\ Advance /\ UNCHANGED text
  BY DEF PushLeaf
<1>2. text[current] # "[" /\ text[current] # "]"
  BY <1>1, AdvanceMovesOn, TokenCharacter DEF PushLeaf
<1>3. MakeNode(token) \in Node
  BY DEF MakeNode, Node, LeafOps
<1>4. /\ frames' \in Seq(Seq(Node)) /\ frames' # <<>>
      /\ Len(frames') = Len(frames)
  <2>1. frames \in Seq(Seq(Node)) /\ frames # <<>>
    BY <1>1 DEF IInv, TypeOK
  <2>2. frames' \in Seq(Seq(Node)) /\ Len(frames') = Len(frames)
    BY <2>1, <1>3, PushBackType DEF PushLeaf
  <2> QED
    BY <2>1, <2>2, EmptySeq
<1>5. Depth(text, current) = Depth(text, current - 1) /\ Depth(text, current) >= 0
  <2>1. NeverNegative(text, current - 1) /\ current - 1 \in 0 .. current - 1
    BY <1>1, AdvanceMovesOn DEF IInv, NestingMatchesText
  <2> QED
    BY <2>1, <1>1, <1>2, AdvanceMovesOn DEF NeverNegative
<1>6. TypeOK'
  BY <1>1, <1>4, AdvanceMovesOn DEF PushLeaf, IInv, TypeOK
<1>7. NestingMatchesText'
  <2>1. /\ text' = text /\ Depth(text, current' - 1) = Depth(text, current)
        /\ NeverNegative(text, current' - 1) /\ Depth(text, current - 1) \in Int
    BY <1>1, <1>5, AdvanceMovesOn
  <2>2. Len(frames) = 1 + Depth(text, current - 1)
    BY <1>1 DEF IInv, NestingMatchesText
  <2>3. Len(frames') = 1 + Depth(text, current' - 1)
    BY <1>4, <1>5, <2>1, <2>2
  <2> QED
    BY <2>1, <2>3 DEF NestingMatchesText
<1>8. RecognisesBalanced'
  BY <1>1 DEF PushLeaf, RecognisesBalanced
<1> QED
  BY <1>1, <1>6, <1>7, <1>8, AdvanceMovesOn DEF IInv

LEMMA EnterLoopPreserves == IInv /\ EnterLoop => IInv'
<1> SUFFICES ASSUME IInv, EnterLoop PROVE IInv'
  OBVIOUS
<1>1. outcome = "parsing" /\ ~AtEnd /\ Advance /\ UNCHANGED text
  BY DEF EnterLoop
<1>2. text[current] = "["
  BY <1>1, AdvanceMovesOn, TokenCharacter DEF EnterLoop
<1>3. /\ frames' \in Seq(Seq(Node)) /\ frames' # <<>>
      /\ Len(frames') = Len(frames) + 1
  BY <1>1, AppendProperties DEF EnterLoop, IInv, TypeOK
<1>4. Depth(text, current) = Depth(text, current - 1) + 1 /\ Depth(text, current) >= 0
  <2>1. NeverNegative(text, current - 1) /\ current - 1 \in 0 .. current - 1
    BY <1>1, AdvanceMovesOn DEF IInv, NestingMatchesText
  <2> QED
    BY <2>1, <1>1, <1>2, AdvanceMovesOn DEF NeverNegative
<1>5. TypeOK'
  BY <1>1, <1>3, AdvanceMovesOn DEF EnterLoop, IInv, TypeOK
<1>6. NestingMatchesText'
  <2>1. /\ text' = text /\ Depth(text, current' - 1) = Depth(text, current)
        /\ NeverNegative(text, current' - 1) /\ Depth(text, current - 1) \in Int
    BY <1>1, <1>4, AdvanceMovesOn
  <2>2. Len(frames) = 1 + Depth(text, current - 1)
    BY <1>1 DEF IInv, NestingMatchesText
  <2>3. Len(frames') = 1 + Depth(text, current' - 1)
    BY <1>3, <1>4, <2>1, <2>2
  <2> QED
    BY <2>1, <2>3 DEF NestingMatchesText
<1>7. RecognisesBalanced'
  BY <1>1 DEF EnterLoop, RecognisesBalanced
<1> QED
  BY <1>1, <1>5, <1>6, <1>7, AdvanceMovesOn DEF IInv

LEMMA LeaveLoopPreserves == IInv /\ LeaveLoop => IInv'
<1> SUFFICES ASSUME IInv, LeaveLoop PROVE IInv'
  OBVIOUS
<1>1. outcome = "parsing" /\ ~AtEnd /\ Advance /\ UNCHANGED text
  BY DEF LeaveLoop, CallerAdvance
<1>2. text[current] = "]"
  BY <1>1, AdvanceMovesOn, TokenCharacter DEF LeaveLoop
<1>3. /\ frames \in Seq(Seq(Node)) /\ Len(frames) > 1
      /\ sequences \in Seq(Seq(Node)) /\ Len(sequences) \in Nat
  BY LenProperties DEF LeaveLoop, InLoop, IInv, TypeOK
<1>10. Len(frames) \in Nat
  BY <1>3, LenProperties
<1>4. [op |-> "Loop", inner |-> Len(sequences) + 1] \in Node
  BY <1>3 DEF Node
<1>5. /\ frames' \in Seq(Seq(Node)) /\ frames' # <<>>
      /\ Len(frames') = Len(frames) - 1
      /\ sequences' \in Seq(Seq(Node))
  <2>1. /\ Front(frames) \in Seq(Seq(Node)) /\ Front(frames) # <<>>
        /\ Len(Front(frames)) = Len(frames) - 1
        /\ Last(frames) \in Seq(Node)
    BY <1>3, OuterCalls
  <2>2. frames' \in Seq(Seq(Node)) /\ Len(frames') = Len(Front(frames))
    BY <2>1, <1>4, PushBackType DEF LeaveLoop
  <2>3. sequences' \in Seq(Seq(Node))
    BY <2>1, <1>3, AppendProperties DEF LeaveLoop
  <2> QED
    BY <2>1, <2>2, <2>3, <1>3, EmptySeq, LenProperties
<1>6. Depth(text, current) = Depth(text, current - 1) - 1 /\ Depth(text, current) >= 0
  BY <1>1, <1>2, <1>3, AdvanceMovesOn, LenProperties DEF IInv, NestingMatchesText
<1>7. TypeOK'
  BY <1>1, <1>5, AdvanceMovesOn DEF LeaveLoop, IInv, TypeOK
<1>8. NestingMatchesText'
  <2>1. /\ text' = text /\ Depth(text, current' - 1) = Depth(text, current)
        /\ NeverNegative(text, current' - 1) /\ Depth(text, current - 1) \in Int
    BY <1>1, <1>6, AdvanceMovesOn
  <2>2. Len(frames) = 1 + Depth(text, current - 1)
    BY <1>1 DEF IInv, NestingMatchesText
  <2>3. Len(frames') = 1 + Depth(text, current' - 1)
    BY <1>5, <1>6, <2>1, <2>2
  <2> QED
    BY <2>1, <2>3 DEF NestingMatchesText
<1>9. RecognisesBalanced'
  BY <1>1 DEF LeaveLoop, RecognisesBalanced
<1> QED
  BY <1>1, <1>7, <1>8, <1>9, AdvanceMovesOn DEF IInv

(* A bracket that closes nothing takes the depth below zero. *)
LEMMA UnexpectedLoopEndPreserves == IInv /\ UnexpectedLoopEnd => IInv'
<1> SUFFICES ASSUME IInv, UnexpectedLoopEnd PROVE IInv'
  OBVIOUS
<1>1. /\ outcome = "parsing" /\ outcome' = "Unexpected loop end"
      /\ text' = text /\ current' = current /\ frames' = <<>> /\ sequences' = <<>>
      /\ program' = program
  BY DEF UnexpectedLoopEnd, Throw
<1>2. text \in Seq(Char) /\ current \in 1 .. Len(text) /\ text[current] \in parsable_chars
  BY IteratorInText DEF UnexpectedLoopEnd
<1>3. text[current] = "]"
  BY <1>2, TokenCharacter DEF UnexpectedLoopEnd
<1>4. Len(frames) = 1
  <2>1. frames \in Seq(Seq(Node)) /\ frames # <<>> /\ ~(Len(frames) > 1)
    BY <1>1 DEF UnexpectedLoopEnd, InLoop, IInv, TypeOK
  <2> DEFINE n == Len(frames)
  <2>2. n \in Nat \ {0} /\ ~(n > 1)
    BY <2>1, EmptySeq, LenProperties
  <2> HIDE DEF n
  <2>3. n = 1
    BY <2>2
  <2> QED
    BY <2>3 DEF n
<1>5. Depth(text, current) < 0
  <2>1. current \in 0 .. Len(text) /\ current - 1 \in 0 .. Len(text) /\ current > 0
    BY <1>2
  <2>2. Depth(text, current - 1) \in Int
        /\ Depth(text, current) = Depth(text, current - 1) - 1
    BY <1>2, <1>3, <2>1, DepthStep
  <2>3. 1 = 1 + Depth(text, current - 1)
    BY <1>1, <1>4 DEF IInv, NestingMatchesText
  <2> QED
    BY <2>2, <2>3
<1>6. TypeOK'
  BY <1>1, EmptySeq DEF IInv, TypeOK, Outcomes
<1>7. RecognisesBalanced'
  BY <1>1, <1>2, <1>5 DEF IInv, NestingMatchesText, RecognisesBalanced
<1> QED
  BY <1>1, <1>6, <1>7 DEF IInv, NestingMatchesText, Stop, End

(* At the end of the input the number of open calls is the final depth. *)
LEMMA EndPreserves == IInv /\ (UnclosedLoop \/ Finish) => IInv'
<1> SUFFICES ASSUME IInv, UnclosedLoop \/ Finish PROVE IInv'
  OBVIOUS
<1>1. /\ outcome = "parsing" /\ text' = text /\ current' = current /\ frames' = <<>>
      /\ current = Len(text) + 1
  BY DEF UnclosedLoop, Finish, Throw, AtEnd, End
<1>2. /\ text \in Seq(Char) /\ Len(text) \in Nat
      /\ frames \in Seq(Seq(Node)) /\ frames # <<>> /\ Len(frames) \in Nat \ {0}
      /\ sequences \in Seq(Seq(Node)) /\ Len(sequences) \in Nat
  <2>1. /\ text \in Seq(Char) /\ frames \in Seq(Seq(Node)) /\ frames # <<>>
        /\ sequences \in Seq(Seq(Node))
    BY <1>1, TextsAssumption DEF IInv, TypeOK
  <2> QED
    BY <2>1, EmptySeq, LenProperties
<1>3. /\ Len(frames) = 1 + Depth(text, Len(text))
      /\ NeverNegative(text, Len(text))
      /\ Depth(text, Len(text)) \in Int
  <2>1. current - 1 = Len(text) /\ Len(text) \in 0 .. Len(text)
    BY <1>1, <1>2
  <2> QED
    BY <1>1, <1>2, <2>1, DepthStep DEF IInv, NestingMatchesText
<1>4. CASE UnclosedLoop
  <2>1. outcome' = "Unclosed loop" /\ sequences' = <<>> /\ program' = program
        /\ Len(frames) > 1
    BY <1>4 DEF UnclosedLoop, Throw, InLoop
  <2>2. TypeOK'
    BY <1>1, <2>1, EmptySeq DEF IInv, TypeOK, Outcomes
  <2>3. Depth(text, Len(text)) > 0
    <3>1. /\ Len(frames) > 1 /\ Len(frames) = 1 + Depth(text, Len(text))
          /\ Depth(text, Len(text)) \in Int
      BY <1>3, <2>1
    <3> QED
      BY <3>1
  <2>4. RecognisesBalanced'
    BY <1>1, <1>3, <2>1, <2>3 DEF RecognisesBalanced
  <2> QED
    BY <1>1, <2>1, <2>2, <2>4 DEF IInv, NestingMatchesText, Stop, End
<1>5. CASE Finish
  <2>1. outcome' = "parsed" /\ program' \in Nat /\ sequences' \in Seq(Seq(Node))
    <3>1. frames[1] \in Seq(Node)
      BY <1>2, ElementOfSeq
    <3> QED
      BY <1>2, <1>5, <3>1, AppendProperties DEF Finish
  <2>2. Len(frames) = 1
    <3>1. ~(Len(frames) > 1)
      BY <1>5 DEF Finish, InLoop
    <3>2. Len(frames) \in Nat \ {0}
      BY <1>2
    <3> QED
      BY <3>1, <3>2
  <2>3. TypeOK'
    BY <1>1, <2>1, EmptySeq DEF IInv, TypeOK, Outcomes
  <2>4. RecognisesBalanced'
    <3>1. Depth(text, Len(text)) = 0
      <4>1. 1 = 1 + Depth(text, Len(text)) /\ Depth(text, Len(text)) \in Int
        BY <1>3, <2>2
      <4> QED
        BY <4>1
    <3> QED
      BY <1>1, <1>3, <2>1, <3>1 DEF RecognisesBalanced, Balanced
  <2> QED
    BY <1>1, <2>1, <2>3, <2>4 DEF IInv, NestingMatchesText, Stop, End
<1> QED
  BY <1>4, <1>5

LEMMA StepPreserves == IInv /\ [Next]_vars => IInv'
<1> SUFFICES ASSUME IInv, [Next]_vars PROVE IInv'
  OBVIOUS
<1>1. CASE UNCHANGED vars
  BY <1>1 DEF vars, IInv, TypeOK, NestingMatchesText, RecognisesBalanced, Stop, End
<1>2. CASE Next
  BY <1>2, PushLeafPreserves, EnterLoopPreserves, LeaveLoopPreserves,
     UnexpectedLoopEndPreserves, EndPreserves DEF Next
<1> QED
  BY <1>1, <1>2

(* The parser's state keeps its types, for every set of texts. *)
THEOREM TypeCorrect == Spec => []TypeOK
<1>1. IInv => TypeOK
  BY DEF IInv
<1> QED
  BY <1>1, InitEstablishes, StepPreserves, PTL DEF Spec

(* operator* never meets a character that is no token: the exception of    *)
(* lexer.cpp:69 is unreachable, for every set of texts.                    *)
THEOREM TokensOnly == Spec => []IteratorOnToken
<1>1. IInv => IteratorOnToken
  BY TokenCharacter DEF IInv, Stop, IteratorOnToken, AtEnd
<1> QED
  BY <1>1, InitEstablishes, StepPreserves, PTL DEF Spec

(* The active calls are the loops left open, for every set of texts. *)
THEOREM NestingCorrect == Spec => []NestingMatchesText
<1>1. IInv => NestingMatchesText
  BY DEF IInv
<1> QED
  BY <1>1, InitEstablishes, StepPreserves, PTL DEF Spec

(* parse() accepts only balanced texts and names the right defect of every *)
(* other, for every set of texts of any length.                            *)
THEOREM VerdictCorrect == Spec => []RecognisesBalanced
<1>1. IInv => RecognisesBalanced
  BY DEF IInv
<1> QED
  BY <1>1, InitEstablishes, StepPreserves, PTL DEF Spec

-----------------------------------------------------------------------------
(* The tree and the text.  Every vector of nodes lies somewhere in the     *)
(* text without its comments, and what has been read is what the vectors   *)
(* of the active calls and the Sequences together stand for.               *)
Source == WithoutComments(Len(text))
Sym == [op \in LeafOps |-> Symbol(op)]

Layout ==
  /\ outcome = "parsing" =>
       Read(frames, sequences, Source, Sym, Len(WithoutComments(current - 1)))
  /\ outcome = "parsed" => \E posn : Whole(sequences, program, posn, Source, Sym)

(* One step of the iterator reads one symbol. *)
LEMMA AdvanceReads ==
  ASSUME IInv, outcome = "parsing", ~AtEnd, Advance, UNCHANGED text,
         NEW n, n = Len(WithoutComments(current - 1))
  PROVE  /\ n \in Nat /\ Source \in Seq(parsable_chars) /\ Source' = Source
         /\ Len(WithoutComments(current - 1))' = n + 1
         /\ n + 1 <= Len(Source) /\ Source[n + 1] = text[current]
<1>1. /\ text \in Seq(Char) /\ text' = text /\ Len(text) \in Nat
      /\ current \in 1 .. Len(text) /\ text[current] \in parsable_chars
  BY IteratorInText
<1>2. current' = FindNext(text, current + 1) /\ current + 1 \in 1 .. End(text)
  BY <1>1 DEF Advance, Increment, End
<1>3. /\ current' \in current + 1 .. End(text)
      /\ \A j \in current + 1 .. current' - 1 : ~Stop(text, j)
  BY <1>1, <1>2, FindNextStops
<1> DEFINE i == current
           k == current'
<1>4. k \in i + 1 .. Len(text) + 1 /\ \A j \in i + 1 .. k - 1 : text[j] \notin parsable_chars
  BY <1>3 DEF End, Stop
<1>5. n = Len(Kept(text, parsable_chars)[i - 1]) /\ Source = Kept(text, parsable_chars)[Len(text)]
  BY DEF WithoutComments, Source
<1>6. i \in 1 .. Len(text) /\ text[i] \in parsable_chars
  BY <1>1
<1>7. Source' = Source
  BY <1>1 DEF Source, WithoutComments
<1>8. Len(WithoutComments(current - 1))' = Len(Kept(text, parsable_chars)[k - 1])
  BY <1>1 DEF WithoutComments
<1> DEFINE s == Source
           t == text
<1>9. t \in Seq(Char) /\ i \in 1 .. Len(t) /\ t[i] \in parsable_chars
  BY <1>1
<1>10. k \in i + 1 .. Len(t) + 1 /\ \A j \in i + 1 .. k - 1 : t[j] \notin parsable_chars
  BY <1>4
<1>11. n = Len(Kept(t, parsable_chars)[i - 1]) /\ s = Kept(t, parsable_chars)[Len(t)]
  BY <1>5
<1> HIDE DEF i, k, s, t
<1>12. /\ n \in Nat /\ s \in Seq(parsable_chars)
       /\ Len(Kept(t, parsable_chars)[k - 1]) = n + 1
       /\ n + 1 <= Len(s) /\ s[n + 1] = t[i]
  BY <1>9, <1>10, <1>11, KeptToken
<1> QED
  BY <1>7, <1>8, <1>12 DEF i, s, t

(* make_node keeps the character. *)
LEMMA NodeOfToken ==
  ASSUME text[current] \in parsable_chars, token \notin {"LOOP_START", "LOOP_END"}
  PROVE  /\ MakeNode(token) \in Node /\ MakeNode(token).op # "Loop"
         /\ text[current] = Sym[MakeNode(token).op]
         /\ text[current] \notin {"[", "]"}
<1> DEFINE c == text[current]
<1>1. c \in {">", "<", "+", "-", ".", ","}
  BY TokenCharacter DEF parsable_chars
<1>2. CASE c = ">" BY <1>2 DEF token, Deref, MakeNode, Node, LeafOps, Sym, Symbol
<1>3. CASE c = "<" BY <1>3 DEF token, Deref, MakeNode, Node, LeafOps, Sym, Symbol
<1>4. CASE c = "+" BY <1>4 DEF token, Deref, MakeNode, Node, LeafOps, Sym, Symbol
<1>5. CASE c = "-" BY <1>5 DEF token, Deref, MakeNode, Node, LeafOps, Sym, Symbol
<1>6. CASE c = "." BY <1>6 DEF token, Deref, MakeNode, Node, LeafOps, Sym, Symbol
<1>7. CASE c = "," BY <1>7 DEF token, Deref, MakeNode, Node, LeafOps, Sym, Symbol
<1> QED
  BY <1>1, <1>2, <1>3, <1>4, <1>5, <1>6, <1>7

LEMMA LayoutInit == Init => Layout
<1> SUFFICES ASSUME Init PROVE Layout
  OBVIOUS
<1>1. text \in Seq(Char) /\ Len(text) \in Nat
  BY TextsAssumption, LenProperties DEF Init
<1>2. /\ outcome = "parsing" /\ frames = << <<>> >> /\ sequences = <<>>
      /\ current = FindNext(text, 1)
  BY DEF Init, Begin
<1>3. /\ current \in 1 .. End(text)
      /\ \A j \in 1 .. current - 1 : ~Stop(text, j)
  <2>1. 1 \in 1 .. End(text)
    BY <1>1 DEF End
  <2> QED
    BY <1>1, <1>2, <2>1, FindNextStops
<1> DEFINE k == current - 1
           K == Kept(text, parsable_chars)
<1>4. /\ k \in 0 .. Len(text) /\ 0 \in 0 .. Len(text)
      /\ \A j \in 0 + 1 .. k : text[j] \notin parsable_chars
  BY <1>1, <1>3 DEF End, Stop
<1>5. K[k] = <<>>
  <2>1. K[0] = <<>>
    BY <1>1, KeptStep
  <2> HIDE DEF k
  <2>2. K[k] = K[0]
    BY <1>1, <1>4, KeptComments
  <2> QED
    BY <2>1, <2>2
<1>6. Len(WithoutComments(current - 1)) = 0
  BY <1>5 DEF WithoutComments
<1>7. Source \in Seq(parsable_chars)
  BY <1>1, KeptType DEF Source, WithoutComments
<1> QED
  BY <1>2, <1>6, <1>7, ReadNothing DEF Layout

LEMMA LayoutStep == IInv /\ Layout /\ [Next]_vars => Layout'
<1> SUFFICES ASSUME IInv, Layout, [Next]_vars PROVE Layout'
  OBVIOUS
<1> DEFINE n == Len(WithoutComments(current - 1))
           more == Len(WithoutComments(current - 1))'
<1>1. Sym' = Sym
  BY DEF Sym
<1>2. CASE UNCHANGED vars
  BY <1>2 DEF vars, Layout, Source, WithoutComments, Sym
<1>3. ASSUME outcome = "parsing", ~AtEnd, Advance, UNCHANGED text
      PROVE  /\ n \in Nat /\ Source \in Seq(parsable_chars) /\ Source' = Source
             /\ more = n + 1
             /\ n + 1 <= Len(Source) /\ Source[n + 1] = text[current]
             /\ text[current] \in parsable_chars
             /\ Read(frames, sequences, Source, Sym, n)
  <2>1. text[current] \in parsable_chars
    BY <1>3, IteratorInText
  <2>2. Read(frames, sequences, Source, Sym, n)
    BY <1>3 DEF Layout
  <2> QED
    BY <1>3, <2>1, <2>2, AdvanceReads
<1>4. /\ outcome = "parsing" => frames \in Seq(Seq(Node)) /\ frames # <<>>
      /\ sequences \in Seq(Seq(Node))
  BY DEF IInv, TypeOK
<1> HIDE DEF n, more
<1>5. ASSUME outcome' = "parsing", Source' = Source, more = n + 1,
             Read(frames', sequences', Source, Sym, n + 1)
      PROVE  Layout'
  BY <1>1, <1>5 DEF Layout, more
<1>6. CASE PushLeaf
  <2>1. /\ outcome = "parsing" /\ ~AtEnd /\ Advance /\ UNCHANGED text
        /\ token \notin {"LOOP_START", "LOOP_END"}
        /\ frames' = PushBack(frames, MakeNode(token))
        /\ sequences' = sequences /\ outcome' = outcome
    BY <1>6 DEF PushLeaf
  <2> DEFINE node == MakeNode(token)
  <2>2. /\ node \in Node /\ node.op # "Loop"
        /\ Source[n + 1] = Sym[node.op] /\ Source[n + 1] \notin {"[", "]"}
    BY <1>3, <2>1, NodeOfToken
  <2>3. frames' = Append(Front(frames), Append(Last(frames), node))
    BY <2>1 DEF PushBack
  <2> HIDE DEF node
  <2>4. Read(Append(Front(frames), Append(Last(frames), node)), sequences, Source, Sym, n + 1)
    BY <1>3, <1>4, <2>1, <2>2, ReadLeaf
  <2>5. Source' = Source /\ more = n + 1
    BY <1>3, <2>1
  <2> QED
    BY <1>5, <2>1, <2>3, <2>4, <2>5
<1>7. CASE EnterLoop
  <2>1. /\ outcome = "parsing" /\ ~AtEnd /\ Advance /\ UNCHANGED text
        /\ token = "LOOP_START"
        /\ frames' = Append(frames, <<>>)
        /\ sequences' = sequences /\ outcome' = outcome
    BY <1>7 DEF EnterLoop
  <2>2. Source[n + 1] = "["
    BY <1>3, <2>1, TokenCharacter
  <2>3. Read(Append(frames, <<>>), sequences, Source, Sym, n + 1)
    BY <1>3, <1>4, <2>1, <2>2, ReadEnter
  <2>4. Source' = Source /\ more = n + 1
    BY <1>3, <2>1
  <2> QED
    BY <1>5, <2>1, <2>3, <2>4
<1>8. CASE LeaveLoop
  <2>1. /\ outcome = "parsing" /\ ~AtEnd /\ Advance /\ UNCHANGED text
        /\ token = "LOOP_END" /\ Len(frames) > 1
        /\ sequences' = Append(sequences, Last(frames))
        /\ frames' = PushBack(Front(frames), [op |-> "Loop", inner |-> Len(sequences) + 1])
        /\ outcome' = outcome
    BY <1>8 DEF LeaveLoop, InLoop, CallerAdvance
  <2>2. Source[n + 1] = "]"
    BY <1>3, <2>1, TokenCharacter
  <2>3. [op |-> "Loop", inner |-> Len(sequences) + 1] \in Node
    <3>1. Len(sequences) + 1 \in Nat \ {0}
      BY <1>4, LenProperties
    <3> QED
      BY <3>1 DEF Node
  <2>4. frames' = Append(Front(Front(frames)), Append(Last(Front(frames)),
                         [op |-> "Loop", inner |-> Len(sequences) + 1]))
    BY <2>1 DEF PushBack
  <2>5. Node \subseteq Node
    OBVIOUS
  <2>6. Read(Append(Front(Front(frames)), Append(Last(Front(frames)),
                    [op |-> "Loop", inner |-> Len(sequences) + 1])),
             Append(sequences, Last(frames)), Source, Sym, n + 1)
    BY <1>3, <1>4, <2>1, <2>2, <2>3, <2>5, ReadLeave
  <2>7. Source' = Source /\ more = n + 1
    BY <1>3, <2>1
  <2> QED
    BY <1>5, <2>1, <2>4, <2>6, <2>7
<1>9. CASE UnexpectedLoopEnd \/ UnclosedLoop
  BY <1>9 DEF UnexpectedLoopEnd, UnclosedLoop, Throw, Layout
<1>10. CASE Finish
  <2>1. /\ outcome = "parsing" /\ AtEnd /\ ~(Len(frames) > 1)
        /\ sequences' = Append(sequences, frames[1])
        /\ program' = Len(sequences) + 1 /\ outcome' = "parsed" /\ text' = text
    BY <1>10 DEF Finish, InLoop
  <2>2. frames \in Seq(Seq(Node)) /\ Len(frames) = 1
    <3>1. Len(frames) \in Nat /\ Len(frames) > 0
      BY <1>4, <2>1, SeqTypes
    <3> DEFINE d == Len(frames)
    <3>2. d \in Nat /\ d > 0 /\ ~(d > 1)
      BY <2>1, <3>1
    <3> HIDE DEF d
    <3>3. d = 1
      BY <3>2
    <3> QED
      BY <1>4, <2>1, <3>3 DEF d
  <2>3. text \in Seq(Char) /\ Len(text) \in Nat
    BY TextsAssumption, LenProperties DEF IInv, TypeOK
  <2>4. current - 1 = Len(text)
    BY <2>1, <2>3 DEF AtEnd, End
  <2>5. Read(frames, sequences, Source, Sym, Len(Source))
    BY <2>1, <2>4 DEF Layout, Source
  <2>6. Source \in Seq(parsable_chars)
    BY <2>3, KeptType DEF Source, WithoutComments
  <2>7. \E posn : Whole(Append(sequences, frames[1]), Len(sequences) + 1, posn, Source, Sym)
    BY <1>4, <2>2, <2>5, <2>6, ReadAll
  <2>8. Source' = Source
    BY <2>1 DEF Source, WithoutComments
  <2> QED
    BY <1>1, <2>1, <2>7, <2>8 DEF Layout
<1> QED
  BY <1>2, <1>6, <1>7, <1>8, <1>9, <1>10 DEF Next

-----------------------------------------------------------------------------
(* Writing the tree back.  A vector that lies in the text is written as    *)
(* the piece of the text it lies in, once the Sequences its Loops own are. *)
IsPiece(written, at, src) == written = SubSeq(src, at[1], Until(at) - 1)
AsPlaced(w, bound, posn, src) == \A c \in 1 .. bound : IsPiece(w[c], posn[c], src)

LEMMA RenderLies ==
  ASSUME NEW S, NEW src \in Seq(S), NEW vector \in Seq(Node),
         NEW at, NEW bound \in Nat, NEW posn, NEW w,
         Lies(vector, at, bound, posn, src, Sym), AsPlaced(w, bound, posn, src)
  PROVE  IsPiece(Render(vector, w), at, src)
<1> DEFINE n == Len(vector)
           piece(k) == IF vector[k].op = "Loop"
                         THEN <<"[">> \o w[vector[k].inner] \o <<"]">>
                         ELSE <<Symbol(vector[k].op)>>
<1>1. /\ n \in Nat
      /\ \A k \in 1 .. n + 1 : at[k] \in 1 .. Len(src) + 1
      /\ \A k \in 1 .. n : at[k] < at[k + 1]
      /\ Until(at) = at[n + 1]
  BY LiesRising
<1>2. Len(src) \in Nat /\ DOMAIN vector = 1 .. n
  BY LenProperties, SeqTypes
<1>3. ASSUME NEW k \in 1 .. n PROVE piece(k) = SubSeq(src, at[k], at[k + 1] - 1)
  <2> DEFINE p == at[k]
             q == at[k + 1]
             node == vector[k]
  <2>1. p \in 1 .. Len(src) + 1 /\ q \in 1 .. Len(src) + 1 /\ p < q
    <3>1. k \in 1 .. n + 1 /\ k + 1 \in 1 .. n + 1
      BY <1>1
    <3> QED
      BY <1>1, <3>1
  <2>2. NodeAt(node, p, q, bound, posn, src, Sym)
    BY DEF Lies
  <2>3. node \in Node
    BY ElementOfSeq
  <2> HIDE DEF p, q, node, n
  <2>4. p \in 1 .. Len(src) /\ q - 1 \in p .. Len(src)
    BY <1>2, <2>1
  <2>5. CASE node.op = "Loop"
    <3> DEFINE c == node.inner
    <3>1. /\ c \in 1 .. bound /\ posn[c][1] = p + 1 /\ Until(posn[c]) = q - 1
          /\ p + 1 <= q - 1 /\ src[p] = "[" /\ src[q - 1] = "]"
      BY <2>2, <2>5 DEF NodeAt
    <3>2. w[c] = SubSeq(src, p + 1, q - 1 - 1)
      BY <3>1 DEF AsPlaced, IsPiece
    <3> HIDE DEF c
    <3> DEFINE m == q - 1
    <3>3. m \in p .. Len(src) /\ m - 1 \in p .. Len(src) /\ m \in Int
      BY <1>2, <2>1, <2>4, <3>1
    <3>4. src[m] = "]" /\ w[c] = SubSeq(src, p + 1, m - 1)
      BY <3>1, <3>2
    <3> HIDE DEF m
    <3>5. SubSeq(src, p, m) = SubSeq(src, p, m - 1) \o <<src[m]>>
      BY <2>4, <3>3, SubSeqRecursiveSecond
    <3>6. SubSeq(src, p, m - 1) = <<src[p]>> \o SubSeq(src, p + 1, m - 1)
      BY <2>4, <3>3, SubSeqRecursiveFirst
    <3>7. SubSeq(src, p, m) = <<"[">> \o w[c] \o <<"]">>
      BY <3>1, <3>4, <3>5, <3>6
    <3> QED
      BY <2>5, <3>7 DEF m, p, q, c, node
  <2>6. CASE node.op # "Loop"
    <3>1. q = p + 1 /\ src[p] = Sym[node.op]
      BY <2>2, <2>6 DEF NodeAt
    <3>2. Sym[node.op] = Symbol(node.op)
      BY <2>3, <2>6 DEF Node, Sym
    <3>3. q - 1 = p
      BY <2>1, <3>1
    <3>4. SubSeq(src, p, p) = <<src[p]>> \o SubSeq(src, p + 1, p)
      BY <2>4, <3>3, SubSeqRecursiveFirst
    <3>5. SubSeq(src, p + 1, p) = <<>>
      <4>1. p + 1 \in Int /\ p \in Int /\ p < p + 1
        BY <2>1
      <4> QED
        BY <4>1, SubSeqEmpty
    <3>6. <<src[p]>> \o <<>> = <<src[p]>>
      OBVIOUS
    <3>7. SubSeq(src, p, q - 1) = <<Symbol(node.op)>>
      BY <3>1, <3>2, <3>3, <3>4, <3>5, <3>6
    <3> QED
      BY <2>6, <3>7 DEF p, q, node
  <2> QED
    BY <2>5, <2>6
<1>4. Render(vector, w) = FlattenSeq([k \in 1 .. n |-> piece(k)])
  BY <1>2 DEF Render
<1> HIDE DEF n, piece
<1> DEFINE pieces == [k \in 1 .. n |-> SubSeq(src, at[k], at[k + 1] - 1)]
<1>5. [k \in 1 .. n |-> piece(k)] = pieces
  BY <1>3
<1>6. \A k \in 1 .. n : at[k] <= at[k + 1]
  <2>1. \A k \in 1 .. n : k \in 1 .. n + 1 /\ k + 1 \in 1 .. n + 1
    BY <1>1
  <2>2. \A k \in 1 .. n + 1 : at[k] \in Int
    BY <1>1, <1>2
  <2> QED
    BY <1>1, <2>1, <2>2
<1>7. FlattenSeq(pieces) = SubSeq(src, at[1], at[n + 1] - 1)
  <2>1. pieces = [k \in 1 .. n |-> SubSeq(src, at[k], at[k + 1] - 1)]
    OBVIOUS
  <2> HIDE DEF pieces
  <2> QED
    BY <1>1, <1>6, <2>1, FlattenPieces
<1> QED
  BY <1>1, <1>4, <1>5, <1>7 DEF IsPiece

(* What the Sequences are written as. *)
LEMMA WrittenPlaces ==
  ASSUME NEW S, NEW src \in Seq(S), sequences \in Seq(Seq(Node)), NEW posn,
         Placed(sequences, posn, src, Sym)
  PROVE  \A s \in 1 .. Len(sequences) :
           Written[s] = SubSeq(src, posn[s][1], Until(posn[s]) - 1)
<1> DEFINE n == Len(sequences)
           place(s) == SubSeq(src, posn[s][1], Until(posn[s]) - 1)
           h == [s \in 1 .. n |-> place(s)]
<1>1. n \in Nat /\ DOMAIN sequences = 1 .. n
  BY LenProperties, SeqTypes
<1>2. ASSUME NEW s \in 1 .. n, NEW w, \A c \in 1 .. s - 1 : w[c] = place(c)
      PROVE  Render(sequences[s], w) = place(s)
  <2> DEFINE SN == Seq(Node)
             vector == sequences[s]
             at == posn[s]
             b == s - 1
  <2>1. vector \in Seq(Node)
    <3>1. sequences \in Seq(SN)
      OBVIOUS
    <3> HIDE DEF SN
    <3>2. sequences[s] \in SN
      BY <3>1, ElementOfSeq
    <3> QED
      BY <3>2 DEF SN
  <2>2. Lies(vector, at, b, posn, src, Sym)
    BY DEF Placed
  <2>3. b \in Nat
    BY <1>1
  <2>4. AsPlaced(w, b, posn, src)
    BY <1>2 DEF AsPlaced, IsPiece
  <2> HIDE DEF vector, at, b, SN, h, place, n
  <2>5. IsPiece(Render(vector, w), at, src)
    BY <2>1, <2>2, <2>3, <2>4, RenderLies
  <2> QED
    BY <2>5 DEF vector, at, place, IsPiece
<1> HIDE DEF place
<1>3. h = [s \in 1 .. n |-> Render(sequences[s], h)]
  <2>1. ASSUME NEW s \in 1 .. n PROVE h[s] = Render(sequences[s], h)
    <3>1. \A c \in 1 .. s - 1 : h[c] = place(c)
      BY <1>1
    <3> HIDE DEF h
    <3>2. Render(sequences[s], h) = place(s)
      BY <1>2, <3>1
    <3> QED
      BY <3>2 DEF h
  <2> QED
    BY <2>1
<1>4. Written = [s \in 1 .. n |-> Render(sequences[s], Written)]
  <2> HIDE DEF h
  <2> DEFINE written == CHOOSE w : w = [s \in 1 .. n |-> Render(sequences[s], w)]
  <2>1. written = [s \in 1 .. n |-> Render(sequences[s], written)]
    BY <1>3
  <2>2. Written = written
    <3>1. DOMAIN sequences = 1 .. n
      BY <1>1
    <3> QED
      BY <3>1 DEF Written
  <2> HIDE DEF written
  <2> QED
    BY <2>1, <2>2
<1> HIDE DEF h
<1> DEFINE T == {s \in 1 .. n : Written[s] = place(s)}
<1>5. ASSUME NEW s \in 1 .. n, \A c \in 1 .. s - 1 : c \in T PROVE s \in T
  <2>1. \A c \in 1 .. s - 1 : Written[c] = place(c)
    BY <1>5
  <2>2. Render(sequences[s], Written) = place(s)
    BY <1>2, <2>1
  <2>3. Written[s] = Render(sequences[s], Written)
    BY <1>4
  <2> QED
    BY <2>2, <2>3
<1>6. \A s \in 1 .. n : s \in T
  <2> HIDE DEF T, n
  <2> QED
    BY <1>1, <1>5, StrongInduction
<1> QED
  BY <1>6 DEF T, place

(* What the part of the tree built so far is written as. *)
LEMMA WrittenCalls ==
  ASSUME NEW S, NEW src \in Seq(S), frames \in Seq(Seq(Node)), frames # <<>>,
         sequences \in Seq(Seq(Node)), NEW n \in Nat,
         Read(frames, sequences, src, Sym, n)
  PROVE  WrittenFrames = SubSeq(src, 1, n)
<1>1. PICK posn, fat : /\ Placed(sequences, posn, src, Sym)
                       /\ Open(frames, fat, Len(sequences), posn, src, Sym, n)
  BY DEF Read
<1> DEFINE d == Len(frames)
           b == Len(sequences)
           at == [f \in 1 .. d + 1 |-> IF f = 1 THEN 1 ELSE Until(fat[f - 1])]
           piece(f) == (IF f = 1 THEN <<>> ELSE <<"[">>) \o Render(frames[f], Written)
<1>2. d \in Nat /\ d > 0 /\ b \in Nat /\ Len(src) \in Nat /\ DOMAIN frames = 1 .. d
  BY LenProperties, SeqTypes
<1>3. AsPlaced(Written, b, posn, src)
  BY <1>1, WrittenPlaces DEF AsPlaced, IsPiece
<1>4. ASSUME NEW f \in 1 .. d
      PROVE  /\ fat[f][1] \in 1 .. Len(src) + 1 /\ Until(fat[f]) \in 1 .. Len(src) + 1
             /\ fat[f][1] <= Until(fat[f])
             /\ Render(frames[f], Written) = SubSeq(src, fat[f][1], Until(fat[f]) - 1)
  <2> DEFINE SN == Seq(Node)
             vector == frames[f]
             a == fat[f]
  <2>1. vector \in Seq(Node)
    <3>1. frames \in Seq(SN)
      OBVIOUS
    <3> HIDE DEF SN
    <3>2. frames[f] \in SN
      BY <3>1, ElementOfSeq
    <3> QED
      BY <3>2 DEF SN
  <2>2. Lies(vector, a, b, posn, src, Sym)
    BY <1>1 DEF Open
  <2> HIDE DEF vector, a, SN, b, d
  <2>3. IsPiece(Render(vector, Written), a, src)
    BY <1>2, <1>3, <2>1, <2>2, RenderLies
  <2>4. Len(vector) \in Nat
    BY <2>1, LenProperties
  <2>5. 1 \in 1 .. Len(vector) + 1
    BY <2>4
  <2>6. a[1] \in 1 .. Len(src) + 1 /\ Until(a) \in 1 .. Len(src) + 1 /\ a[1] <= Until(a)
    BY <2>1, <2>2, <2>5, LiesRising
  <2> QED
    BY <2>3, <2>6 DEF IsPiece, a, vector
<1>5. /\ fat[1][1] = 1
      /\ \A f \in 2 .. d : fat[f][1] = Until(fat[f - 1]) + 1 /\ src[Until(fat[f - 1])] = "["
      /\ Until(fat[d]) = n + 1
  BY <1>1 DEF Open
<1>6. /\ at[1] = 1
      /\ \A f \in 1 .. d : at[f + 1] = Until(fat[f])
  <2>1. 1 \in 1 .. d + 1
    BY <1>2
  <2>2. \A f \in 1 .. d : f + 1 \in 1 .. d + 1 /\ f + 1 # 1 /\ (f + 1) - 1 = f
    BY <1>2
  <2> QED
    BY <2>1, <2>2
<1> HIDE DEF at, b, d
<1>7. \A f \in 1 .. d + 1 : at[f] \in 1 .. Len(src) + 1
  <2> SUFFICES ASSUME NEW f \in 1 .. d + 1 PROVE at[f] \in 1 .. Len(src) + 1
    OBVIOUS
  <2>1. CASE f = 1
    BY <1>2, <1>6, <2>1
  <2>2. CASE f # 1
    <3>1. f - 1 \in 1 .. d /\ (f - 1) + 1 = f
      BY <1>2, <2>2
    <3>2. at[(f - 1) + 1] = Until(fat[f - 1])
      BY <1>6, <3>1
    <3>3. Until(fat[f - 1]) \in 1 .. Len(src) + 1
      BY <1>4, <3>1
    <3> QED
      BY <3>1, <3>2, <3>3
  <2> QED
    BY <2>1, <2>2
<1>8. ASSUME NEW f \in 1 .. d
      PROVE  at[f] <= at[f + 1] /\ piece(f) = SubSeq(src, at[f], at[f + 1] - 1)
  <2> DEFINE q == at[f + 1]
             r == Render(frames[f], Written)
             first == fat[f][1]
  <2>1. /\ first \in 1 .. Len(src) + 1 /\ q \in 1 .. Len(src) + 1
        /\ first <= q /\ r = SubSeq(src, first, q - 1)
    BY <1>4, <1>6
  <2>2. CASE f = 1
    <3>1. at[f] = 1 /\ first = 1
      BY <1>5, <1>6, <2>2
    <3> HIDE DEF q, first, r
    <3>2. r = SubSeq(src, 1, q - 1) /\ q - 1 \in 0 .. Len(src) /\ 1 <= q
      BY <1>2, <2>1, <3>1
    <3>3. r \in Seq(S)
      <4>1. \A i \in 1 .. q - 1 : src[i] \in S
        <5>1. \A i \in 1 .. q - 1 : i \in 1 .. Len(src)
          BY <1>2, <3>2
        <5> QED
          BY <5>1, ElementOfSeq
      <4>2. 1 \in Int /\ q - 1 \in Int
        BY <3>2
      <4> QED
        BY <3>2, <4>1, <4>2, SubSeqProperties
    <3>4. <<>> \o r = r
      BY <3>3
    <3>5. piece(f) = r
      BY <2>2, <3>4 DEF r
    <3> HIDE DEF piece
    <3>6. at[f] <= q /\ piece(f) = SubSeq(src, at[f], q - 1)
      BY <3>1, <3>2, <3>5
    <3> QED
      BY <3>6 DEF q
  <2>3. CASE f # 1
    <3> DEFINE p == at[f]
    <3>1. f \in 2 .. d /\ f - 1 \in 1 .. d /\ (f - 1) + 1 = f
      BY <1>2, <2>3
    <3>2. p = Until(fat[f - 1])
      <4>1. at[(f - 1) + 1] = Until(fat[f - 1])
        BY <1>6, <3>1
      <4> QED
        BY <3>1, <4>1
    <3>3. first = p + 1 /\ src[p] = "["
      BY <1>5, <3>1, <3>2
    <3>4. p \in 1 .. Len(src) + 1
      <4>1. f \in 1 .. d + 1
        BY <1>2
      <4> QED
        BY <1>7, <4>1
    <3>5. piece(f) = <<"[">> \o r
      BY <2>3
    <3> HIDE DEF q, first, r, p, piece
    <3>6. p \in 1 .. Len(src) /\ q - 1 \in p .. Len(src) /\ p <= q
      BY <1>2, <2>1, <3>3, <3>4
    <3>7. SubSeq(src, p, q - 1) = <<src[p]>> \o SubSeq(src, p + 1, q - 1)
      BY <3>6, SubSeqRecursiveFirst
    <3>8. p <= q /\ piece(f) = SubSeq(src, p, q - 1)
      BY <2>1, <3>3, <3>5, <3>6, <3>7
    <3> QED
      BY <3>8 DEF p, q
  <2> QED
    BY <2>2, <2>3
<1>9. WrittenFrames = FlattenSeq([f \in 1 .. d |-> piece(f)])
  BY <1>2 DEF WrittenFrames
<1> HIDE DEF piece
<1> DEFINE pieces == [f \in 1 .. d |-> SubSeq(src, at[f], at[f + 1] - 1)]
<1>10. [f \in 1 .. d |-> piece(f)] = pieces
  BY <1>8
<1>11. FlattenSeq(pieces) = SubSeq(src, at[1], at[d + 1] - 1)
  <2>1. pieces = [f \in 1 .. d |-> SubSeq(src, at[f], at[f + 1] - 1)]
    OBVIOUS
  <2>2. \A f \in 1 .. d : at[f] <= at[f + 1]
    BY <1>8
  <2> HIDE DEF pieces
  <2> QED
    BY <1>2, <1>7, <2>1, <2>2, FlattenPieces
<1>12. at[1] = 1 /\ at[d + 1] - 1 = n
  <2>1. d \in 1 .. d
    BY <1>2
  <2>2. at[d + 1] = n + 1
    BY <1>5, <1>6, <2>1
  <2> QED
    BY <1>6, <2>2
<1> QED
  BY <1>9, <1>10, <1>11, <1>12

(* For every set of texts: at every moment the tree built so far, written  *)
(* back as source, is the text read so far without its comments, and the   *)
(* Program of an accepted text is the whole of it without its comments.    *)
THEOREM TreeCorrect == Spec => []TreeKeepsText
<1>1. IInv /\ Layout => TreeKeepsText
  <2> SUFFICES ASSUME IInv, Layout PROVE TreeKeepsText
    OBVIOUS
  <2>1. text \in Seq(Char) /\ Len(text) \in Nat
    BY TextsAssumption, LenProperties DEF IInv, TypeOK
  <2>2. /\ sequences \in Seq(Seq(Node)) /\ current \in 1 .. Len(text) + 1
        /\ outcome = "parsing" => frames \in Seq(Seq(Node)) /\ frames # <<>>
    BY DEF IInv, TypeOK, End
  <2>3. Source \in Seq(parsable_chars) /\ Source = Kept(text, parsable_chars)[Len(text)]
    BY <2>1, KeptType DEF Source, WithoutComments
  <2>4. ASSUME outcome = "parsing" PROVE WrittenFrames = WithoutComments(current - 1)
    <3> DEFINE i == current - 1
               n == Len(WithoutComments(i))
    <3>1. i \in 0 .. Len(text)
      BY <2>1, <2>2
    <3>2. Read(frames, sequences, Source, Sym, n)
      BY <2>4 DEF Layout
    <3> HIDE DEF i
    <3>3. WithoutComments(i) = SubSeq(Source, 1, Len(WithoutComments(i)))
      BY <2>1, <2>3, <3>1, KeptBegins DEF WithoutComments
    <3>4. n \in Nat
      BY <2>1, <3>1, KeptType DEF WithoutComments
    <3>5. WithoutComments(i) = SubSeq(Source, 1, n)
      BY <3>3
    <3> HIDE DEF n
    <3>6. WrittenFrames = SubSeq(Source, 1, n)
      BY <2>2, <2>3, <2>4, <3>2, <3>4, WrittenCalls
    <3> QED
      BY <3>5, <3>6 DEF i
  <2>5. ASSUME outcome = "parsed" PROVE Written[program] = WithoutComments(Len(text))
    <3>1. PICK posn : Whole(sequences, program, posn, Source, Sym)
      BY <2>5 DEF Layout
    <3>2. /\ Placed(sequences, posn, Source, Sym) /\ program \in 1 .. Len(sequences)
          /\ posn[program][1] = 1 /\ Until(posn[program]) = Len(Source) + 1
      BY <3>1 DEF Whole
    <3>3. Written[program] = SubSeq(Source, posn[program][1], Until(posn[program]) - 1)
      BY <2>2, <2>3, <3>2, WrittenPlaces
    <3>4. Len(Source) \in Nat
      BY <2>3, LenProperties
    <3>5. Len(Source) + 1 - 1 = Len(Source)
      BY <3>4
    <3>6. Written[program] = SubSeq(Source, 1, Len(Source))
      BY <3>2, <3>3, <3>5
    <3>7. SubSeq(Source, 1, Len(Source)) = Source
      BY <2>3, SubSeqFull
    <3> QED
      BY <3>6, <3>7 DEF Source
  <2> QED
    BY <2>4, <2>5 DEF TreeKeepsText
<1> QED
  BY <1>1, InitEstablishes, StepPreserves, LayoutInit, LayoutStep, PTL DEF Spec

=============================================================================
