------------------------------ MODULE Brackets ------------------------------
(***************************************************************************)
(* Source texts, independently of any parser: what is left of one without  *)
(* its comments, and what it means for its loops to nest properly, said by *)
(* counting brackets.                                                      *)
(***************************************************************************)
EXTENDS Integers, Sequences, FiniteSets

(* For every i, what is left of the first i characters when only those of  *)
(* `symbols' are kept.                                                     *)
Kept(text, symbols) ==
  LET kept[i \in 0 .. Len(text)] ==
        IF i = 0 THEN <<>>
        ELSE IF text[i] \in symbols THEN Append(kept[i-1], text[i])
        ELSE kept[i-1]
  IN  kept

(* The positions among the first i that hold character c. *)
Occurrences(text, i, c) == {j \in 1 .. i : text[j] = c}

(* How many loops are open after the first i characters. *)
Depth(text, i) ==
  Cardinality(Occurrences(text, i, "[")) - Cardinality(Occurrences(text, i, "]"))

(* No prefix of the first i characters closes more loops than it opened. *)
NeverNegative(text, i) == \A j \in 0 .. i : Depth(text, j) >= 0

Balanced(text) == NeverNegative(text, Len(text)) /\ Depth(text, Len(text)) = 0

(* The partner of the bracket at position i of a balanced text: the nearest *)
(* position beyond it that returns to the depth around the pair.           *)
Matching(text, i) ==
  IF text[i] = "["
    THEN CHOOSE j \in i+1 .. Len(text) :
           /\ Depth(text, j) = Depth(text, i - 1)
           /\ \A k \in i .. j-1 : Depth(text, k) > Depth(text, i - 1)
    ELSE CHOOSE j \in 1 .. i-1 :
           /\ Depth(text, j - 1) = Depth(text, i)
           /\ \A k \in j .. i-1 : Depth(text, k) > Depth(text, i)
=============================================================================
