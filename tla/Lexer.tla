------------------------------- MODULE Lexer -------------------------------
(***************************************************************************)
(* The tokenizer of src/bfc/core/lexer.cpp, as operators on a source text  *)
(* (a sequence of characters) and a position in it.  TokenIterator keeps   *)
(* one position, its istreambuf_iterator `current'; the position after the *)
(* last character is the end of the stream.                                *)
(***************************************************************************)
EXTENDS Integers, Sequences

CONSTANT Comments  \* the characters that stand for no token

(* The eight characters that are tokens. *)
parsable_chars == {">", "<", "+", "-", ".", ",", "[", "]"}

Char == parsable_chars \cup Comments

(* enum class Token *)
Token == {"INC", "DEC", "INC_PTR", "DEC_PTR",
          "LOOP_START", "LOOP_END", "READ_CHAR", "PRINT_CHAR"}

(* The position of the end sentinel. *)
End(text) == Len(text) + 1

(* The positions where find_next stops: a parsable character or the end. *)
Stop(text, k) == k = End(text) \/ text[k] \in parsable_chars

(* find_next: the first stop at or after position i. *)
FindNext(text, i) ==
  CHOOSE k \in i .. End(text) :
    /\ Stop(text, k)
    /\ \A j \in i .. k-1 : ~Stop(text, j)

(* Tokenizer::begin: the TokenIterator constructor skips to the first token. *)
Begin(text) == FindNext(text, 1)

(* Variant: a step without find_next, so comments are not skipped. *)
IncrementRaw(text, i) == IF i = End(text) THEN i ELSE i + 1

(* operator++: an iterator at the end stays there. *)
Increment(text, i) == IF i = End(text) THEN i ELSE FindNext(text, i + 1)

(* operator*: the token of the current character; the switch's default     *)
(* throws TokenizerException.                                              *)
Deref(text, i) ==
  CASE text[i] = ">" -> "INC_PTR"    [] text[i] = "<" -> "DEC_PTR"
    [] text[i] = "+" -> "INC"        [] text[i] = "-" -> "DEC"
    [] text[i] = "." -> "PRINT_CHAR" [] text[i] = "," -> "READ_CHAR"
    [] text[i] = "[" -> "LOOP_START" [] text[i] = "]" -> "LOOP_END"
    [] OTHER -> "TokenizerException"
=============================================================================
