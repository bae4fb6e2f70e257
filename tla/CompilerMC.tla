----------------------------- MODULE CompilerMC -----------------------------
(* Every short program, and longer ones with loops that move, read, print, *)
(* nest, follow each other and leave the tape.                             *)
EXTENDS Compiler

CONSTANT MaxText

MCComments == {"#"}
MCTexts ==
  BoundedSeq({"+", "-", "<", ">", ".", ",", "[", "]"}, MaxText)
    \cup {<<"+", "#", "[", ">", "+", "<", "-", "]", ">", ".">>,
          <<",", "[", ".", ",", "]">>,
          <<"+", "[", "[", "-", "]", ">", "+", "[", "-", "]", "<", "]">>,
          <<"+", "[", ">", "+", "]">>,
          <<"<", ">", "+", "[", "]">>,
          <<"-", ".", "[", "[", "]", "]">>}
MCInputs == {<<>>, <<2, 1>>}
=============================================================================
