------------------------------ MODULE ParserMC ------------------------------
(* Every short text of brackets, a leaf and a comment, and some longer ones. *)
EXTENDS Parser

CONSTANTS MaxBrackets, MaxMixed

MCComments == {"#"}

MCTexts ==
  BoundedSeq({"[", "]", "+"}, MaxBrackets)
    \cup BoundedSeq({"[", "]", "-", "#"}, MaxMixed)
    \cup BoundedSeq(Char, 3)
    \cup {<<"[", "[", "]", "[", "[", "]", "]", "]">>,
          <<"#", "[", "#", ">", "[", "<", "]", "#", "]", ".", ",", "#">>}
=============================================================================
