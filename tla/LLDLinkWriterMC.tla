---------------------------- MODULE LLDLinkWriterMC ----------------------------
(* The names of temporary files are interchangeable. *)
EXTENDS LLDLinkWriter, TLC

AnyNames == Permutations(Paths)
=============================================================================
