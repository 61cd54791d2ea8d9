---------------------------- MODULE MCTTSStream ----------------------------
(***************************************************************************)
(* Model-checking instances of TTSStream.                                  *)
(***************************************************************************)
EXTENDS TTSStream, TLC

Symmetry == Permutations(Token)

=============================================================================
