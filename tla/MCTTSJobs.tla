----------------------------- MODULE MCTTSJobs -----------------------------
(***************************************************************************)
(* Model-checking instances of TTSJobs.                                    *)
(***************************************************************************)
EXTENDS TTSJobsInv, TLC

\* Tokens differ only by name, and so do jobs.
Symmetry == Permutations(Token) \cup Permutations(Job)

=============================================================================
