--------------------------- MODULE MCTTSRecovery ---------------------------
(***************************************************************************)
(* Model-checking instances of TTSRecovery: jobs refused by the loop.      *)
(***************************************************************************)
EXTENDS TTSRecovery

OneRefused == {1}
TwoRefused == {1, 2}
OneHidden == {2}

=============================================================================
