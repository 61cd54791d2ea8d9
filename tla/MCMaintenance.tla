--------------------------- MODULE MCMaintenance ---------------------------
(***************************************************************************)
(* The model-checking instance of what must be kept in agreement: TTS jobs *)
(* and their workers (TTSRecovery), objects and rows of the blog           *)
(* (BlogMedia) and of the stock media (MediaLibrary).  They keep disjoint  *)
(* state and no action of one reads the state of another, so that their    *)
(* steps commute: the run takes the behaviours of each of them, not their  *)
(* interleavings.                                                          *)
(***************************************************************************)
EXTENDS MCTTSRecovery, BlogMedia, MediaLibrary

CONSTANTS x1, d1, d2, d3

\* MediaLibrary: d3 is the request of another application.
Owner == [i \in {x1, d1, d2, d3} |-> IF i = d3 THEN "another" ELSE "app"]

VARIABLE part  \* the one that moves

maintenanceVars == <<part, vars, blogMediaVars, libraryVars>>

\* No job waits while another part moves.
MCInit ==
    /\ part \in {"jobs", "uploads", "library"}
    /\ Init /\ (part # "jobs" => \A j \in Job : row[j] = "settled")
    /\ BlogMediaInit /\ LibraryInit

MCNext ==
    /\ UNCHANGED part
    /\ \/ /\ part = "jobs" /\ Next
          /\ UNCHANGED <<blogMediaVars, libraryVars>>
       \/ /\ part = "uploads" /\ BlogMediaNext
          /\ UNCHANGED <<vars, libraryVars>>
       \/ /\ part = "library" /\ LibraryNext
          /\ UNCHANGED <<vars, blogMediaVars>>

\* The loop passes, and the clock (TTSRecovery).
MCSpec == MCInit /\ [][MCNext]_maintenanceVars /\ Fairness
=============================================================================
