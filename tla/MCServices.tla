----------------------------- MODULE MCServices -----------------------------
(***************************************************************************)
(* The model-checking instance of the services around the speech engine:   *)
(* KeyRotation over KeyPool, TTSSubmission, MediaGeneration, LogArchive    *)
(* and FacebookPages.  They keep disjoint state and no action of one reads *)
(* the state of another, so that their steps commute: the run takes the    *)
(* behaviours of each of them, not their interleavings.                    *)
(***************************************************************************)
EXTENDS KeyRotation, TTSSubmission, MediaGeneration, LogArchive, FacebookPages

CONSTANTS s1, s2, p1, r1, k1, i1

\* KeyPool: two speech callers of one process over three keys without a limit.
NoLimit == {0}
OneHome == [c \in Speech |-> p1]

-----------------------------------------------------------------------------
VARIABLE part  \* the one that moves

servicesVars == <<part, rotationVars, submissionVars, mediaVars, logVars, pageVars>>

\* The parts that do not move stay in one of their initial states.
MCInit ==
    /\ part \in {"keys", "submissions", "media", "log", "pages"}
    /\ RotationInit /\ (part # "keys" => nextId = 1)
    /\ SubmissionInit /\ MediaInit /\ LogInit /\ PagesInit

MCNext ==
    /\ UNCHANGED part
    /\ \/ /\ part = "keys" /\ RotationNext
          \* Without limits the counters decide nothing: no count is taken.
          /\ used' = used
          /\ UNCHANGED <<submissionVars, mediaVars, logVars, pageVars>>
       \/ /\ part = "submissions" /\ SubmissionNext
          \* Identities and inputs are alike: those of r1 are called k1 and i1.
          /\ id'[r1] \in {None, k1} /\ input'[r1] \in {None, i1}
          /\ UNCHANGED <<rotationVars, mediaVars, logVars, pageVars>>
       \/ /\ part = "media" /\ MediaNext
          /\ UNCHANGED <<rotationVars, submissionVars, logVars, pageVars>>
       \/ /\ part = "log" /\ LogNext
          /\ UNCHANGED <<rotationVars, submissionVars, mediaVars, pageVars>>
       \/ /\ part = "pages" /\ PagesNext
          /\ UNCHANGED <<rotationVars, submissionVars, mediaVars, logVars>>

\* Submissions take their steps, and the log is uploaded.
MCSpec ==
    /\ MCInit /\ [][MCNext]_servicesVars
    /\ \A r \in Request : WF_submissionVars(Step(r))
    /\ LogFairness
=============================================================================
