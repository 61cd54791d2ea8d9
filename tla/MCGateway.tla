----------------------------- MODULE MCGateway ------------------------------
(***************************************************************************)
(* The model-checking instance of what the customers of the gateway share: *)
(* KeyPool, ModelCatalog, QueryPipeline and SignIn.  They keep disjoint    *)
(* state: a call to a model is one step of QueryPipeline whatever key it   *)
(* takes, the catalog is read by the dashboard only, and a login ends with *)
(* a session, so that their steps commute.  The run takes the behaviours   *)
(* of each of them, not their interleavings.                               *)
(***************************************************************************)
EXTENDS MCKeyPool, ModelCatalog, QueryPipeline, SignIn

VARIABLE part  \* the one that moves

gatewayVars == <<part, vars, catalogVars, pipelineVars, signInVars>>

\* A login whose code has been sent, and perhaps answered as wrong a few times: where
\* SignInInit leads by StartLogin, Callback, IssueTicket, Exchange, CheckRecent, Deliver,
\* LockChallenge, WrongCode and CountAttempt.
CodeSent ==
    \E l \in ByEmail, n \in 0..MaxAttempts - 1 :
        /\ oauth = [k \in Login |-> IF k = l THEN "taken" ELSE "none"]
        /\ challenge = [k \in Login |-> IF k = l
              THEN [NoChallenge EXCEPT !.state = "sent", !.attempts = n] ELSE NoChallenge]
        /\ handler = [h \in Handler |-> Rest] /\ approved = TRUE
        /\ sessions = [k \in Login |-> 0]
        /\ guesses = [k \in Login |-> IF k = l THEN n ELSE 0]

\* The parts that do not move stay in one of their initial states.
MCInit ==
    /\ part \in {"keys", "models", "questions", "logins"}
    /\ Init /\ (part # "keys" => nextId = 1 /\ limit = used)
    /\ CatalogInit /\ (part # "models" => \A n \in Name : ~legacy["media_models"][n].there)
    /\ PipelineInit /\ (part # "questions" => question = "news")
    /\ SignInInit \/ (part = "logins" /\ CodeSent)

MCNext ==
    /\ UNCHANGED part
    /\ \/ /\ part = "keys" /\ Next
          /\ UNCHANGED <<catalogVars, pipelineVars, signInVars>>
       \/ /\ part = "models" /\ CatalogNext
          /\ UNCHANGED <<vars, pipelineVars, signInVars>>
       \/ /\ part = "questions" /\ PipelineNext
          /\ UNCHANGED <<vars, catalogVars, signInVars>>
       \/ /\ part = "logins" /\ SignInNext
          /\ UNCHANGED <<vars, catalogVars, pipelineVars>>

MCSpec == MCInit /\ [][MCNext]_gatewayVars
=============================================================================
