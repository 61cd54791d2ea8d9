--------------------------- MODULE TTSSubmission ---------------------------
(***************************************************************************)
(* Submissions with an idempotency key: the advisory lock of an identity,  *)
(* the look for a job of that identity under the lock, the insertion and   *)
(* the start of the background run (submission_identity in                 *)
(* app/services/tts/submission.py and generate_tts_endpoint in             *)
(* app/api/v1/audio/router.py), on PostgreSQL.                             *)
(*                                                                         *)
(* An identity is an app, an external user and a key; its job id is a hash *)
(* of it, so a job is named by its identity.  The fingerprint of a request *)
(* is its input.                                                           *)
(***************************************************************************)
CONSTANTS
    Request,    \* calls of the endpoint; a retry is another call
    Identity,   \* identities that name jobs
    Input,      \* what is to be spoken, and how
    None

ASSUME NoneAssumption == None \notin Request /\ None \notin Input

VARIABLES
    stage,   \* where a request is
    id, input,   \* its identity and its input
    lockOf,  \* holder of the advisory lock of an identity
    job,     \* input stored with the job of an identity
    runs,    \* requests that have started a background run of the job
    answer   \* what the client was told

submissionVars == <<stage, id, input, lockOf, job, runs, answer>>

\* "waiting" for the lock, "looking" under it, "inserting", "committed" with
\* the run not started, "closing" the session, "over" or "crashed".
RequestPC == {"idle", "waiting", "looking", "inserting", "committed", "closing",
              "over", "crashed"}
Answer == {"none", "started", "existing", "conflict", "error"}

SubmissionTypeOK ==
    /\ stage \in [Request -> RequestPC]
    /\ id \in [Request -> Identity \cup {None}]
    /\ input \in [Request -> Input \cup {None}]
    /\ \A r \in Request : stage[r] # "idle" => id[r] \in Identity /\ input[r] \in Input
    /\ lockOf \in [Identity -> Request \cup {None}]
    /\ job \in [Identity -> Input \cup {None}]
    /\ runs \in [Identity -> SUBSET Request]
    /\ answer \in [Request -> Answer]

SubmissionInit ==
    /\ stage = [r \in Request |-> "idle"]
    /\ id = [r \in Request |-> None]
    /\ input = [r \in Request |-> None]
    /\ lockOf = [k \in Identity |-> None]
    /\ job = [k \in Identity |-> None]
    /\ runs = [k \in Identity |-> {}]
    /\ answer = [r \in Request |-> "none"]

Moves(r, p) == stage' = [stage EXCEPT ![r] = p]
Tells(r, a) == answer' = [answer EXCEPT ![r] = a]

\* The end of its transaction gives back the lock that r holds.
Unlock(r) == lockOf' = [k \in Identity |-> IF lockOf[k] = r THEN None ELSE lockOf[k]]

Arrive(r, k, x) ==
    /\ stage[r] = "idle"
    /\ Moves(r, "waiting")
    /\ id' = [id EXCEPT ![r] = k]
    /\ input' = [input EXCEPT ![r] = x]
    /\ UNCHANGED <<lockOf, job, runs, answer>>

\* pg_advisory_xact_lock.
Acquire(r) ==
    /\ stage[r] = "waiting"
    /\ lockOf[id[r]] = None
    /\ lockOf' = [lockOf EXCEPT ![id[r]] = r]
    /\ Moves(r, "looking")
    /\ UNCHANGED <<id, input, job, runs, answer>>

\* Mutant: a submission that finds its job starts it again.
LookAndRun(r) ==
    /\ stage[r] = "looking"
    /\ \/ job[id[r]] = None /\ Moves(r, "inserting") /\ UNCHANGED answer
       \/ job[id[r]] = input[r] /\ Moves(r, "committed") /\ UNCHANGED answer
       \/ job[id[r]] \notin {None, input[r]} /\ Moves(r, "closing") /\ Tells(r, "conflict")
    /\ UNCHANGED <<id, input, lockOf, job, runs>>

\* Mutant: the fingerprints are not compared.
LookOnly(r) ==
    /\ stage[r] = "looking"
    /\ \/ job[id[r]] = None /\ Moves(r, "inserting") /\ UNCHANGED answer
       \/ job[id[r]] # None /\ Moves(r, "closing") /\ Tells(r, "existing")
    /\ UNCHANGED <<id, input, lockOf, job, runs>>

\* The job of the identity is looked for, and its fingerprint compared.
Look(r) ==
    /\ stage[r] = "looking"
    /\ \/ job[id[r]] = None /\ Moves(r, "inserting") /\ UNCHANGED answer
       \/ job[id[r]] = input[r] /\ Moves(r, "closing") /\ Tells(r, "existing")
       \/ job[id[r]] \notin {None, input[r]} /\ Moves(r, "closing") /\ Tells(r, "conflict")
    /\ UNCHANGED <<id, input, lockOf, job, runs>>

\* Job and chunks are inserted and committed in the transaction of the lock;
\* the primary key refuses a second job.
Commit(r) ==
    /\ stage[r] = "inserting"
    /\ job[id[r]] = None
    /\ job' = [job EXCEPT ![id[r]] = input[r]]
    /\ Unlock(r)
    /\ \/ Moves(r, "committed") /\ UNCHANGED answer
       \/ Moves(r, "closing") /\ Tells(r, "error")     \* the answer is lost
    /\ UNCHANGED <<id, input, runs>>

\* A statement or the commit fails: HTTP 500.
Fail(r) ==
    /\ stage[r] \in {"waiting", "looking", "inserting"}
    /\ Moves(r, "closing")
    /\ Tells(r, "error")
    /\ UNCHANGED <<id, input, lockOf, job, runs>>

\* The response is sent and the background run of process_tts_job starts.
Run(r) ==
    /\ stage[r] = "committed"
    /\ runs' = [runs EXCEPT ![id[r]] = @ \cup {r}]
    /\ Moves(r, "closing")
    /\ Tells(r, "started")
    /\ UNCHANGED <<id, input, lockOf, job>>

\* Mutant: the session goes back to the pool with its transaction open.
CloseOnly(r) ==
    /\ stage[r] = "closing"
    /\ Moves(r, "over")
    /\ UNCHANGED <<id, input, lockOf, job, runs, answer>>

\* get_db closes the session, and with it what is left of the transaction.
Close(r) ==
    /\ stage[r] = "closing"
    /\ Unlock(r)
    /\ Moves(r, "over")
    /\ UNCHANGED <<id, input, job, runs, answer>>

\* The process dies; the server ends the transaction of the lost connection.
Crash(r) ==
    /\ stage[r] \notin {"idle", "over", "crashed"}
    /\ Unlock(r)
    /\ Moves(r, "crashed")
    /\ UNCHANGED <<id, input, job, runs, answer>>

Step(r) == Acquire(r) \/ Look(r) \/ Commit(r) \/ Run(r) \/ Close(r)

SubmissionNext ==
    \E r \in Request :
        \/ \E k \in Identity, x \in Input : Arrive(r, k, x)
        \/ Step(r) \/ Fail(r) \/ Crash(r)

SubmissionSpec == SubmissionInit /\ [][SubmissionNext]_submissionVars

\* Requests take their steps; the lock is granted when it is free.
FairSubmission == SubmissionSpec /\ \A r \in Request : WF_submissionVars(Step(r))

-----------------------------------------------------------------------------
\* Of all the submissions of an identity, retried, concurrent or crashed, at most
\* one starts the background run (generate_tts_endpoint).
StartedOnce == \A k \in Identity : \A r, s \in runs[k] : r = s

\* All submissions of an identity that were accepted had the same input: a key
\* used for different input is answered with a conflict (submission_identity).
SameInput ==
    \A r \in Request : answer[r] \in {"started", "existing"} => job[id[r]] = input[r]

\* An insertion never meets a job inserted meanwhile: the lock covers the look
\* and the commit, so contending submissions get an answer and no HTTP 500.
NoCollision == \A r \in Request : stage[r] = "inserting" => job[id[r]] = None

\* Every submission ends, whatever becomes of the one that holds the lock.
Answered == \A r \in Request : stage[r] = "waiting" ~> stage[r] \in {"over", "crashed"}

=============================================================================
