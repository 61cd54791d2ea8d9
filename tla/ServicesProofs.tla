--------------------------- MODULE ServicesProofs ---------------------------
(***************************************************************************)
(* Proofs about the services around the speech engine: TTSSubmission,      *)
(* MediaGeneration, LogArchive and FacebookPages, for any constants.       *)
(***************************************************************************)
EXTENDS TTSSubmission, MediaGeneration, LogArchive, FacebookPages, SequenceTheorems, WellFoundedInduction, TLAPS

\* The lock covers everything between the look and the commit.
LockInv ==
    /\ \A r \in Request : stage[r] \in {"looking", "inserting"} => lockOf[id[r]] = r
    /\ \A k \in Identity, r \in Request :
          lockOf[k] = r => id[r] = k /\ stage[r] \in {"looking", "inserting", "closing"}

\* The request that committed the job of an identity is the only one, and nothing
\* was started for the identity before it.
OwnerInv ==
    /\ \A r \in Request :
          stage[r] = "committed" => job[id[r]] = input[r] /\ runs[id[r]] = {}
    /\ \A r, s \in Request :
          stage[r] = "committed" /\ stage[s] = "committed" /\ id[r] = id[s] => r = s
    /\ \A k \in Identity : runs[k] # {} => job[k] # None

\* Nobody is told anything before the session is closing.
AnswerInv ==
    \A r \in Request : stage[r] \notin {"closing", "over", "crashed"} => answer[r] = "none"

\* The inductive invariant of the submission.
SubmissionInv == SubmissionTypeOK /\ LockInv /\ OwnerInv /\ AnswerInv /\ NoCollision /\ SameInput /\ StartedOnce

-----------------------------------------------------------------------------
\* Nothing has arrived and no job exists.
LEMMA SubmissionInitInv == SubmissionInit => SubmissionInv
BY NoneAssumption DEF SubmissionInit, SubmissionInv, SubmissionTypeOK, RequestPC, Answer, LockInv,
   OwnerInv, AnswerInv, NoCollision, SameInput, StartedOnce

\* Every step of a request preserves the invariant.
LEMMA SubmissionStepInv == SubmissionInv /\ [SubmissionNext]_submissionVars => SubmissionInv'
<1> SUFFICES ASSUME SubmissionInv, [SubmissionNext]_submissionVars PROVE SubmissionInv'
  OBVIOUS
<1> USE NoneAssumption DEF SubmissionInv, SubmissionTypeOK, RequestPC, Answer
<1>1. ASSUME NEW r \in Request, NEW k \in Identity, NEW x \in Input, Arrive(r, k, x)
      PROVE SubmissionInv'
  <2>1. SubmissionTypeOK'
    BY <1>1 DEF Arrive, Moves
  <2>2. LockInv' /\ NoCollision'
    BY <1>1 DEF Arrive, Moves, LockInv, NoCollision
  <2>3. OwnerInv' /\ StartedOnce'
    <3>1. /\ stage' = [stage EXCEPT ![r] = "waiting"] /\ id' = [id EXCEPT ![r] = k]
          /\ input' = [input EXCEPT ![r] = x] /\ job' = job /\ runs' = runs
      BY <1>1 DEF Arrive, Moves
    <3>2. \A s \in Request : stage'[s] = "committed" =>
             stage[s] = "committed" /\ id'[s] = id[s] /\ input'[s] = input[s]
      BY <3>1
    <3> QED BY <3>1, <3>2 DEF OwnerInv, StartedOnce
  <2>4. SameInput'
    BY <1>1 DEF Arrive, Moves, SameInput, AnswerInv
  <2>5. AnswerInv'
    BY <1>1 DEF Arrive, Moves, AnswerInv
  <2> QED BY <2>1, <2>2, <2>3, <2>4, <2>5
<1>2. ASSUME NEW r \in Request, Acquire(r)
      PROVE SubmissionInv'
  <2>1. SubmissionTypeOK'
    BY <1>2 DEF Acquire, Moves
  <2>2. LockInv'
    BY <1>2 DEF Acquire, Moves, LockInv
  <2>3. NoCollision'
    BY <1>2 DEF Acquire, Moves, LockInv, NoCollision
  <2>4. OwnerInv'
    BY <1>2 DEF Acquire, Moves, OwnerInv
  <2>5. SameInput'
    BY <1>2 DEF Acquire, Moves, SameInput, OwnerInv, AnswerInv
  <2>6. StartedOnce'
    BY <1>2 DEF Acquire, Moves, StartedOnce, OwnerInv
  <2>7. AnswerInv'
    BY <1>2 DEF Acquire, Moves, AnswerInv
  <2> QED BY <2>1, <2>2, <2>3, <2>4, <2>5, <2>6, <2>7
<1>3. ASSUME NEW r \in Request, Look(r)
      PROVE SubmissionInv'
  <2>1. SubmissionTypeOK'
    BY <1>3 DEF Look, Moves, Tells
  <2>2. LockInv'
    BY <1>3 DEF Look, Moves, Tells, LockInv
  <2>3. NoCollision'
    BY <1>3 DEF Look, Moves, Tells, LockInv, NoCollision
  <2>4. OwnerInv'
    BY <1>3 DEF Look, Moves, Tells, OwnerInv
  <2>5. SameInput'
    BY <1>3 DEF Look, Tells, SameInput
  <2>6. StartedOnce'
    BY <1>3 DEF Look, Moves, Tells, StartedOnce, OwnerInv
  <2>7. AnswerInv'
    BY <1>3 DEF Look, Moves, Tells, AnswerInv
  <2> QED BY <2>1, <2>2, <2>3, <2>4, <2>5, <2>6, <2>7
<1>4. ASSUME NEW r \in Request, Commit(r)
      PROVE SubmissionInv'
  <2>1. SubmissionTypeOK'
    BY <1>4 DEF Commit, Moves, Tells, Unlock
  <2>2. LockInv'
    BY <1>4 DEF Commit, Moves, Tells, Unlock, LockInv
  <2>3. NoCollision'
    BY <1>4 DEF Commit, Moves, LockInv, NoCollision
  <2>4. OwnerInv'
    BY <1>4 DEF Commit, Moves, Tells, Unlock, OwnerInv
  <2>5. SameInput'
    BY <1>4 DEF Commit, Tells, SameInput, AnswerInv
  <2>6. StartedOnce'
    BY <1>4 DEF Commit, StartedOnce
  <2>7. AnswerInv'
    BY <1>4 DEF Commit, Moves, Tells, Unlock, AnswerInv
  <2> QED BY <2>1, <2>2, <2>3, <2>4, <2>5, <2>6, <2>7
<1>5. ASSUME NEW r \in Request, Fail(r)
      PROVE SubmissionInv'
  <2>1. SubmissionTypeOK'
    BY <1>5 DEF Fail, Moves, Tells
  <2>2. LockInv'
    BY <1>5 DEF Fail, Moves, Tells, LockInv
  <2>3. NoCollision'
    BY <1>5 DEF Fail, Moves, Tells, LockInv, NoCollision
  <2>4. OwnerInv'
    BY <1>5 DEF Fail, Moves, Tells, OwnerInv
  <2>5. SameInput'
    BY <1>5 DEF Fail, Tells, SameInput
  <2>6. StartedOnce'
    BY <1>5 DEF Fail, Moves, Tells, StartedOnce, OwnerInv
  <2>7. AnswerInv'
    BY <1>5 DEF Fail, Moves, Tells, AnswerInv
  <2> QED BY <2>1, <2>2, <2>3, <2>4, <2>5, <2>6, <2>7
<1>6. ASSUME NEW r \in Request, Run(r)
      PROVE SubmissionInv'
  <2>1. SubmissionTypeOK'
    BY <1>6 DEF Run, Moves, Tells
  <2>2. LockInv'
    BY <1>6 DEF Run, Moves, Tells, LockInv
  <2>3. NoCollision'
    BY <1>6 DEF Run, Moves, Tells, LockInv, NoCollision
  <2>4. OwnerInv'
    BY <1>6 DEF Run, Moves, Tells, OwnerInv
  <2>5. SameInput'
    BY <1>6 DEF Run, Tells, SameInput, OwnerInv
  <2>6. StartedOnce'
    BY <1>6 DEF Run, Moves, Tells, StartedOnce, OwnerInv
  <2>7. AnswerInv'
    BY <1>6 DEF Run, Moves, Tells, AnswerInv
  <2> QED BY <2>1, <2>2, <2>3, <2>4, <2>5, <2>6, <2>7
<1>7. ASSUME NEW r \in Request, Close(r)
      PROVE SubmissionInv'
  <2>1. SubmissionTypeOK'
    BY <1>7 DEF Close, Moves, Unlock
  <2>2. LockInv'
    BY <1>7 DEF Close, Moves, Unlock, LockInv
  <2>3. NoCollision'
    BY <1>7 DEF Close, Moves, Unlock, LockInv, NoCollision
  <2>4. OwnerInv'
    BY <1>7 DEF Close, Moves, Unlock, OwnerInv
  <2>5. SameInput'
    BY <1>7 DEF Close, SameInput
  <2>6. StartedOnce'
    BY <1>7 DEF Close, Moves, Unlock, StartedOnce, OwnerInv
  <2>7. AnswerInv'
    BY <1>7 DEF Close, Moves, Unlock, AnswerInv
  <2> QED BY <2>1, <2>2, <2>3, <2>4, <2>5, <2>6, <2>7
<1>8. ASSUME NEW r \in Request, Crash(r)
      PROVE SubmissionInv'
  <2>1. SubmissionTypeOK'
    BY <1>8 DEF Crash, Moves, Unlock
  <2>2. LockInv'
    BY <1>8 DEF Crash, Moves, Unlock, LockInv
  <2>3. NoCollision'
    BY <1>8 DEF Crash, Moves, Unlock, LockInv, NoCollision
  <2>4. OwnerInv'
    BY <1>8 DEF Crash, Moves, Unlock, OwnerInv
  <2>5. SameInput'
    BY <1>8 DEF Crash, SameInput
  <2>6. StartedOnce'
    BY <1>8 DEF Crash, Moves, Unlock, StartedOnce, OwnerInv
  <2>7. AnswerInv'
    BY <1>8 DEF Crash, Moves, Unlock, AnswerInv
  <2> QED BY <2>1, <2>2, <2>3, <2>4, <2>5, <2>6, <2>7
<1>9. CASE UNCHANGED submissionVars
  BY <1>9 DEF submissionVars, LockInv, NoCollision, OwnerInv, AnswerInv, SameInput, StartedOnce
<1> QED
  BY <1>1, <1>2, <1>3, <1>4, <1>5, <1>6, <1>7, <1>8, <1>9 DEF SubmissionNext, Step

-----------------------------------------------------------------------------
\* The invariant holds in every reachable state.
THEOREM SubmissionInvariance == SubmissionSpec => []SubmissionInv
BY SubmissionInitInv, SubmissionStepInv, PTL DEF SubmissionSpec

\* At most one submission of an identity starts the run (generate_tts_endpoint).
THEOREM RunsAreStartedOnce == SubmissionSpec => []StartedOnce
<1>1. SubmissionInv => StartedOnce
  BY DEF SubmissionInv
<1> QED BY <1>1, SubmissionInvariance, PTL

\* Accepted submissions of an identity had the same input (submission_identity).
THEOREM InputsAreTheSame == SubmissionSpec => []SameInput
<1>1. SubmissionInv => SameInput
  BY DEF SubmissionInv
<1> QED BY <1>1, SubmissionInvariance, PTL

\* An insertion never collides with another one (the advisory lock).
THEOREM InsertionsDoNotCollide == SubmissionSpec => []NoCollision
<1>1. SubmissionInv => NoCollision
  BY DEF SubmissionInv
<1> QED BY <1>1, SubmissionInvariance, PTL

-----------------------------------------------------------------------------
\* An operation records its attempt before it sends the call, and an outcome of a
\* call that counts as completed is the one on the row.
Accounted(i) ==
    /\ operation[i].at \in {"begun", "called", "closing"} \/ i \in called => media.attempts[i] # "none"
    /\ At(i, "called") => i \in called
    /\ At(i, "closing") /\ operation[i].outcome = "completed" => i \in called
    /\ At(i, "ended") /\ operation[i].outcome = "completed" /\ i \in called => media.attempts[i] = "completed"

\* Nothing runs before the handler begins or after it is done, and the first
\* operation succeeds only by a call.
HandlerInv ==
    /\ handler.at = "off" => media.status = "none" /\ Running = {} /\ called = {}
    /\ handler.at = "generating" => media.status = "pending"
    /\ handler.at = "done" => Running = {}
    /\ Settled => handler.at \in {"done", "dead"} /\ Running = {}
    /\ handler.at = "generating" /\ At(1, "ended") /\ operation[1].outcome = "completed" => 1 \in called

\* The inductive invariant of the media generation.
MediaInv == MediaTypeOK /\ (\A i \in Operation : Accounted(i)) /\ HandlerInv /\ AccountIsKept

\* The status of the row of an account.
Statuses == {"none", "pending", "success", "failed", "timeout", "cancelled"}

\* The status of an attempt.
Attempts == {"none", "processing", "completed", "failed", "cancelled"}

\* A call of a provider in progress.
Work == [at : {"preparing", "begun", "called", "closing", "ended"}, outcome : Outcome]

-----------------------------------------------------------------------------
\* What a transaction makes of the row.
LEMMA PersistedRow ==
    ASSUME MediaTypeOK, NEW i \in Operation, NEW status \in Attempts
    PROVE  /\ Persisted(i, status).attempts = [media.attempts EXCEPT ![i] = status]
           /\ Persisted(i, status).status = media.status
           /\ Persisted(i, status) \in [status : Statuses, attempts : [Operation -> Attempts], complete : BOOLEAN]
BY DEF Persisted, MediaTypeOK, Complete, Statuses, Attempts

\* Some operation comes first.
LEMMA SmallestOperation ==
    ASSUME NEW S \in SUBSET Operation, S # {}
    PROVE  \E i \in S : \A j \in S : i <= j
<1>1. S \subseteq Nat
  BY MaxOutputsAssumption DEF Operation
<1>2. PICK i \in S : \A j \in S : <<j, i>> \notin OpToRel(<, Nat)
  BY <1>1, NatLessThanWellFounded, WFMin
<1>3. ASSUME NEW j \in S PROVE i <= j
  <2>1. i \in Nat /\ j \in Nat
    BY <1>1
  <2>2. ~(j < i)
    BY <1>2, <2>1 DEF OpToRel
  <2> QED BY <2>1, <2>2
<1> QED BY <1>3

\* The verdict is the outcome of an operation, or success if every one completed.
LEMMA VerdictIs ==
    ASSUME MediaTypeOK
    PROVE  /\ Verdict \in {"success", "failed", "timeout", "cancelled"}
           /\ Verdict = "success" => \A i \in Operation : operation[i].outcome = "completed"
<1> DEFINE failed == {i \in Operation : operation[i].outcome # "completed"}
           first == CHOOSE i \in failed : \A j \in failed : i <= j
<1>1. CASE failed = {}
  BY <1>1 DEF Verdict
<1>2. CASE failed # {}
  <2>1. \E i \in failed : \A j \in failed : i <= j
    BY <1>2, SmallestOperation
  <2>2. first \in failed
    BY <2>1
  <2>3. operation[first].outcome \in {"failed", "timeout", "cancelled"}
    BY <2>2 DEF MediaTypeOK, Outcome
  <2>4. Verdict \in {"cancelled", operation[first].outcome}
    BY <1>2 DEF Verdict
  <2> QED BY <2>3, <2>4
<1> QED BY <1>1, <1>2

\* No request has come.
LEMMA MediaInitInv == MediaInit => MediaInv
BY MaxOutputsAssumption, MaxMishapsAssumption DEF MediaInit, MediaInv, MediaTypeOK, Accounted, HandlerInv,
   AccountIsKept, CallsAreRecorded, Settled, Running, At, Outcome

\* An operation that is under way takes a step: it keeps the invariant if it keeps the
\* types and its own account, whatever it makes of its attempt.
LEMMA OperationKeeps ==
    ASSUME MediaInv, MediaTypeOK', NEW i \in Operation, NEW w \in Work,
           Alive, ~At(i, "ended"), handler' = handler,
           called' \in {called, called \cup {i}},
           operation' = [operation EXCEPT ![i] = w],
           media'.status = media.status,
           \A j \in Operation \ {i} : media'.attempts[j] = media.attempts[j],
           Accounted(i)',
           w.at = "ended" /\ w.outcome = "completed" => i \in called
    PROVE  MediaInv'
<1>1. \A j \in Operation : Accounted(j)'
  <2> SUFFICES ASSUME NEW j \in Operation, j # i PROVE Accounted(j)'
    OBVIOUS
  <2>1. operation'[j] = operation[j] /\ (j \in called' <=> j \in called) /\ media'.attempts[j] = media.attempts[j]
    BY DEF MediaInv, MediaTypeOK
  <2> QED BY <2>1 DEF MediaInv, Accounted, At
<1>2. handler.at = "generating" /\ media.status = "pending"
  BY DEF MediaInv, HandlerInv, Alive, Running
<1>3. HandlerInv'
  <2>1. ~Settled'
    BY <1>2 DEF Settled
  <2>2. handler.at = "generating" /\ At(1, "ended")' /\ operation'[1].outcome = "completed" => 1 \in called'
    <3>1. CASE i = 1
      BY <3>1 DEF MediaInv, MediaTypeOK, At, Work
    <3>2. CASE i # 1
      <4>1. 1 \in Operation
        BY MaxOutputsAssumption DEF Operation
      <4>2. operation'[1] = operation[1]
        BY <3>2, <4>1 DEF MediaInv, MediaTypeOK
      <4> QED BY <4>2 DEF MediaInv, HandlerInv, At
    <3> QED BY <3>1, <3>2
  <2> QED BY <1>2, <2>1, <2>2 DEF HandlerInv
<1>4. AccountIsKept'
  BY <1>1, <1>2 DEF AccountIsKept, CallsAreRecorded, Settled, Accounted, MediaTypeOK
<1> QED BY <1>1, <1>3, <1>4 DEF MediaInv

\* The steps of an operation.
LEMMA OperationKeepsInv ==
    ASSUME MediaInv, NEW i \in Operation, OperationStep(i)
    PROVE  MediaInv'
<1> USE DEF Work, Outcome
<1>t. MediaTypeOK
  BY DEF MediaInv
<1>a. Accounted(i)
  BY DEF MediaInv
<1>p. \A status \in Attempts :
        /\ Persisted(i, status).attempts = [media.attempts EXCEPT ![i] = status]
        /\ Persisted(i, status).status = media.status
        /\ Persisted(i, status) \in [status : Statuses, attempts : [Operation -> Attempts], complete : BOOLEAN]
  BY <1>t, PersistedRow
<1>m. ASSUME Mishap PROVE mishaps' \in 0..MaxMishaps
  BY <1>m, <1>t, MaxMishapsAssumption DEF Mishap, MediaTypeOK
<1>1. CASE GiveUpOperation(i)
  <2>1. MediaTypeOK'
    BY <1>1, <1>t DEF GiveUpOperation, Proceeds, MediaTypeOK
  <2> DEFINE w == [at |-> "ended", outcome |-> "failed"]
  <2>2. Accounted(i)'
    BY <1>1, <1>t, <1>a DEF GiveUpOperation, Proceeds, MediaTypeOK, Accounted, At
  <2>3. /\ w \in Work /\ operation' = [operation EXCEPT ![i] = w] /\ ~At(i, "ended")
        /\ media' = media /\ called' = called /\ handler' = handler /\ Alive
    BY <1>1 DEF GiveUpOperation, Proceeds, At
  <2> QED BY <2>1, <2>2, <2>3, OperationKeeps
<1>2. CASE BeginAttempt(i)
  <2>1. \E status \in {"processing"} : media' \in {media, Persisted(i, status)}
    BY <1>2 DEF BeginAttempt, PersistFails
  <2>2. \/ operation' = [operation EXCEPT ![i] = [at |-> "begun", outcome |-> "completed"]]
           /\ media' = Persisted(i, "processing")
        \/ operation' = [operation EXCEPT ![i] = [at |-> "ended", outcome |-> "failed"]]
    BY <1>2 DEF BeginAttempt, Proceeds
  <2>3. /\ ~At(i, "ended") /\ called' = called /\ handler' = handler /\ Alive /\ At(i, "preparing")
    BY <1>2 DEF BeginAttempt, At
  <2>4. mishaps' \in 0..MaxMishaps
    BY <1>2, <1>m, <1>t DEF BeginAttempt, PersistFails, MediaTypeOK
  <2>5. MediaTypeOK'
    BY <1>t, <1>p, <2>1, <2>2, <2>3, <2>4 DEF MediaTypeOK, Attempts, Statuses
  <2>6. /\ media'.status = media.status
        /\ \A j \in Operation \ {i} : media'.attempts[j] = media.attempts[j]
        /\ media.attempts[i] # "none" => media'.attempts[i] # "none"
    BY <1>t, <1>p, <2>1 DEF MediaTypeOK, Attempts
  <2>7. Accounted(i)'
    BY <1>t, <1>a, <1>p, <2>2, <2>3, <2>6 DEF MediaTypeOK, Accounted, At, Attempts
  <2> QED BY <2>2, <2>3, <2>5, <2>6, <2>7, OperationKeeps
<1>3. CASE SendCall(i)
  <2>1. MediaTypeOK'
    BY <1>3, <1>t DEF SendCall, Proceeds, MediaTypeOK
  <2>2. Accounted(i)'
    BY <1>3, <1>t, <1>a DEF SendCall, Proceeds, MediaTypeOK, Accounted, At
  <2>3. /\ operation' = [operation EXCEPT ![i] = [at |-> "called", outcome |-> "completed"]] /\ ~At(i, "ended")
        /\ media' = media /\ called' = called \cup {i} /\ handler' = handler /\ Alive
    BY <1>3 DEF SendCall, Proceeds, At
  <2> QED BY <2>1, <2>2, <2>3, OperationKeeps
<1>4. ASSUME NEW outcome \in {"completed", "failed", "timeout"}, ReceiveAnswer(i, outcome)
      PROVE  MediaInv'
  <2>1. MediaTypeOK'
    BY <1>4, <1>t DEF ReceiveAnswer, Proceeds, MediaTypeOK
  <2>2. Accounted(i)'
    BY <1>4, <1>t, <1>a DEF ReceiveAnswer, Proceeds, MediaTypeOK, Accounted, At
  <2>3. /\ operation' = [operation EXCEPT ![i] = [at |-> "closing", outcome |-> outcome]] /\ ~At(i, "ended")
        /\ media' = media /\ called' = called /\ handler' = handler /\ Alive
    BY <1>4 DEF ReceiveAnswer, Proceeds, At
  <2> QED BY <2>1, <2>2, <2>3, OperationKeeps
<1>5. CASE CloseAttempt(i)
  <2> DEFINE outcome == operation[i].outcome
             status == StatusOf(outcome)
  <2>1. outcome \in Outcome /\ status \in {"completed", "failed", "cancelled"}
        /\ (outcome = "completed" => status = "completed")
    BY <1>t DEF MediaTypeOK, StatusOf
  <2>2. media' \in {media, Persisted(i, status)}
    BY <1>5 DEF CloseAttempt, PersistFails
  <2>3. \/ operation' = [operation EXCEPT ![i] = [at |-> "ended", outcome |-> outcome]]
           /\ media' = Persisted(i, status)
        \/ operation' = [operation EXCEPT ![i] = [at |-> "ended", outcome |-> "failed"]]
    BY <1>5 DEF CloseAttempt, Proceeds
  <2>4. /\ ~At(i, "ended") /\ called' = called /\ handler' = handler /\ Alive /\ At(i, "closing")
    BY <1>5 DEF CloseAttempt, At
  <2>5. mishaps' \in 0..MaxMishaps
    BY <1>5, <1>m, <1>t DEF CloseAttempt, PersistFails, MediaTypeOK
  <2>6. MediaTypeOK'
    BY <1>t, <1>p, <2>1, <2>2, <2>3, <2>4, <2>5, SMTT(30) DEF MediaTypeOK, Attempts, Statuses
  <2>7. /\ media'.status = media.status
        /\ \A j \in Operation \ {i} : media'.attempts[j] = media.attempts[j]
        /\ media'.attempts[i] # "none"
    BY <1>t, <1>p, <1>a, <2>1, <2>2, <2>4 DEF MediaTypeOK, Attempts, Accounted, At
  <2>8. Accounted(i)'
    BY <1>t, <1>a, <1>p, <2>1, <2>3, <2>4, <2>7 DEF MediaTypeOK, Accounted, At, Attempts
  <2>9. outcome = "completed" => i \in called
    BY <1>a, <2>4 DEF Accounted
  <2> QED BY <2>1, <2>3, <2>4, <2>6, <2>7, <2>8, <2>9, OperationKeeps
<1>6. CASE Abort(i)
  <2>1. \/ /\ operation' = [operation EXCEPT ![i] = [at |-> "ended", outcome |-> "cancelled"]]
           /\ At(i, "preparing") /\ media' \in {media, Persisted(i, "processing")}
        \/ /\ operation' = [operation EXCEPT ![i] = [at |-> "closing", outcome |-> "cancelled"]]
           /\ operation[i].at \in {"begun", "called"} /\ media' = media
    BY <1>6 DEF Abort, Proceeds
  <2>2. ~At(i, "ended") /\ called' = called /\ handler' = handler /\ Alive /\ mishaps' = mishaps
    BY <1>6 DEF Abort, At
  <2>3. MediaTypeOK'
    BY <1>t, <1>p, <2>1, <2>2, SMTT(30) DEF MediaTypeOK, Attempts, Statuses
  <2>4. /\ media'.status = media.status
        /\ \A j \in Operation \ {i} : media'.attempts[j] = media.attempts[j]
        /\ media.attempts[i] # "none" => media'.attempts[i] # "none"
    BY <1>t, <1>p, <2>1 DEF MediaTypeOK, Attempts
  <2>5. Accounted(i)'
    BY <1>t, <1>a, <1>p, <2>1, <2>2, <2>4 DEF MediaTypeOK, Accounted, At, Attempts
  <2> QED BY <2>1, <2>2, <2>3, <2>4, <2>5, OperationKeeps
<1>7. CASE Interrupt(i)
  <2> DEFINE status == StatusOf(operation[i].outcome)
  <2>1. status \in {"completed", "failed", "cancelled"}
    BY <1>t DEF MediaTypeOK, StatusOf
  <2>2. /\ operation' = [operation EXCEPT ![i] = [at |-> "ended", outcome |-> "cancelled"]]
        /\ At(i, "closing") /\ media' \in {media, Persisted(i, status)}
        /\ ~At(i, "ended") /\ called' = called /\ handler' = handler /\ Alive /\ mishaps' = mishaps
    BY <1>7 DEF Interrupt, Proceeds, At
  <2>3. MediaTypeOK'
    BY <1>t, <1>p, <2>1, <2>2 DEF MediaTypeOK, Attempts, Statuses
  <2>4. /\ media'.status = media.status
        /\ \A j \in Operation \ {i} : media'.attempts[j] = media.attempts[j]
        /\ media.attempts[i] # "none" => media'.attempts[i] # "none"
    BY <1>t, <1>p, <2>1, <2>2 DEF MediaTypeOK, Attempts
  <2>5. Accounted(i)'
    BY <1>t, <1>a, <2>2, <2>4 DEF MediaTypeOK, Accounted, At
  <2> QED BY <2>2, <2>3, <2>4, <2>5, OperationKeeps
<1> QED BY <1>1, <1>2, <1>3, <1>4, <1>5, <1>6, <1>7 DEF OperationStep

\* The row is settled when every operation has ended: what the verdict says of the
\* outcomes is on the row.
LEMMA SettleKeepsInv ==
    ASSUME MediaInv, Settle
    PROVE  MediaInv'
<1> DEFINE settled(status) == [media EXCEPT !.status = status, !.complete = Complete(media.attempts)]
<1>1. PICK status \in {Verdict, "cancelled"} :
         /\ media' \in {media, settled(status)}
         /\ mishaps' = mishaps \/ Mishap
  BY DEF Settle
<1>2. /\ handler.at = "generating" /\ Running = {} /\ handler' = [handler EXCEPT !.at = "done"]
      /\ operation' = operation /\ called' = called
  BY DEF Settle, Gathered
<1>3. MediaTypeOK /\ HandlerInv /\ \A i \in Operation : Accounted(i)
  BY DEF MediaInv
<1>4. status \in {"success", "failed", "timeout", "cancelled"}
      /\ (status = "success" => \A i \in Operation : operation[i].outcome = "completed")
  BY <1>1, <1>3, VerdictIs
<1>5. /\ media'.attempts = media.attempts
      /\ \/ media'.status = "pending"
         \/ media'.status = status /\ media'.complete = Complete(media.attempts)
  BY <1>1, <1>2, <1>3 DEF MediaTypeOK, HandlerInv
<1>6. Complete(media.attempts) \in BOOLEAN
  BY DEF Complete
<1>7. MediaTypeOK'
  <2>1. mishaps' \in 0..MaxMishaps
    BY <1>1, <1>3, MaxMishapsAssumption DEF Mishap, MediaTypeOK
  <2>2. settled(status) \in [status : Statuses, attempts : [Operation -> Attempts], complete : BOOLEAN]
    BY <1>3, <1>4, <1>6 DEF MediaTypeOK, Statuses, Attempts
  <2> QED BY <1>1, <1>2, <1>3, <2>1, <2>2 DEF MediaTypeOK, Statuses, Attempts
<1>8. \A i \in Operation : Accounted(i)'
  BY <1>2, <1>3, <1>5 DEF Accounted, At
<1>9. handler'.at = "done" /\ Running' = {}
  BY <1>2, <1>3 DEF Running, At, MediaTypeOK
<1>10. HandlerInv'
  BY <1>9 DEF HandlerInv
<1>11. AccountIsKept'
  <2>1. CallsAreRecorded'
    BY <1>8, <1>7 DEF CallsAreRecorded, Accounted, MediaTypeOK
  <2>2. ASSUME Settled' PROVE media'.status = status /\ media'.complete = Complete(media'.attempts)
    BY <1>5, <2>2 DEF Settled
  <2>3. ASSUME Settled', media'.status = "success"
        PROVE  called' # {} /\ \A i \in called' : media'.attempts[i] = "completed"
    <3>1. \A i \in Operation : At(i, "ended") /\ operation[i].outcome = "completed"
      BY <1>2, <1>4, <2>2, <2>3 DEF Running
    <3>2. 1 \in Operation
      BY MaxOutputsAssumption DEF Operation
    <3>3. 1 \in called
      BY <1>2, <1>3, <3>1, <3>2 DEF HandlerInv
    <3>4. \A i \in called : media.attempts[i] = "completed"
      BY <1>3, <3>1 DEF Accounted, MediaTypeOK
    <3> QED BY <1>2, <1>5, <3>3, <3>4
  <2>4. (Complete(media.attempts))' = Complete(media'.attempts)
    BY DEF Complete
  <2> QED BY <1>9, <2>1, <2>2, <2>3, <2>4 DEF AccountIsKept
<1> QED BY <1>7, <1>8, <1>10, <1>11 DEF MediaInv

\* Every step keeps the invariant.
LEMMA MediaStepInv == MediaInv /\ [MediaNext]_mediaVars => MediaInv'
<1> SUFFICES ASSUME MediaInv, [MediaNext]_mediaVars PROVE MediaInv'
  OBVIOUS
<1>t. MediaTypeOK /\ HandlerInv /\ AccountIsKept /\ \A i \in Operation : Accounted(i)
  BY DEF MediaInv
<1>1. ASSUME NEW n \in Operation, NEW fan \in BOOLEAN, BeginMedia(n, fan)
      PROVE  MediaInv'
  <2>1. /\ handler' = [handler EXCEPT !.at = "generating", !.fan = fan]
        /\ media' = [media EXCEPT !.status = "pending"]
        /\ called = {} /\ called' = {} /\ mishaps' = mishaps
        /\ operation' = [i \in Operation |-> IF i <= n THEN [at |-> "preparing", outcome |-> "completed"]
                                             ELSE operation[i]]
    BY <1>1, <1>t DEF BeginMedia, HandlerInv
  <2>2. \A i \in Operation : At(i, "ended")
    BY <1>1, <1>t DEF BeginMedia, HandlerInv, Running
  <2>3. MediaTypeOK'
    BY <1>t, <2>1 DEF MediaTypeOK, Outcome
  <2>4. media'.attempts = media.attempts /\ media'.status = "pending" /\ handler'.at = "generating"
    BY <1>t, <2>1 DEF MediaTypeOK
  <2>5. \A i \in Operation : operation'[i].at \in {"preparing", "ended"}
    BY <2>1, <2>2 DEF At
  <2>6. \A i \in Operation : Accounted(i)'
    BY <2>1, <2>5 DEF Accounted, At
  <2>7. ~At(1, "ended")'
    <3>1. 1 \in Operation /\ 1 <= n
      BY MaxOutputsAssumption DEF Operation
    <3> QED BY <2>1, <3>1 DEF At
  <2>8. HandlerInv' /\ AccountIsKept'
    BY <2>1, <2>4, <2>7 DEF HandlerInv, AccountIsKept, CallsAreRecorded, Settled
  <2> QED BY <2>3, <2>6, <2>8 DEF MediaInv
<1>2. ASSUME NEW i \in Operation, OperationStep(i)
      PROVE  MediaInv'
  BY <1>2, OperationKeepsInv
<1>3. CASE CancelMedia
  <2>1. /\ handler' = [handler EXCEPT !.cancelled = TRUE]
        /\ media' = media /\ operation' = operation /\ called' = called /\ mishaps' = mishaps
    BY <1>3 DEF CancelMedia
  <2>2. MediaTypeOK' /\ handler'.at = handler.at
    BY <1>t, <2>1 DEF MediaTypeOK
  <2>3. Running' = Running /\ Settled' = Settled /\ (\A i \in Operation : Accounted(i)')
    BY <1>t, <2>1 DEF Running, Settled, Accounted, At
  <2>4. HandlerInv' /\ AccountIsKept'
    BY <1>t, <2>1, <2>2, <2>3 DEF HandlerInv, AccountIsKept, CallsAreRecorded, At, Complete
  <2> QED BY <2>2, <2>3, <2>4 DEF MediaInv
<1>4. CASE Settle
  BY <1>4, SettleKeepsInv
<1>5. CASE CrashMedia
  <2>1. /\ handler' = [handler EXCEPT !.at = "dead"] /\ mishaps' \in 0..MaxMishaps /\ Alive
        /\ media' = media /\ operation' = operation /\ called' = called
    BY <1>5, <1>t, MaxMishapsAssumption DEF CrashMedia, Mishap, MediaTypeOK
  <2>2. MediaTypeOK' /\ handler'.at = "dead"
    BY <1>t, <2>1 DEF MediaTypeOK
  <2>3. Running' = Running /\ Settled' = Settled /\ (\A i \in Operation : Accounted(i)')
    BY <1>t, <2>1 DEF Running, Settled, Accounted, At
  <2>4. HandlerInv' /\ AccountIsKept'
    BY <1>t, <2>1, <2>2, <2>3 DEF HandlerInv, AccountIsKept, CallsAreRecorded, At, Complete
  <2> QED BY <2>2, <2>3, <2>4 DEF MediaInv
<1>6. CASE UNCHANGED mediaVars
  BY <1>t, <1>6 DEF mediaVars, MediaInv, MediaTypeOK, Accounted, HandlerInv, AccountIsKept,
     CallsAreRecorded, Settled, Running, At
<1> QED BY <1>1, <1>2, <1>3, <1>4, <1>5, <1>6 DEF MediaNext

-----------------------------------------------------------------------------
\* The invariant holds in every reachable state.
THEOREM MediaInvariance == MediaSpec => []MediaInv
BY MediaInitInv, MediaStepInv, PTL DEF MediaSpec

\* The type invariant of MediaGeneration.
THEOREM MediaTypeCorrect == MediaSpec => []MediaTypeOK
<1>1. MediaInv => MediaTypeOK
  BY DEF MediaInv
<1> QED BY <1>1, MediaInvariance, PTL

\* generation_telemetry.py: every call is on the row before it is sent, and a settled
\* row says what became of all of them, for any number of outputs and failures.
THEOREM AccountsAreKept == MediaSpec => []AccountIsKept
<1>1. MediaInv => AccountIsKept
  BY DEF MediaInv
<1> QED BY <1>1, MediaInvariance, PTL
-----------------------------------------------------------------------------
(***************************************************************************)
(* FacebookPages.                                                          *)
(***************************************************************************)
Over == {"success", "failed", "refused"}

\* What a request about a page knows, by what it has done.
VisitInv ==
    \A v \in PageVisit :
        /\ visit[v].at = "idle" => visit[v] = NoVisit
        /\ visit[v].at = "send" => visit[v].token = {} /\ visit[v].row.active
        /\ visit[v].at = "act" => visit[v].does # "publish" /\ \E p \in PageVisit : visit[v].token = {p}
        /\ visit[v].row.active => visit[v].row.there
        /\ visit[v].row.there => page.there
        /\ Visiting(v, "publish", "send") => posts[v] = "none"
        /\ visit[v].does = "connect" => visit[v].token \subseteq PageToken

\* A row of a page, active or not, has a token that a request had verified.
RowInv ==
    /\ page.active => page.there
    /\ page.there => \E v \in PageVisit : visit[v].does = "connect" /\ visit[v].token = page.token

\* The page that is not connected, and the posts (the parts of ToldTruly).
InactiveInv ==
    page.there /\ ~page.active =>
        \E v \in PageVisit : /\ visit[v].at \in Over
                             /\ visit[v].does = "disconnect" \/ (visit[v].does = "publish" /\ ~Accepted(v))

\* A post is published by the visit that says so, and cancelled by one that had its address.
PostInv ==
    \A v \in PageVisit :
        /\ posts[v] # "none" => visit[v].does = "publish"
        /\ Visiting(v, "publish", "success") => posts[v] # "none"
        /\ posts[v] = "cancelled" =>
              \E c \in PageVisit : visit[c].does = "cancel" /\ visit[c].at # "send" /\ v \in visit[c].token
        /\ Visiting(v, "cancel", "success") => \A p \in visit[v].token \cap PageVisit : posts[p] = "cancelled"
        /\ visit[v].does = "cancel" => visit[v].token \subseteq PageVisit

\* The inductive invariant of the pages.
PagesInv == PagesTypeOK /\ VisitInv /\ RowInv /\ InactiveInv /\ PostInv

\* The initial page.
LEMMA PagesInitInv == PagesInit => PagesInv
<1> SUFFICES ASSUME PagesInit PROVE PagesInv
  OBVIOUS
<1>1. NoVisit.does = "none" /\ NoVisit.at = "idle" /\ NoVisit.token = {} /\ NoVisit.row = NoPage
  BY DEF NoVisit
<1>2. NoPage \in PageRow /\ ~NoPage.there /\ ~NoPage.active
  BY DEF NoPage, PageRow
<1>3. PagesTypeOK
  BY <1>2, MaxLapsesAssumption DEF PagesInit, PagesTypeOK, NoVisit
<1>4. VisitInv /\ RowInv /\ InactiveInv /\ PostInv
  BY <1>1, <1>2 DEF PagesInit, VisitInv, RowInv, InactiveInv, PostInv, Visiting
<1> QED BY <1>3, <1>4 DEF PagesInv

\* What every step keeps: who a request is, what it has ended with, and what Facebook
\* has refused, made or removed.
Lasts ==
    /\ \A v \in PageVisit : /\ visit[v].does # "none" => visit'[v].does = visit[v].does
                            /\ visit[v].does = "connect" => visit'[v].token = visit[v].token
                            /\ visit[v].at \in Over => visit'[v] = visit[v]
                            /\ visit[v].at \notin {"idle", "send"} =>
                                  visit'[v].token = visit[v].token /\ visit'[v].at \notin {"idle", "send"}
                            /\ posts[v] # "none" => posts'[v] # "none"
                            /\ posts[v] = "cancelled" => posts'[v] = "cancelled"
    /\ valid' \subseteq valid
    /\ page.there => page'.there

\* A step changes one visit, to one of the types of visits.
VisitRow == [does : {"none", "connect", "disconnect", "publish", "cancel", "change"},
             at : {"idle", "verified", "read", "send", "act", "success", "failed", "refused"},
             token : SUBSET (PageToken \cup PageVisit), row : PageRow]

\* Type correctness of the steps.
LEMMA PagesTypeStep ==
    ASSUME PagesInv, PagesNext
    PROVE  PagesTypeOK'
<1> USE DEF PagesInv
<1>1. NoPage \in PageRow /\ NoVisit \in VisitRow
  BY DEF NoPage, NoVisit, PageRow, VisitRow
<1>2. page \in PageRow /\ \A v \in PageVisit : visit[v] \in VisitRow
  BY DEF PagesTypeOK, VisitRow
<1>3. lapses' \in 0 .. MaxLapses
  <2>1. lapses' = lapses \/ Lapse
    BY DEF PagesNext, Verify, ReadConnection, StoreToken, Commits, BeginDisconnect, Disconnect, UseToken,
           Publish, RefuseToken, Inspect, ActOnPost, FacebookStep
  <2> QED BY <2>1, MaxLapsesAssumption DEF Lapse, PagesTypeOK
<1>4. \/ UNCHANGED visit
      \/ \E v \in PageVisit, w \in VisitRow : visit' = [visit EXCEPT ![v] = w]
  <2>1. ASSUME NEW v \in PageVisit, NEW place \in {"success", "failed", "refused"}, Becomes(v, place)
        PROVE  \E w \in VisitRow : visit' = [visit EXCEPT ![v] = w]
    <3>1. [visit[v] EXCEPT !.at = place] \in VisitRow
      BY <1>2 DEF VisitRow
    <3>2. visit' = [visit EXCEPT ![v] = [visit[v] EXCEPT !.at = place]]
      BY <2>1 DEF Becomes, PagesTypeOK
    <3> QED BY <3>1, <3>2
  <2>2. ASSUME NEW v \in PageVisit, NEW does \in {"disconnect", "publish", "cancel", "change"},
               NEW place \in {"read", "send"}, Reads(v, does, place)
        PROVE  \E w \in VisitRow : visit' = [visit EXCEPT ![v] = w]
    <3>1. [NoVisit EXCEPT !.does = does, !.at = place, !.row = page] \in VisitRow
      BY <1>1, <1>2 DEF VisitRow
    <3> QED BY <2>2, <3>1 DEF Reads
  <2>3. ASSUME NEW v \in PageVisit, NEW t \in PageToken, Verify(v, t)
        PROVE  \E w \in VisitRow : visit' = [visit EXCEPT ![v] = w]
    <3>1. [NoVisit EXCEPT !.does = "connect", !.at = "verified", !.token = {t}] \in VisitRow
      BY <1>1 DEF VisitRow
    <3> QED BY <2>3, <3>1 DEF Verify
  <2>4. ASSUME NEW v \in PageVisit, ReadConnection(v)
        PROVE  \E w \in VisitRow : visit' = [visit EXCEPT ![v] = w]
    <3>1. [visit[v] EXCEPT !.at = "read", !.row = page] \in VisitRow
      <4>1. visit[v] \in VisitRow /\ page \in PageRow
        BY <1>2
      <4> QED BY <4>1 DEF VisitRow
    <3>2. visit' = [visit EXCEPT ![v] = [visit[v] EXCEPT !.at = "read", !.row = page]]
      BY <2>4 DEF ReadConnection, PagesTypeOK
    <3> QED BY <3>1, <3>2
  <2>5. ASSUME NEW v \in PageVisit, NEW p \in PageVisit, Inspect(v, p)
        PROVE  \E w \in VisitRow : visit' = [visit EXCEPT ![v] = w]
    <3>1. [visit[v] EXCEPT !.at = "act", !.token = {p}] \in VisitRow
      <4>1. visit[v] \in VisitRow /\ {p} \in SUBSET (PageToken \cup PageVisit)
        BY <1>2
      <4> QED BY <4>1 DEF VisitRow
    <3>2. visit' = [visit EXCEPT ![v] = [visit[v] EXCEPT !.at = "act", !.token = {p}]] \/ Becomes(v, "failed")
      BY <2>5 DEF Inspect, PagesTypeOK
    <3> QED BY <2>1, <3>1, <3>2
  <2>6. ASSUME NEW v \in PageVisit, \/ StoreToken(v) \/ Disconnect(v) \/ RefuseToken(v) \/ ActOnPost(v)
                                    \/ \E how \in Live : Publish(v, how)
        PROVE  \E w \in VisitRow : visit' = [visit EXCEPT ![v] = w]
    <3>1. Becomes(v, "success") \/ Becomes(v, "failed") \/ Becomes(v, "refused")
      BY <2>6 DEF StoreToken, Disconnect, RefuseToken, ActOnPost, Publish, Commits
    <3> QED BY <2>1, <3>1
  <2>7. ASSUME NEW v \in PageVisit, \/ BeginDisconnect(v)
                                    \/ \E does \in {"publish", "cancel", "change"} : UseToken(v, does)
        PROVE  \E w \in VisitRow : visit' = [visit EXCEPT ![v] = w]
    BY <2>2, <2>7 DEF BeginDisconnect, UseToken
  <2>8. FacebookStep => UNCHANGED visit
    BY DEF FacebookStep
  <2> QED BY <2>3, <2>4, <2>5, <2>6, <2>7, <2>8 DEF PagesNext
<1>5. visit' \in [PageVisit -> VisitRow]
  BY <1>4 DEF PagesTypeOK, VisitRow
<1>6. page' \in PageRow
  <2>1. ASSUME NEW v \in PageVisit, StoreToken(v) PROVE page' \in PageRow
    <3>1. CASE UNCHANGED page
      BY <1>2, <3>1
    <3>2. CASE page' # page
      <4>1. visit[v].token \subseteq PageToken
        BY <2>1 DEF VisitInv, StoreToken, Visiting
      <4>2. PICK b \in BOOLEAN : page' = [there |-> TRUE, active |-> b, token |-> visit[v].token]
        <5>1. (visit[v].row.active => page.active) \in BOOLEAN
          OBVIOUS
        <5> QED BY <2>1, <3>2, <5>1 DEF StoreToken, Commits
      <4> QED BY <4>1, <4>2 DEF PageRow
    <3> QED BY <3>1, <3>2
  <2>2. ASSUME NEW v \in PageVisit, Disconnect(v) \/ RefuseToken(v) PROVE page' \in PageRow
    <3>1. visit[v].row.active \in BOOLEAN /\ page.active \in BOOLEAN
      BY <1>2 DEF VisitRow, PageRow
    <3>2. PICK b \in BOOLEAN : page' \in {page, [page EXCEPT !.active = b]}
      BY <1>2, <2>2, <3>1 DEF Disconnect, RefuseToken, Commits, PageRow
    <3> QED BY <1>2, <3>2 DEF PageRow
  <2>3. UNCHANGED page \/ \E v \in PageVisit : StoreToken(v) \/ Disconnect(v) \/ RefuseToken(v)
    BY DEF PagesNext, Verify, ReadConnection, BeginDisconnect, UseToken, Publish, Inspect, ActOnPost, FacebookStep
  <2> QED BY <1>2, <2>1, <2>2, <2>3
<1>7. posts' \in [PageVisit -> {"none", "scheduled", "published", "cancelled"}]
  BY DEF PagesTypeOK, PagesNext, Verify, ReadConnection, StoreToken, BeginDisconnect, Disconnect, UseToken,
         Publish, RefuseToken, Inspect, ActOnPost, FacebookStep, Live
<1>8. valid' \subseteq PageToken
  BY DEF PagesTypeOK, PagesNext, Verify, ReadConnection, StoreToken, BeginDisconnect, Disconnect, UseToken,
         Publish, RefuseToken, Inspect, ActOnPost, FacebookStep
<1> QED BY <1>3, <1>5, <1>6, <1>7, <1>8 DEF PagesTypeOK, VisitRow

\* What a visit has published or cancelled stays so.
LEMMA PagesLast ==
    ASSUME PagesInv, PagesNext
    PROVE  Lasts
<1>1. ASSUME NEW v \in PageVisit, NEW t \in PageToken, Verify(v, t) PROVE Lasts
  BY <1>1 DEF PagesInv, VisitInv, Verify, NoVisit, Lasts, Over
<1>2. ASSUME NEW v \in PageVisit, ReadConnection(v) PROVE Lasts
  BY <1>2 DEF PagesInv, ReadConnection, Visiting, PagesTypeOK, Lasts, Over
<1>3. ASSUME NEW v \in PageVisit, StoreToken(v) PROVE Lasts
  BY <1>3 DEF PagesInv, StoreToken, Becomes, Commits, Visiting, PagesTypeOK, Lasts, Over
<1>4. ASSUME NEW v \in PageVisit, BeginDisconnect(v) PROVE Lasts
  BY <1>4 DEF PagesInv, VisitInv, BeginDisconnect, Reads, NoVisit, Lasts, Over
<1>5. ASSUME NEW v \in PageVisit, Disconnect(v) PROVE Lasts
  BY <1>5 DEF PagesInv, Disconnect, Becomes, Commits, Lapse, Visiting, PagesTypeOK, PageRow, Lasts, Over
<1>6. ASSUME NEW v \in PageVisit, NEW does \in {"publish", "cancel", "change"}, UseToken(v, does) PROVE Lasts
  BY <1>6 DEF PagesInv, VisitInv, UseToken, Reads, NoVisit, Lasts, Over
<1>7. ASSUME NEW v \in PageVisit, NEW how \in Live, Publish(v, how) PROVE Lasts
  BY <1>7 DEF PagesInv, VisitInv, Publish, Becomes, Visiting, PagesTypeOK, Lasts, Over
<1>8. ASSUME NEW v \in PageVisit, RefuseToken(v) PROVE Lasts
  <2>1. \E place \in Over : Becomes(v, place)
    BY <1>8 DEF RefuseToken, Commits, Over
  <2>2. page.there => page'.there
    BY <1>8 DEF RefuseToken, Commits, PagesInv, PagesTypeOK, PageRow
  <2>3. UNCHANGED <<valid, posts>> /\ visit[v].at = "send" /\ visit[v].does = "publish"
    BY <1>8 DEF RefuseToken, Expired, Visiting
  <2> QED BY <2>1, <2>2, <2>3 DEF Becomes, Lasts, Over, PagesInv, PagesTypeOK
<1>9. ASSUME NEW v \in PageVisit, NEW p \in PageVisit, Inspect(v, p) PROVE Lasts
  <2>1. visit[v].at = "send" /\ visit[v].does # "connect" /\ UNCHANGED <<page, valid, posts>>
    BY <1>9 DEF Inspect, Visiting
  <2>2. \A u \in PageVisit \ {v} : visit'[u] = visit[u]
    BY <1>9 DEF Inspect, Becomes, PagesInv, PagesTypeOK
  <2>3. visit'[v].does = visit[v].does
    BY <1>9 DEF Inspect, Becomes, PagesInv, PagesTypeOK
  <2> QED BY <2>1, <2>2, <2>3 DEF Lasts, Over
<1>10. ASSUME NEW v \in PageVisit, ActOnPost(v) PROVE Lasts
  BY <1>10 DEF PagesInv, VisitInv, ActOnPost, Becomes, PagesTypeOK, Lasts, Over
<1>11. CASE FacebookStep
  BY <1>11 DEF PagesInv, FacebookStep, PagesTypeOK, Lasts
<1> QED BY <1>1, <1>2, <1>3, <1>4, <1>5, <1>6, <1>7, <1>8, <1>9, <1>10, <1>11 DEF PagesNext

\* What a request knows stays true until it ends.
LEMMA VisitStep ==
    ASSUME PagesInv, PagesNext
    PROVE  VisitInv'
<1> USE DEF PagesInv
<1>0. Lasts /\ PagesTypeOK'
  BY PagesLast, PagesTypeStep
<1>12. ASSUME NEW v \in PageVisit, NEW place \in Over, Becomes(v, place),
              \A u \in PageVisit : Visiting(u, "publish", "send") => posts'[u] = posts[u]
       PROVE  VisitInv'
  <2>1. \A u \in PageVisit \ {v} : visit'[u] = visit[u]
    BY <1>0, <1>12 DEF Becomes, PagesTypeOK
  <2>2. /\ visit'[v].at \in Over /\ visit'[v].does = visit[v].does
        /\ visit'[v].row = visit[v].row /\ visit'[v].token = visit[v].token
    BY <1>0, <1>12 DEF Becomes, PagesTypeOK
  <2>3. page.there => page'.there
    BY <1>0 DEF Lasts
  <2> QED BY <1>12, <2>1, <2>2, <2>3 DEF VisitInv, Visiting, Over
<1>1. ASSUME NEW v \in PageVisit, NEW t \in PageToken, Verify(v, t) PROVE VisitInv'
  BY <1>0, <1>1 DEF VisitInv, Verify, Visiting
<1>2. ASSUME NEW v \in PageVisit, ReadConnection(v) PROVE VisitInv'
  <2>1. \A u \in PageVisit \ {v} : visit'[u] = visit[u]
    BY <1>0, <1>2 DEF ReadConnection, PagesTypeOK
  <2>2. /\ visit'[v].at = "read" /\ visit'[v].does = "connect"
        /\ visit'[v].row = page /\ visit'[v].token = visit[v].token
    BY <1>0, <1>2 DEF ReadConnection, Visiting, PagesTypeOK
  <2>3. UNCHANGED <<page, posts>> /\ visit[v].does = "connect"
    BY <1>2 DEF ReadConnection, Visiting
  <2> QED BY <2>1, <2>2, <2>3 DEF VisitInv, RowInv, Visiting
<1>3. ASSUME NEW v \in PageVisit, StoreToken(v) PROVE VisitInv'
  <2>1. \E place \in Over : Becomes(v, place)
    BY <1>3 DEF StoreToken, Commits, Over
  <2> QED BY <1>3, <1>12, <2>1 DEF StoreToken
<1>4. ASSUME NEW v \in PageVisit, BeginDisconnect(v) PROVE VisitInv'
  BY <1>0, <1>4 DEF VisitInv, BeginDisconnect, Reads, Visiting
<1>5. ASSUME NEW v \in PageVisit, Disconnect(v) PROVE VisitInv'
  <2>1. \E place \in Over : Becomes(v, place)
    BY <1>5 DEF Disconnect, Commits, Over
  <2> QED BY <1>5, <1>12, <2>1 DEF Disconnect
<1>6. ASSUME NEW v \in PageVisit, NEW does \in {"publish", "cancel", "change"}, UseToken(v, does) PROVE VisitInv'
  BY <1>0, <1>6 DEF VisitInv, RowInv, PostInv, UseToken, Reads, Visiting, NoVisit, NoPage
<1>7. ASSUME NEW v \in PageVisit, NEW how \in Live, Publish(v, how) PROVE VisitInv'
  <2>1. \E place \in Over : Becomes(v, place)
    BY <1>7 DEF Publish, Over
  <2>2. \A u \in PageVisit \ {v} : posts'[u] = posts[u] /\ visit'[u] = visit[u]
    BY <1>7 DEF Publish, Becomes, PagesTypeOK
  <2>3. /\ visit'[v].at \in Over /\ visit'[v].does = visit[v].does
        /\ visit'[v].row = visit[v].row /\ visit'[v].token = visit[v].token
    BY <2>1 DEF Becomes, PagesTypeOK
  <2>4. UNCHANGED page
    BY <1>7 DEF Publish
  <2> QED BY <2>2, <2>3, <2>4 DEF VisitInv, Visiting, Over
<1>8. ASSUME NEW v \in PageVisit, RefuseToken(v) PROVE VisitInv'
  <2>1. \E place \in Over : Becomes(v, place)
    BY <1>8 DEF RefuseToken, Commits, Over
  <2> QED BY <1>8, <1>12, <2>1 DEF RefuseToken
<1>9. ASSUME NEW v \in PageVisit, NEW p \in PageVisit, Inspect(v, p) PROVE VisitInv'
  <2>1. CASE Becomes(v, "failed")
    BY <1>9, <1>12, <2>1 DEF Inspect, Over
  <2>2. CASE visit' = [visit EXCEPT ![v].at = "act", ![v].token = {p}]
    <3>1. \A u \in PageVisit \ {v} : visit'[u] = visit[u]
      BY <2>2 DEF PagesTypeOK
    <3>2. /\ visit'[v].at = "act" /\ visit'[v].does = visit[v].does
          /\ visit'[v].row = visit[v].row /\ visit'[v].token = {p}
      BY <2>2 DEF PagesTypeOK
    <3>3. UNCHANGED <<page, posts>> /\ visit[v].does # "connect"
      BY <1>9 DEF Inspect, Visiting
    <3>4. visit[v].does # "publish"
      BY <1>9 DEF Inspect, Visiting
    <3> QED BY <3>1, <3>2, <3>3, <3>4 DEF VisitInv, Visiting
  <2> QED BY <1>9, <2>1, <2>2 DEF Inspect
<1>10. ASSUME NEW v \in PageVisit, ActOnPost(v) PROVE VisitInv'
  <2>1. \E place \in Over : Becomes(v, place)
    BY <1>10 DEF ActOnPost, Over
  <2>2. \A u \in PageVisit : Visiting(u, "publish", "send") => posts'[u] = posts[u]
    BY <1>10 DEF ActOnPost, Live, VisitInv, PagesTypeOK
  <2> QED BY <1>12, <2>1, <2>2
<1>11. CASE FacebookStep
  BY <1>0, <1>11 DEF VisitInv, FacebookStep, Visiting, PagesTypeOK
<1> QED BY <1>1, <1>2, <1>3, <1>4, <1>5, <1>6, <1>7, <1>8, <1>9, <1>10, <1>11 DEF PagesNext

\* Only store_page_token writes a token, the one that was verified.
LEMMA RowStep ==
    ASSUME PagesInv, PagesNext
    PROVE  RowInv'
<1> USE DEF PagesInv
<1>0. Lasts /\ PagesTypeOK'
  BY PagesLast, PagesTypeStep
<1>1. ASSUME NEW v \in PageVisit, NEW t \in PageToken, Verify(v, t) PROVE RowInv'
  BY <1>0, <1>1 DEF Lasts, RowInv, Verify
<1>2. ASSUME NEW v \in PageVisit, ReadConnection(v) PROVE RowInv'
  BY <1>0, <1>2 DEF RowInv, ReadConnection, PagesTypeOK
<1>3. ASSUME NEW v \in PageVisit, StoreToken(v) PROVE RowInv'
  BY <1>0, <1>3 DEF Lasts, RowInv, StoreToken, Commits, Visiting
<1>4. ASSUME NEW v \in PageVisit, BeginDisconnect(v) PROVE RowInv'
  BY <1>0, <1>4 DEF Lasts, RowInv, BeginDisconnect
<1>5. ASSUME NEW v \in PageVisit, Disconnect(v) PROVE RowInv'
  BY <1>0, <1>5 DEF Lasts, RowInv, PostInv, Disconnect, Becomes, Commits, PagesTypeOK, PageRow
<1>6. ASSUME NEW v \in PageVisit, NEW does \in {"publish", "cancel", "change"}, UseToken(v, does) PROVE RowInv'
  BY <1>0, <1>6 DEF Lasts, RowInv, UseToken
<1>7. ASSUME NEW v \in PageVisit, NEW how \in Live, Publish(v, how) PROVE RowInv'
  BY <1>0, <1>7 DEF Lasts, RowInv, Publish
<1>8. ASSUME NEW v \in PageVisit, RefuseToken(v) PROVE RowInv'
  <2>1. \E b \in BOOLEAN : page' \in {page, [page EXCEPT !.active = b /\ page.active]}
    BY <1>8 DEF RefuseToken, Commits, PagesTypeOK, PageRow
  <2>2. page'.there = page.there /\ page'.token = page.token /\ (page'.active => page.active)
    BY <2>1 DEF PagesTypeOK, PageRow
  <2> QED BY <1>0, <2>2 DEF RowInv, Lasts
<1>9. ASSUME NEW v \in PageVisit, NEW p \in PageVisit, Inspect(v, p) PROVE RowInv'
  BY <1>0, <1>9 DEF Lasts, RowInv, Inspect
<1>10. ASSUME NEW v \in PageVisit, ActOnPost(v) PROVE RowInv'
  BY <1>0, <1>10 DEF Lasts, RowInv, ActOnPost
<1>11. CASE FacebookStep
  BY <1>0, <1>11 DEF RowInv, FacebookStep
<1> QED BY <1>1, <1>2, <1>3, <1>4, <1>5, <1>6, <1>7, <1>8, <1>9, <1>10, <1>11 DEF PagesNext

\* A page becomes inactive by a disconnection or a refused token.
LEMMA InactiveStep ==
    ASSUME PagesInv, PagesNext
    PROVE  InactiveInv'
<1> USE DEF PagesInv
<1>0. Lasts /\ PagesTypeOK'
  BY PagesLast, PagesTypeStep
<1>1. ASSUME NEW v \in PageVisit, NEW t \in PageToken, Verify(v, t) PROVE InactiveInv'
  BY <1>0, <1>1 DEF Lasts, InactiveInv, Verify, Accepted
<1>2. ASSUME NEW v \in PageVisit, ReadConnection(v) PROVE InactiveInv'
  BY <1>0, <1>2 DEF InactiveInv, ReadConnection, Visiting, Accepted, PagesTypeOK
<1>3. ASSUME NEW v \in PageVisit, StoreToken(v) PROVE InactiveInv'
  BY <1>0, <1>3 DEF Lasts, VisitInv, InactiveInv, StoreToken, Commits, Accepted, PagesTypeOK, PageRow
<1>4. ASSUME NEW v \in PageVisit, BeginDisconnect(v) PROVE InactiveInv'
  BY <1>0, <1>4 DEF Lasts, InactiveInv, BeginDisconnect, Accepted
<1>5. ASSUME NEW v \in PageVisit, Disconnect(v) PROVE InactiveInv'
  BY <1>0, <1>5 DEF InactiveInv, Disconnect, Becomes, Commits, Visiting, PagesTypeOK, Over
<1>6. ASSUME NEW v \in PageVisit, NEW does \in {"publish", "cancel", "change"}, UseToken(v, does) PROVE InactiveInv'
  BY <1>0, <1>6 DEF InactiveInv, UseToken
<1>7. ASSUME NEW v \in PageVisit, NEW how \in Live, Publish(v, how) PROVE InactiveInv'
  BY <1>0, <1>7 DEF Lasts, InactiveInv, Publish, Accepted
<1>8. ASSUME NEW v \in PageVisit, RefuseToken(v) PROVE InactiveInv'
  BY <1>0, <1>8 DEF InactiveInv, PostInv, RefuseToken, Becomes, Commits, Visiting, Expired, Accepted,
     PagesTypeOK, PageRow, Over
<1>9. ASSUME NEW v \in PageVisit, NEW p \in PageVisit, Inspect(v, p) PROVE InactiveInv'
  BY <1>0, <1>9 DEF Lasts, InactiveInv, Inspect, Accepted
<1>10. ASSUME NEW v \in PageVisit, ActOnPost(v) PROVE InactiveInv'
  BY <1>0, <1>10 DEF Lasts, InactiveInv, ActOnPost, Accepted
<1>11. CASE FacebookStep
  BY <1>0, <1>11 DEF InactiveInv, FacebookStep, Accepted
<1> QED BY <1>1, <1>2, <1>3, <1>4, <1>5, <1>6, <1>7, <1>8, <1>9, <1>10, <1>11 DEF PagesNext

\* Posts are made by publishing and removed by cancelling.
LEMMA PostStep ==
    ASSUME PagesInv, PagesNext
    PROVE  PostInv'
<1> USE DEF PagesInv
<1>0. Lasts /\ PagesTypeOK'
  BY PagesLast, PagesTypeStep
<1>12. ASSUME NEW v \in PageVisit, NEW place \in Over, Becomes(v, place), UNCHANGED posts,
              visit[v].does \notin {"publish", "cancel"} \/ place # "success"
       PROVE  PostInv'
  <2>1. \A u \in PageVisit \ {v} : visit'[u] = visit[u]
    BY <1>0, <1>12 DEF Becomes, PagesTypeOK
  <2>2. /\ visit'[v].at = place /\ visit'[v].does = visit[v].does /\ visit'[v].token = visit[v].token
    BY <1>0, <1>12 DEF Becomes, PagesTypeOK
  <2> QED BY <1>12, <2>1, <2>2 DEF PostInv, Visiting, Over
<1>1. ASSUME NEW v \in PageVisit, NEW t \in PageToken, Verify(v, t) PROVE PostInv'
  BY <1>0, <1>1 DEF Lasts, PostInv, Verify, Visiting
<1>2. ASSUME NEW v \in PageVisit, ReadConnection(v) PROVE PostInv'
  BY <1>0, <1>2 DEF PostInv, ReadConnection, Visiting, PagesTypeOK
<1>3. ASSUME NEW v \in PageVisit, StoreToken(v) PROVE PostInv'
  BY <1>0, <1>3 DEF RowInv, InactiveInv, PostInv, StoreToken, Becomes, Commits, Lapse, Visiting, Accepted,
     PagesTypeOK
<1>4. ASSUME NEW v \in PageVisit, BeginDisconnect(v) PROVE PostInv'
  BY <1>0, <1>4 DEF Lasts, PostInv, BeginDisconnect, Reads, Visiting
<1>5. ASSUME NEW v \in PageVisit, Disconnect(v) PROVE PostInv'
  <2>1. \E place \in Over : Becomes(v, place)
    BY <1>5 DEF Disconnect, Commits, Over
  <2> QED BY <1>5, <1>12, <2>1 DEF Disconnect, Visiting
<1>6. ASSUME NEW v \in PageVisit, NEW does \in {"publish", "cancel", "change"}, UseToken(v, does) PROVE PostInv'
  BY <1>0, <1>6 DEF VisitInv, PostInv, UseToken, Reads, Visiting, NoVisit
<1>7. ASSUME NEW v \in PageVisit, NEW how \in Live, Publish(v, how) PROVE PostInv'
  <2>1. /\ visit[v].does = "publish" /\ visit[v].at = "send" /\ visit'[v].does = "publish"
        /\ \A u \in PageVisit \ {v} : visit'[u] = visit[u]
        /\ visit'[v].at \in {"success", "failed"}
    BY <1>0, <1>7 DEF Publish, Becomes, Visiting, PagesTypeOK
  <2>2. /\ \A u \in PageVisit \ {v} : posts'[u] = posts[u]
        /\ posts'[v] \in {posts[v], how} /\ how \notin {"none", "cancelled"}
        /\ visit'[v].at = "success" => posts'[v] = how
    BY <1>0, <1>7 DEF Publish, Becomes, PagesTypeOK, Live
  <2>3. posts[v] = "none"
    BY <2>1 DEF VisitInv, Visiting
  <2> QED BY <1>0, <2>1, <2>2, <2>3 DEF Lasts, PostInv, Visiting
<1>8. ASSUME NEW v \in PageVisit, RefuseToken(v) PROVE PostInv'
  <2>1. Becomes(v, "failed") \/ Becomes(v, "refused")
    BY <1>8 DEF RefuseToken, Commits
  <2> QED BY <1>8, <1>12, <2>1 DEF RefuseToken, Over
<1>9. ASSUME NEW v \in PageVisit, NEW p \in PageVisit, Inspect(v, p) PROVE PostInv'
  <2>1. CASE Becomes(v, "failed")
    BY <1>9, <1>12, <2>1 DEF Inspect, Over
  <2>2. CASE visit' = [visit EXCEPT ![v].at = "act", ![v].token = {p}]
    <3>1. \A u \in PageVisit \ {v} : visit'[u] = visit[u]
      BY <2>2 DEF PagesTypeOK
    <3>2. /\ visit'[v].at = "act" /\ visit'[v].does = visit[v].does /\ visit'[v].token = {p}
      BY <2>2 DEF PagesTypeOK
    <3>3. UNCHANGED posts /\ visit[v].at = "send" /\ visit[v].does \in {"cancel", "change"}
      BY <1>9 DEF Inspect, Visiting
    <3> QED BY <3>1, <3>2, <3>3 DEF PostInv, Visiting
  <2> QED BY <1>9, <2>1, <2>2 DEF Inspect
<1>10. ASSUME NEW v \in PageVisit, ActOnPost(v) PROVE PostInv'
  <2>1. visit[v].at = "act" /\ \A u \in PageVisit \ {v} : visit'[u] = visit[u]
    BY <1>10 DEF ActOnPost, Becomes, PagesTypeOK
  <2>2. PICK p \in PageVisit : visit[v].token = {p}
    BY <2>1 DEF VisitInv
  <2>3. /\ visit'[v].at \in {"success", "failed"} /\ visit'[v].does = visit[v].does /\ visit'[v].token = {p}
    BY <1>10, <2>2 DEF ActOnPost, Becomes, PagesTypeOK
  <2>4. CASE visit[v].does = "cancel"
    <3>1. \/ UNCHANGED posts /\ visit'[v].at = "failed"
          \/ posts' = [posts EXCEPT ![p] = "cancelled"] /\ posts[p] \in Live
      BY <1>10, <2>2, <2>3, <2>4 DEF ActOnPost, Becomes, PagesTypeOK
    <3>2. CASE UNCHANGED posts /\ visit'[v].at = "failed"
      BY <2>1, <2>2, <2>3, <2>4, <3>2 DEF PostInv, Visiting
    <3>3. CASE posts' = [posts EXCEPT ![p] = "cancelled"] /\ posts[p] \in Live
      <4>1. posts'[p] = "cancelled" /\ posts[p] # "none" /\ \A u \in PageVisit \ {p} : posts'[u] = posts[u]
        BY <3>3 DEF Live, PagesTypeOK
      <4> QED BY <2>1, <2>2, <2>3, <2>4, <4>1 DEF PostInv, Visiting
    <3> QED BY <3>1, <3>2, <3>3
  <2>5. CASE visit[v].does # "cancel"
    <3>1. UNCHANGED posts
      BY <1>10, <2>2, <2>5 DEF ActOnPost
    <3>2. visit[v].does # "publish"
      BY <2>1 DEF VisitInv
    <3> QED BY <2>1, <2>2, <2>3, <2>5, <3>1, <3>2 DEF PostInv, Visiting
  <2> QED BY <2>4, <2>5
<1>11. CASE FacebookStep
  BY <1>0, <1>11 DEF PostInv, FacebookStep, Visiting, PagesTypeOK
<1> QED BY <1>1, <1>2, <1>3, <1>4, <1>5, <1>6, <1>7, <1>8, <1>9, <1>10, <1>11 DEF PagesNext

\* The invariant of a page and the requests about it.
THEOREM PagesInvariance == PagesSpec => []PagesInv
<1>1. PagesInit => PagesInv
  BY PagesInitInv
<1>2. PagesInv /\ [PagesNext]_pageVars => PagesInv'
  <2> SUFFICES ASSUME PagesInv, [PagesNext]_pageVars PROVE PagesInv'
    OBVIOUS
  <2>1. CASE PagesNext
    BY <2>1, PagesTypeStep, VisitStep, RowStep, InactiveStep, PostStep DEF PagesInv
  <2>2. CASE UNCHANGED pageVars
    BY <2>2 DEF pageVars, PagesInv, PagesTypeOK, VisitInv, RowInv, InactiveInv, PostInv, Visiting, Accepted
  <2> QED BY <2>1, <2>2
<1> QED BY <1>1, <1>2, PTL DEF PagesSpec

\* Type correctness of the requests about a page.
THEOREM PagesTypeCorrect == PagesSpec => []PagesTypeOK
<1>1. PagesInv => PagesTypeOK
  BY DEF PagesInv
<1> QED BY <1>1, PagesInvariance, PTL

\* What the application is told of its page is true (store_page_token, disconnect_page,
\* post_to_page, manage_post).
LEMMA ToldTrulyAlways == PagesSpec => []ToldTruly
<1>1. PagesInv => ToldTruly
  <2> SUFFICES ASSUME PagesInv PROVE ToldTruly
    OBVIOUS
  <2>1. page.active => \E v \in PageVisit : visit[v].does = "connect" /\ visit[v].token = page.token
    BY DEF PagesInv, RowInv
  <2>2. ASSUME NEW v \in PageVisit, Visiting(v, "cancel", "success"), NEW p \in visit[v].token
        PROVE  posts[p] = "cancelled"
    BY <2>2 DEF PagesInv, PostInv, Visiting
  <2>3. ASSUME NEW v \in PageVisit, posts[v] = "cancelled"
        PROVE  \E c \in PageVisit : visit[c].does = "cancel" /\ v \in visit[c].token
    BY <2>3 DEF PagesInv, PostInv
  <2>4. \A v \in PageVisit : /\ posts[v] # "none" => visit[v].does = "publish"
                             /\ Visiting(v, "publish", "success") => posts[v] # "none"
    BY DEF PagesInv, PostInv
  <2>5. page.there /\ ~page.active =>
          \E v \in PageVisit : /\ visit[v].at \in {"success", "failed", "refused"}
                               /\ (visit[v].does = "disconnect" \/ (visit[v].does = "publish" /\ ~Accepted(v)))
    BY DEF PagesInv, InactiveInv, Over
  <2> QED BY <2>1, <2>2, <2>3, <2>4, <2>5 DEF ToldTruly
<1> QED BY <1>1, PagesInvariance, PTL

\* What a step does to the connection, and to the request v that stores a token.
ConnectionStep ==
    /\ page.active /\ ~page'.active =>
          \E v \in PageVisit : /\ visit[v].row.active
                              /\ (Visiting(v, "disconnect", "read") \/ Expired(v))
    /\ ~page.active /\ page'.active =>
          \E v \in PageVisit : /\ Visiting(v, "connect", "read") /\ ~visit[v].row.active
                              /\ page'.token = visit[v].token
    /\ \A v \in PageVisit : Visiting(v, "connect", "read") /\ Visiting(v, "connect", "success")' =>
          /\ page'.token = visit[v].token
          /\ page'.active \/ (visit[v].row.active /\ ~page.active)

\* Three actions change the row, and one of them ends a request that connects.
LEMMA StepsOfConnection == ASSUME PagesInv, PagesNext PROVE ConnectionStep
<1>1. PagesTypeOK /\ VisitInv
  BY DEF PagesInv
<1>2. ASSUME NEW v \in PageVisit, StoreToken(v) PROVE ConnectionStep
  <2>1. Visiting(v, "connect", "read") /\ \A w \in PageVisit \ {v} : visit'[w] = visit[w]
    BY <1>1, <1>2 DEF StoreToken, Commits, Becomes, PagesTypeOK
  <2>2. \A w \in PageVisit \ {v} : ~(Visiting(w, "connect", "read") /\ Visiting(w, "connect", "success")')
    BY <2>1 DEF Visiting
  <2>3. PICK row : row = [there |-> TRUE, active |-> (visit[v].row.active => page.active), token |-> visit[v].token]
    OBVIOUS
  <2>4. page' \in {page, row} /\ (visit'[v].at = "success" => page' = row)
    BY <1>1, <1>2, <2>3 DEF StoreToken, Commits, Becomes, PagesTypeOK
  <2>5. row.token = visit[v].token /\ (row.active <=> (visit[v].row.active => page.active))
    BY <2>3
  <2> QED BY <2>1, <2>2, <2>4, <2>5 DEF ConnectionStep, Visiting
<1>3. ASSUME NEW v \in PageVisit, Disconnect(v) PROVE ConnectionStep
  <2>1. /\ Visiting(v, "disconnect", "read") /\ \A w \in PageVisit \ {v} : visit'[w] = visit[w]
        /\ page' \in {page, [page EXCEPT !.active = @ /\ ~visit[v].row.active]}
    BY <1>1, <1>3 DEF Disconnect, Commits, Becomes, PagesTypeOK
  <2>2. page'.active => page.active
    BY <1>1, <2>1 DEF PagesTypeOK, PageRow
  <2>3. page.active /\ ~page'.active => visit[v].row.active
    BY <1>1, <2>1 DEF PagesTypeOK, PageRow
  <2> QED BY <2>1, <2>2, <2>3 DEF ConnectionStep, Visiting
<1>4. ASSUME NEW v \in PageVisit, RefuseToken(v) PROVE ConnectionStep
  <2>1. /\ Expired(v) /\ Visiting(v, "publish", "send") /\ \A w \in PageVisit \ {v} : visit'[w] = visit[w]
        /\ page' \in {page, [page EXCEPT !.active = FALSE]}
    BY <1>1, <1>4 DEF RefuseToken, Expired, Commits, Becomes, PagesTypeOK
  <2>2. page'.active => page.active
    BY <1>1, <2>1 DEF PagesTypeOK, PageRow
  <2>3. visit[v].row.active
    BY <1>1, <2>1 DEF VisitInv, Visiting
  <2> QED BY <2>1, <2>2, <2>3 DEF ConnectionStep, Visiting
<1>5. ASSUME UNCHANGED page,
             \A v \in PageVisit : Visiting(v, "connect", "read") =>
                visit'[v] = visit[v] \/ visit'[v].at # "success"
      PROVE  ConnectionStep
  BY <1>5 DEF ConnectionStep, Visiting
<1>6. ASSUME NEW v \in PageVisit, NEW t \in PageToken, Verify(v, t) PROVE ConnectionStep
  BY <1>1, <1>5, <1>6 DEF Verify, PagesTypeOK, Visiting
<1>7. ASSUME NEW v \in PageVisit, ReadConnection(v) PROVE ConnectionStep
  BY <1>1, <1>5, <1>7 DEF ReadConnection, PagesTypeOK, Visiting
<1>8. ASSUME NEW v \in PageVisit, NEW does, NEW place, Reads(v, does, place), UNCHANGED page PROVE ConnectionStep
  BY <1>1, <1>5, <1>8 DEF Reads, PagesTypeOK, Visiting
<1>9. ASSUME NEW v \in PageVisit, NEW how \in Live, Publish(v, how) PROVE ConnectionStep
  BY <1>1, <1>5, <1>9 DEF Publish, Becomes, PagesTypeOK, Visiting
<1>10. ASSUME NEW v \in PageVisit, NEW p \in PageVisit, Inspect(v, p) PROVE ConnectionStep
  BY <1>1, <1>5, <1>10 DEF Inspect, Becomes, PagesTypeOK, Visiting
<1>11. ASSUME NEW v \in PageVisit, ActOnPost(v) PROVE ConnectionStep
  <2>1. visit[v].at = "act" /\ UNCHANGED page /\ \A w \in PageVisit \ {v} : visit'[w] = visit[w]
    BY <1>1, <1>11 DEF ActOnPost, Becomes, PagesTypeOK
  <2> QED BY <1>5, <2>1 DEF Visiting
<1>12. CASE FacebookStep
  BY <1>5, <1>12 DEF FacebookStep
<1>13. ASSUME NEW v \in PageVisit, BeginDisconnect(v) \/ \E does \in {"publish", "cancel", "change"} : UseToken(v, does)
       PROVE  ConnectionStep
  BY <1>8, <1>13 DEF BeginDisconnect, UseToken
<1> QED BY <1>2, <1>3, <1>4, <1>6, <1>7, <1>9, <1>10, <1>11, <1>12, <1>13 DEF PagesNext

\* facebook/router.py: whatever requests overtake each other, a page is disconnected by
\* one that found it connected, and connected again by one that found it disconnected.
LEMMA ConnectionsAreHeld == PagesSpec => ConnectionsHold
<1>1. PagesInv /\ [PagesNext]_pageVars => [ConnectionStep]_pageVars
  BY StepsOfConnection
<1>2. PagesInv /\ [PagesNext]_pageVars =>
         [/\ page.active /\ ~page'.active =>
                \E v \in PageVisit : /\ visit[v].row.active
                                    /\ (Visiting(v, "disconnect", "read") \/ Expired(v))
          /\ ~page.active /\ page'.active =>
                \E v \in PageVisit : /\ Visiting(v, "connect", "read") /\ ~visit[v].row.active
                                    /\ page'.token = visit[v].token
          /\ \A v \in PageVisit : Visiting(v, "connect", "read") /\ Visiting(v, "connect", "success")' =>
                /\ page'.token = visit[v].token
                /\ page'.active \/ (visit[v].row.active /\ ~page.active)]_pageVars
  BY <1>1 DEF ConnectionStep
<1> QED BY <1>2, PagesInvariance, PTL DEF PagesSpec, ConnectionsHold

\* facebook/router.py: what an application is told of its page and posts is true, and its
\* connections hold.
THEOREM PagesAreTrue == PagesSpec => PageIsTrue
<1> QED BY ToldTrulyAlways, ConnectionsAreHeld DEF PageIsTrue
-----------------------------------------------------------------------------
(***************************************************************************)
(* LogArchive.                                                             *)
(***************************************************************************)
\* Where records are: two batches of the archive, or waiting for it, share none, and
\* what is recovered is split at the same places every time.
Batches == pending \cup bucket

\* No record is there twice, but for the pieces of those in R.
Unique(lines, R) == \A i, j \in DOMAIN lines : lines[i] = lines[j] => i = j \/ lines[i] \in R

\* The records of a sequence of lines; a substitute is none.
Of(l) == RecordsOf(l) \cap (1 .. MaxRecords)

\* Two sequences have no record in common.
Apart(l, m) == Of(l) \cap Of(m) = {}

\* Where a recovered file may be cut.
Boundary(n) == \E k \in Nat : n = k * MaxEntries

\* A batch that is a part of the file that is being recovered: it was stored before the process stopped.
PartOfRecovered(b) == \E n \in Nat : Boundary(n) /\ n < Len(Restored) /\ b = Part(n)

\* The types: every record that is anywhere was logged.
LogTypes ==
    /\ LogTypeOK
    /\ \A l \in Batches \cup {gateway.lines, recovering.lines} : Of(l) \subseteq 1 .. logged

\* No record is in two places, except that a recovered file is still there while its parts are stored.
Separate ==
    /\ Unique(gateway.lines, ragged) /\ Unique(recovering.lines, ragged)
    /\ \A b, c \in Batches : b = c \/ Apart(b, c)
    /\ \A b \in Batches : /\ b # <<>> /\ Apart(b, gateway.lines)
                          /\ Apart(b, recovering.lines) \/ PartOfRecovered(b)

\* The handler, and a process that starts.
Handler ==
    /\ logger.at = "seal" \/ (logger.at = "open" /\ logger.count > 0) => gateway.lines # <<>>
    /\ gateway = NoLog \/ (gateway.there /\ recovering = NoLog)
    /\ Serving => recovering = NoLog
    /\ logger.at = "reopen" => gateway = NoLog
    /\ logger.at = "claim" => logger.count = 0
    /\ logger.at = "split" =>
          /\ gateway = NoLog
          /\ \/ logger.count = Len(recovering.lines)
             \/ Boundary(logger.count) /\ logger.count < Len(recovering.lines)
          /\ \A i \in 1 .. logger.count : HasRecord(Batches, Restored[i])

\* The loop removes what it has uploaded.
Loop ==
    /\ round.files \subseteq pending
    /\ round.at = "unlink" => round.file \in bucket

\* Every record is somewhere, or a substitute for it is.
Somewhere(n) ==
    n \in RecordsOf(gateway.lines) \/ n \in RecordsOf(recovering.lines) \/ HasRecord(Batches, n)
Substituted == \E m \in 1 .. MaxRecords : HasRecord(Batches, MaxRecords + m)
Covered == \A n \in 1 .. logged : Somewhere(n) \/ (n \in ragged /\ Substituted)

\* The inductive invariant of the archive.
LogInv == LogTypes /\ Separate /\ Handler /\ Loop /\ Covered

\* The records of a sequence, and of one with one more.
LEMMA RecordsAppended ==
    ASSUME NEW S, NEW l \in Seq(S), NEW x, NEW R
    PROVE  /\ RecordsOf(Append(l, x)) = RecordsOf(l) \cup {x}
           /\ Append(l, x) # <<>>
           /\ Unique(l, R) /\ (x \notin RecordsOf(l) \/ x \in R) => Unique(Append(l, x), R)
<1>1. PICK m : m = Append(l, x)
  OBVIOUS
<1>2. /\ Len(l) \in Nat /\ DOMAIN l = 1 .. Len(l) /\ DOMAIN m = 1 .. Len(l) + 1
      /\ m[Len(l) + 1] = x /\ \A i \in 1 .. Len(l) : m[i] = l[i]
  BY <1>1
<1>3. RecordsOf(m) = RecordsOf(l) \cup {x}
  BY <1>2 DEF RecordsOf
<1>4. m # <<>>
  BY <1>2
<1>5. ASSUME Unique(l, R), x \notin RecordsOf(l) \/ x \in R PROVE Unique(m, R)
  BY <1>2, <1>5 DEF Unique, RecordsOf
<1> QED BY <1>1, <1>3, <1>4, <1>5

\* Boundaries are a batch apart.
LEMMA BoundariesApart ==
    ASSUME NEW n \in Nat, NEW m \in Nat, Boundary(n), Boundary(m), n < m
    PROVE  n + MaxEntries <= m
<1>1. PICK k \in Nat : n = k * MaxEntries
  BY DEF Boundary
<1>2. PICK j \in Nat : m = j * MaxEntries
  BY DEF Boundary
<1>3. MaxEntries \in Nat /\ MaxEntries >= 1
  BY MaxEntriesAssumption
<1>4. k < j
  BY <1>1, <1>2, <1>3
<1>5. PICK d \in Nat : j = k + 1 + d
  <2>1. j - k - 1 \in Nat /\ j = k + 1 + (j - k - 1)
    BY <1>4
  <2> QED BY <2>1
<1>6. j * MaxEntries = k * MaxEntries + MaxEntries + d * MaxEntries
  BY <1>3, <1>5
<1>7. d * MaxEntries >= 0
  BY <1>3
<1> QED BY <1>1, <1>2, <1>3, <1>6, <1>7

\* The next boundary.
LEMMA NextBoundary ==
    ASSUME NEW n \in Nat, Boundary(n)
    PROVE  Boundary(n + MaxEntries)
<1>1. PICK k \in Nat : n = k * MaxEntries
  BY DEF Boundary
<1>2. n + MaxEntries = (k + 1) * MaxEntries
  BY <1>1, MaxEntriesAssumption
<1> QED BY <1>2 DEF Boundary

\* A function on an initial segment is a sequence.
LEMMA FunctionIsSeq ==
    ASSUME NEW S, NEW n \in Nat, NEW r \in [1 .. n -> S]
    PROVE  r \in Seq(S) /\ Len(r) = n
<1>1. r \in Seq(S)
  OBVIOUS
<1> QED BY <1>1, LenProperties

\* What is read of a recovered file: its whole records, and substitutes, which are none.
LEMMA RestoredIs ==
    ASSUME recovering.lines \in Seq(1 .. MaxRecords)
    PROVE  /\ Restored \in Seq(1 .. 2 * MaxRecords) /\ Len(Restored) = Len(recovering.lines)
           /\ DOMAIN Restored = DOMAIN recovering.lines /\ DOMAIN Restored = 1 .. Len(Restored)
           /\ \A i \in DOMAIN Restored :
                 \/ Restored[i] = recovering.lines[i] /\ recovering.lines[i] \notin ragged
                 \/ /\ recovering.lines[i] \in ragged
                    /\ Restored[i] \notin 1 .. MaxRecords
                    /\ \E m \in 1 .. MaxRecords : Restored[i] = MaxRecords + m
           /\ Of(Restored) \subseteq RecordsOf(recovering.lines)
<1> DEFINE l == recovering.lines
<1>1. PICK n \in Nat : n = Len(l) /\ DOMAIN l = 1 .. n
  BY LenProperties
<1>2. \A i \in 1 .. n : l[i] \in 1 .. MaxRecords
  BY <1>1, ElementOfSeq
<1>3. MaxRecords \in Nat
  BY LogBoundsAssumption
<1>4. n # 0 => Substitute \in 1 .. 2 * MaxRecords /\ \E m \in 1 .. MaxRecords : Substitute = MaxRecords + m
  <2>1. n # 0 => Substitute = MaxRecords + l[n] /\ l[n] \in 1 .. MaxRecords
    BY <1>1, <1>2 DEF Substitute
  <2>2. CASE n # 0
    <3>1. PICK m \in 1 .. MaxRecords : Substitute = MaxRecords + m
      BY <2>1, <2>2
    <3> QED BY <1>3, <3>1
  <2> QED BY <2>2
<1>5. PICK r : r = Restored
  OBVIOUS
<1>6. r = [i \in 1 .. n |-> IF l[i] \in ragged THEN Substitute ELSE l[i]]
  BY <1>1, <1>5 DEF Restored
<1>7. \A i \in 1 .. n : r[i] = IF l[i] \in ragged THEN Substitute ELSE l[i]
  BY <1>6
<1>8. \A i \in 1 .. n : r[i] \in 1 .. 2 * MaxRecords
  <2>1. n \in Nat /\ \A i \in 1 .. n : n # 0 /\ l[i] \in 1 .. 2 * MaxRecords
    BY <1>1, <1>2, <1>3
  <2> QED BY <1>4, <1>7, <2>1
<1>9. r \in Seq(1 .. 2 * MaxRecords) /\ Len(r) = n /\ DOMAIN r = 1 .. n
  <2>1. r = [i \in 1 .. n |-> r[i]]
    BY <1>6
  <2>2. r \in [1 .. n -> 1 .. 2 * MaxRecords] /\ DOMAIN r = 1 .. n
    BY <1>8, <2>1
  <2> QED BY <1>1, <2>2, FunctionIsSeq
<1>10. ASSUME NEW i \in 1 .. n
       PROVE  \/ r[i] = l[i] /\ l[i] \notin ragged
              \/ /\ l[i] \in ragged /\ r[i] \notin 1 .. MaxRecords
                 /\ \E m \in 1 .. MaxRecords : r[i] = MaxRecords + m
  <2>1. CASE l[i] \in ragged
    <3>1. r[i] = Substitute /\ n # 0
      BY <1>1, <1>7, <2>1
    <3>2. PICK m \in 1 .. MaxRecords : r[i] = MaxRecords + m
      BY <1>4, <3>1
    <3> QED BY <1>3, <2>1, <3>2
  <2> QED BY <1>7, <2>1
<1>11. ASSUME NEW x \in Of(r) PROVE x \in RecordsOf(l)
  <2>1. PICK i \in 1 .. n : x = r[i] /\ x \in 1 .. MaxRecords
    BY <1>9 DEF Of, RecordsOf
  <2>2. x = l[i]
    BY <1>10, <2>1
  <2> QED BY <1>1, <2>2 DEF RecordsOf
<1> QED BY <1>1, <1>5, <1>9, <1>10, <1>11

\* Where the batch ends that begins after n of len lines.
LEMMA CutAt ==
    ASSUME NEW n \in Nat, NEW len \in Nat, n < len,
           NEW e, e = IF n + MaxEntries < len THEN n + MaxEntries ELSE len
    PROVE  e \in Nat /\ n + 1 <= e /\ e <= len /\ (e = len \/ e = n + MaxEntries) /\ e <= n + MaxEntries
  BY MaxEntriesAssumption

\* What is in a batch of what is recovered.
LEMMA PartIs ==
    ASSUME NEW S, Restored \in Seq(S), NEW n \in Nat, n < Len(Restored)
    PROVE  /\ Part(n) \in Seq(S) /\ Part(n) # <<>>
           /\ n + Len(Part(n)) \in n + 1 .. Len(Restored)
           /\ n + Len(Part(n)) = Len(Restored) \/ n + Len(Part(n)) = n + MaxEntries
           /\ n + Len(Part(n)) <= n + MaxEntries
           /\ \A x : x \in RecordsOf(Part(n)) <=>
                 \E i \in DOMAIN Restored : n < i /\ i <= n + Len(Part(n)) /\ x = Restored[i]
<1>0. PICK l : l = Restored
  OBVIOUS
<1>1. PICK e : e = IF n + MaxEntries < Len(l) THEN n + MaxEntries ELSE Len(l)
  OBVIOUS
<1>2. l \in Seq(S) /\ Len(l) \in Nat /\ DOMAIN l = 1 .. Len(l) /\ n < Len(l)
  BY <1>0, LenProperties
<1>3. e \in Nat /\ n + 1 <= e /\ e <= Len(l)
  BY <1>0, <1>1, <1>2, CutAt, Zenon
<1>c. (e = Len(l) \/ e = n + MaxEntries) /\ e <= n + MaxEntries
  BY <1>0, <1>1, <1>2, CutAt, Zenon
<1>4. PICK p : p = SubSeq(l, n + 1, e)
  OBVIOUS
<1>5. \A i \in n + 1 .. e : l[i] \in S
  BY <1>2, <1>3
<1>6. p \in Seq(S) /\ Len(p) = e - n /\ \A i \in 1 .. e - n : p[i] = l[i + n]
  <2>1. /\ p \in Seq(S)
        /\ Len(p) = IF n + 1 <= e THEN e - (n + 1) + 1 ELSE 0
        /\ \A i \in 1 .. e - (n + 1) + 1 : p[i] = l[n + 1 + i - 1]
    BY <1>2, <1>3, <1>4, <1>5, SubSeqProperties
  <2>2. e - (n + 1) + 1 = e - n
    BY <1>3
  <2>3. \A i \in 1 .. e - n : n + 1 + i - 1 = i + n
    BY <1>3
  <2> QED BY <1>3, <2>1, <2>2, <2>3
<1>7. Part(n) = p
  BY <1>0, <1>1, <1>4 DEF Part
<1>8. p # <<>>
  BY <1>3, <1>6
<1>9. ASSUME NEW x
      PROVE x \in RecordsOf(p) <=> \E i \in DOMAIN l : n < i /\ i <= e /\ x = l[i]
  <2>1. ASSUME NEW j \in DOMAIN p, x = p[j] PROVE \E i \in DOMAIN l : n < i /\ i <= e /\ x = l[i]
    <3>1. j \in 1 .. e - n
      BY <1>6
    <3>2. j + n \in DOMAIN l /\ n < j + n /\ j + n <= e
      BY <1>2, <1>3, <3>1
    <3> QED BY <1>6, <2>1, <3>1, <3>2
  <2>2. ASSUME NEW i \in DOMAIN l, n < i, i <= e, x = l[i] PROVE \E j \in DOMAIN p : x = p[j]
    <3>1. i - n \in 1 .. e - n /\ i - n + n = i
      BY <1>2, <1>3, <2>2
    <3>2. i - n \in DOMAIN p
      BY <1>3, <1>6, <3>1
    <3> QED BY <1>6, <2>2, <3>1, <3>2
  <2> QED BY <2>1, <2>2 DEF RecordsOf
<1>10. n + Len(p) = e
  BY <1>3, <1>6
<1>11. e \in n + 1 .. Len(l)
  BY <1>2, <1>3
<1> QED BY <1>0, <1>6, <1>7, <1>8, <1>9, <1>10, <1>11, <1>c
\* A file that is not there has no records.
LEMMA NoRecords ==
    /\ NoLog \in LogFile /\ NoLog.lines = <<>> /\ ~NoLog.there
    /\ Log(<<>>) \in LogFile /\ Log(<<>>).lines = <<>>
    /\ RecordsOf(<<>>) = {} /\ \A R : Unique(<<>>, R)
<1>1. <<>> \in Lines /\ DOMAIN <<>> = {}
  BY DEF Lines
<1> QED BY <1>1 DEF NoLog, Log, LogFile, RecordsOf, Unique

\* The lines of a file are records.
LEMMA OfFile ==
    ASSUME NEW l \in Lines
    PROVE  Of(l) = RecordsOf(l) /\ RecordsOf(l) \subseteq 1 .. MaxRecords
<1>1. \A i \in DOMAIN l : l[i] \in 1 .. MaxRecords
  BY LenProperties, ElementOfSeq DEF Lines
<1> QED BY <1>1 DEF Of, RecordsOf

\* A file that is moved is a batch.
LEMMA LinesAreBatch == Lines \subseteq Batch
<1>1. 1 .. MaxRecords \subseteq 1 .. 2 * MaxRecords
  BY LogBoundsAssumption
<1>2. ASSUME NEW l \in Lines PROVE l \in Batch
  <2>1. Len(l) \in Nat /\ l \in [1 .. Len(l) -> 1 .. MaxRecords]
    BY LenProperties DEF Lines
  <2>2. l \in [1 .. Len(l) -> 1 .. 2 * MaxRecords]
    BY <1>1, <2>1
  <2> QED BY <2>1, <2>2, FunctionIsSeq DEF Batch
<1> QED BY <1>2

\* A step that moves no record from where it is.
LEMMA SameRecords ==
    ASSUME LogInv, Batches' = Batches, gateway'.lines = gateway.lines, recovering' = recovering,
           logged' = logged, ragged' = ragged
    PROVE  /\ Separate' /\ Covered'
           /\ (\A l \in Batches \cup {gateway.lines, recovering.lines} : Of(l) \subseteq 1 .. logged)'
<1>1. \A b : PartOfRecovered(b)' <=> PartOfRecovered(b)
  BY DEF PartOfRecovered, Part, Restored, Substitute
<1>2. Separate'
  BY <1>1 DEF LogInv, Separate
<1>3. Covered'
  BY DEF LogInv, Covered, Somewhere, Substituted
<1> QED BY <1>2, <1>3 DEF LogInv, LogTypes

\* emit
LEMMA EmitStep == ASSUME LogInv, Emit PROVE LogInv'
<1> DEFINE g == gateway.lines
           n == logged + 1
<1>1. LogTypeOK /\ g \in Lines /\ g \in Seq(1 .. MaxRecords) /\ logged \in 0 .. MaxRecords /\ ragged \subseteq 1 .. logged
  BY DEF LogInv, LogTypes, LogTypeOK, LogFile, Lines
<1>2. logged < MaxRecords /\ logged' = n /\ n \in 1 .. MaxRecords
  BY <1>1, LogBoundsAssumption DEF Emit
<1>3. PICK f : f = Append(g, n)
  OBVIOUS
<1>4. PICK h : /\ gateway' = Log(h) /\ ragged \subseteq ragged' /\ ragged' \subseteq ragged \cup {n}
               /\ h = f \/ (h = Append(f, n) /\ n \in ragged')
  BY <1>2, <1>3 DEF Emit
<1>5. UNCHANGED <<recovering, pending, bucket, round, troubles>> /\ Batches' = Batches
  BY DEF Emit, Batches
<1>6. recovering = NoLog
  BY DEF Emit, LogInv, Handler, Serving
<1>7. /\ \A l \in Batches \cup {g, recovering.lines} : Of(l) \subseteq 1 .. logged
      /\ RecordsOf(g) \subseteq 1 .. logged
  BY <1>1, OfFile DEF LogInv, LogTypes
<1>8. n \notin 1 .. logged /\ 1 .. n = (1 .. logged) \cup {n}
  BY <1>1
<1>9. f \in Seq(1 .. MaxRecords) /\ RecordsOf(f) = RecordsOf(g) \cup {n} /\ f # <<>> /\ Unique(f, ragged')
  <2>1. Unique(g, ragged') /\ n \notin RecordsOf(g)
    BY <1>4, <1>7, <1>8 DEF LogInv, Separate, Unique
  <2> QED BY <1>1, <1>2, <1>3, <2>1, RecordsAppended
<1>10. h \in Seq(1 .. MaxRecords) /\ RecordsOf(h) = RecordsOf(g) \cup {n} /\ h # <<>> /\ Unique(h, ragged')
  <2>1. CASE h = f
    BY <1>9, <2>1
  <2>2. CASE h = Append(f, n) /\ n \in ragged'
    <3>1. RecordsOf(h) = RecordsOf(f) \cup {n} /\ h # <<>> /\ Unique(h, ragged')
      BY <1>9, <2>2, RecordsAppended
    <3> QED BY <1>2, <1>9, <2>2, <3>1
  <2> QED BY <1>4, <2>1, <2>2
<1>11. gateway' \in LogFile /\ gateway'.lines = h /\ gateway'.there /\ gateway' # NoLog
  BY <1>4, <1>10 DEF Log, NoLog, LogFile, Lines
<1>12. logger' \in [at : {"open", "seal"}, count : Nat]
  BY <1>1 DEF Emit, LogTypeOK
<1>13. LogTypes'
  <2>1. LogTypeOK'
    BY <1>1, <1>2, <1>4, <1>5, <1>8, <1>11, <1>12, LogBoundsAssumption DEF LogTypeOK
  <2>2. Of(h) \subseteq 1 .. n
    BY <1>7, <1>8, <1>10 DEF Of
  <2> QED BY <1>2, <1>5, <1>7, <1>8, <1>11, <2>1, <2>2 DEF LogTypes
<1>14. Separate'
  <2>1. \A b \in Batches : Of(b) \subseteq 1 .. logged
    BY <1>7
  <2>2. \A b \in Batches : Apart(b, g) => Apart(b, h)
    BY <1>8, <1>10, <2>1 DEF Apart, Of
  <2>3. \A b : PartOfRecovered(b)' <=> PartOfRecovered(b)
    <3>1. Restored' = Restored
      BY <1>5, <1>6, NoRecords DEF Restored
    <3> QED BY <3>1 DEF PartOfRecovered, Part
  <2>4. Unique(recovering'.lines, ragged')
    BY <1>5, <1>6, NoRecords
  <2> QED BY <1>5, <1>10, <1>11, <2>2, <2>3, <2>4 DEF LogInv, Separate
<1>15. Handler'
  BY <1>5, <1>6, <1>10, <1>11, <1>12 DEF Handler
<1>16. Loop'
  BY <1>5 DEF LogInv, Loop
<1>17. Covered'
  BY <1>2, <1>4, <1>5, <1>8, <1>10, <1>11 DEF LogInv, Covered, Somewhere, Substituted
<1> QED BY <1>13, <1>14, <1>15, <1>16, <1>17 DEF LogInv

\* _seal: the file becomes a batch, and its records belong to no other.
LEMMA MoveStep == ASSUME LogInv, MoveActive PROVE LogInv'
<1> DEFINE g == gateway.lines
<1>1. LogTypeOK /\ g \in Lines
  BY DEF LogInv, LogTypes, LogTypeOK, LogFile
<1>2. /\ pending' = pending \cup {g} /\ gateway' = NoLog /\ Batches' = Batches \cup {g}
      /\ UNCHANGED <<recovering, bucket, round, logged, ragged, troubles>>
      /\ logger' = [logger EXCEPT !.at = "reopen"] /\ logger.at = "seal"
  BY DEF MoveActive, Batches
<1>3. recovering = NoLog /\ g # <<>>
  BY <1>2 DEF LogInv, Handler, Serving
<1>4. logger' \in [at : {"reopen"}, count : Nat]
  BY <1>1, <1>2 DEF LogTypeOK
<1>5. LogTypes'
  <2>1. LogTypeOK'
    BY <1>1, <1>2, <1>4, NoRecords, LinesAreBatch DEF LogTypeOK
  <2>2. \A l \in Batches \cup {g, recovering.lines} : Of(l) \subseteq 1 .. logged
    BY DEF LogInv, LogTypes
  <2>3. Of(<<>>) = {}
    BY NoRecords DEF Of
  <2> QED BY <1>2, <2>1, <2>2, <2>3, NoRecords DEF LogTypes
<1>6. Separate'
  <2>1. \A b : PartOfRecovered(b)' <=> PartOfRecovered(b)
    BY <1>2 DEF PartOfRecovered, Part, Restored, Substitute
  <2>2. \A b : Apart(b, <<>>)
    BY NoRecords DEF Apart, Of
  <2>3. \A b \in Batches : Apart(b, g) /\ Apart(g, b)
    BY DEF LogInv, Separate, Apart
  <2> QED BY <1>2, <1>3, <2>1, <2>2, <2>3, NoRecords DEF LogInv, Separate
<1>7. Handler'
  BY <1>2, <1>3, <1>4 DEF Handler
<1>8. Loop'
  BY <1>2 DEF LogInv, Loop
<1>9. Covered'
  BY <1>2 DEF LogInv, Covered, Somewhere, Substituted, HasRecord
<1> QED BY <1>5, <1>6, <1>7, <1>8, <1>9 DEF LogInv

\* CloseLog, Reopen, SealFails, BeginRound and StopLogger move no record.
LEMMA QuietSteps == ASSUME LogInv, CloseLog \/ Reopen \/ SealFails \/ BeginRound \/ StopLogger PROVE LogInv'
<1>1. LogTypeOK
  BY DEF LogInv, LogTypes
<1>2. /\ UNCHANGED <<recovering, pending, bucket, logged, ragged>> /\ Batches' = Batches
      /\ gateway' \in {gateway, Log(gateway.lines)} /\ gateway'.lines = gateway.lines
  BY DEF CloseLog, Reopen, SealFails, BeginRound, StopLogger, Batches, Log
<1>3. gateway' \in LogFile
  <2>1. gateway \in LogFile /\ gateway.lines \in Lines
    BY <1>1 DEF LogTypeOK, LogFile
  <2>2. Log(gateway.lines) \in LogFile
    BY <2>1 DEF LogFile, Log
  <2> QED BY <1>2, <2>1, <2>2
<1>4. troubles' \in 0 .. MaxTroubles
  BY <1>1, LogBoundsAssumption DEF CloseLog, Reopen, SealFails, BeginRound, StopLogger, Trouble, LogTypeOK
<1>5. logger' \in [at : {"open", "shut", "seal", "reopen", "claim", "split"}, count : Nat]
  BY <1>1 DEF CloseLog, Reopen, SealFails, BeginRound, StopLogger, LogTypeOK
<1>6. round' \in [at : {"sleep", "put", "unlink"}, files : SUBSET Batch, file : Batch] /\ Loop'
  <2>1. UNCHANGED round \/ round' = NoRound \/ round' = [at |-> "put", files |-> pending, file |-> <<>>]
    BY DEF CloseLog, Reopen, SealFails, BeginRound, StopLogger
  <2>2. <<>> \in Batch
    BY DEF Batch
  <2> QED BY <1>1, <1>2, <2>1, <2>2 DEF LogInv, LogTypeOK, Loop, NoRound
<1>7. LogTypes' /\ Separate' /\ Covered'
  BY <1>1, <1>2, <1>3, <1>4, <1>5, <1>6, SameRecords DEF LogTypes, LogTypeOK
<1>8. Handler'
  <2>1. CASE CloseLog
    BY <1>1, <2>1 DEF LogInv, Handler, CloseLog, Serving, LogTypeOK
  <2>2. CASE Reopen
    <3>1. recovering = NoLog /\ gateway' = Log(gateway.lines) /\ gateway'.there /\ logger'.at = "open" /\ logger'.count = 0
      BY <2>2 DEF LogInv, Handler, Reopen, Serving, Log
    <3> QED BY <1>2, <3>1 DEF Handler
  <2>3. CASE SealFails
    <3>1. recovering = NoLog /\ gateway' = gateway /\ logger'.at = "shut"
      BY <1>1, <2>3 DEF LogInv, Handler, SealFails, Serving, LogTypeOK
    <3> QED BY <1>2, <3>1 DEF LogInv, Handler
  <2>4. CASE BeginRound
    <3>1. UNCHANGED <<gateway, logger>> /\ logger.at # "split"
      BY <2>4 DEF BeginRound, Serving
    <3> QED BY <1>2, <3>1 DEF LogInv, Handler, Serving
  <2>5. CASE StopLogger
    <3>1. UNCHANGED gateway /\ logger'.at = "claim" /\ logger'.count = 0
      BY <2>5 DEF StopLogger
    <3> QED BY <1>2, <3>1 DEF LogInv, Handler, Serving
  <2> QED BY <2>1, <2>2, <2>3, <2>4, <2>5
<1> QED BY <1>6, <1>7, <1>8 DEF LogInv

\* An upload adds what is pending, and a removal takes what has been uploaded.
LEMMA UploadSteps ==
    ASSUME LogInv, NEW b \in pending, Put(b) \/ Unlink(b) \/ RoundFails(b)
    PROVE  LogInv'
<1>1. LogTypeOK /\ NextFile(b)
  BY DEF LogInv, LogTypes, Put, Unlink, RoundFails
<1>2. UNCHANGED <<gateway, recovering, logger, logged, ragged>>
  BY DEF Put, Unlink, RoundFails
<1>3. /\ pending' \subseteq pending /\ bucket' \subseteq Batches /\ Batches' = Batches
  <2>1. Unlink(b) => b \in bucket
    BY <1>1 DEF LogInv, Loop, Unlink, NextFile
  <2> QED BY <2>1 DEF Put, Unlink, RoundFails, Batches
<1>4. troubles' \in 0 .. MaxTroubles
  BY <1>1, LogBoundsAssumption DEF Put, Unlink, RoundFails, Trouble, LogTypeOK
<1>5. round' \in [at : {"sleep", "put", "unlink"}, files : SUBSET Batch, file : Batch] /\ Loop'
  <2>1. b \in Batch /\ <<>> \in Batch
    BY <1>1 DEF LogTypeOK, Batch
  <2>2. CASE Put(b)
    <3>1. round' = [round EXCEPT !.at = "unlink", !.file = b] /\ bucket' = bucket \cup {b} /\ pending' = pending
      BY <2>2 DEF Put
    <3> QED BY <1>1, <2>1, <3>1 DEF LogInv, Loop, LogTypeOK
  <2>3. CASE ~Put(b)
    <3>1. \/ round' = NoRound
          \/ round' = [at |-> "put", files |-> round.files \ {b}, file |-> <<>>] /\ pending' = pending \ {b}
      BY <2>3 DEF Unlink, RoundFails
    <3> QED BY <1>1, <2>1, <3>1 DEF LogInv, Loop, LogTypeOK, NoRound
  <2> QED BY <2>2, <2>3
<1>6. LogTypes' /\ Separate' /\ Covered'
  <2>1. pending' \subseteq Batch /\ bucket' \subseteq Batch
    BY <1>1, <1>3 DEF LogTypeOK, Batches
  <2> QED BY <1>1, <1>2, <1>3, <1>4, <1>5, <2>1, SameRecords DEF LogTypes, LogTypeOK
<1>7. Handler'
  <2>1. Restored' = Restored
    BY <1>2 DEF Restored, Substitute
  <2> QED BY <1>2, <1>3, <2>1 DEF LogInv, Handler, Serving
<1> QED BY <1>5, <1>6, <1>7 DEF LogInv

\* The next process claims the file that was active.
LEMMA ClaimLogStep == ASSUME LogInv, ClaimLog PROVE LogInv'
<1>1. LogTypeOK /\ logger.at = "claim" /\ logger.count = 0
  BY DEF LogInv, LogTypes, ClaimLog, Handler
<1>2. UNCHANGED <<pending, bucket, round, logged, ragged, troubles>> /\ Batches' = Batches
  BY DEF ClaimLog, Batches
<1>3. logger'.at = "split" /\ logger'.count = 0 /\ logger' \in [at : {"split"}, count : Nat]
  BY <1>1 DEF ClaimLog, LogTypeOK
<1>4. Boundary(0)
  BY MaxEntriesAssumption DEF Boundary
<1>5. gateway' = NoLog /\ recovering' = IF gateway.there THEN gateway ELSE recovering
  BY NoRecords DEF ClaimLog, LogInv, Handler
<1>6. /\ recovering' \in LogFile /\ Len(recovering'.lines) \in Nat
      /\ logger'.count = Len(recovering'.lines) \/ logger'.count < Len(recovering'.lines)
  <2>1. recovering' \in LogFile
    BY <1>1, <1>5 DEF LogTypeOK
  <2>2. Len(recovering'.lines) \in Nat
    BY <2>1 DEF LogFile, Lines
  <2> QED BY <1>3, <2>1, <2>2
<1>7. Handler'
  BY <1>3, <1>4, <1>5, <1>6 DEF Handler, Serving
<1>8. Loop'
  BY <1>2 DEF LogInv, Loop
<1>9. LogTypeOK'
  BY <1>1, <1>2, <1>3, <1>5, <1>6, NoRecords DEF LogTypeOK
<1>10. CASE ~gateway.there
  <2>1. gateway' = gateway /\ recovering' = recovering
    BY <1>5, <1>10 DEF LogInv, Handler
  <2> QED BY <1>2, <1>7, <1>8, <1>9, <2>1, SameRecords DEF LogInv, LogTypes
<1>11. CASE gateway.there
  <2>1. recovering' = gateway /\ recovering = NoLog /\ recovering.lines = <<>>
    BY <1>5, <1>11, NoRecords DEF LogInv, Handler
  <2>2. LogTypes'
    BY <1>2, <1>5, <1>9, <2>1, NoRecords DEF LogInv, LogTypes
  <2>3. Separate'
    <3>1. \A b : Apart(b, <<>>)
      BY NoRecords DEF Apart, Of
    <3> QED BY <1>2, <1>5, <2>1, <3>1, NoRecords DEF LogInv, Separate
  <2>4. Covered'
    BY <1>2, <1>5, <2>1, NoRecords DEF LogInv, Covered, Somewhere, Substituted
  <2> QED BY <1>7, <1>8, <2>2, <2>3, <2>4 DEF LogInv
<1> QED BY <1>10, <1>11

\* The same file is split at the same places, however often it is begun.
LEMMA SplitStep == ASSUME LogInv, Split PROVE LogInv'
<1> DEFINE f == recovering.lines
           n == logger.count
<1>l. PICK l : l = Restored
  OBVIOUS
<1>0. LogTypeOK /\ logger.at = "split" /\ n \in Nat /\ f \in Lines /\ f \in Seq(1 .. MaxRecords)
  BY DEF LogInv, LogTypes, LogTypeOK, LogFile, Lines, Split
<1>r. /\ l \in Seq(1 .. 2 * MaxRecords) /\ Len(l) = Len(f) /\ DOMAIN l = DOMAIN f /\ Of(l) \subseteq RecordsOf(f)
      /\ \A i \in DOMAIN l : l[i] \in 1 .. MaxRecords => l[i] = f[i] /\ l[i] \notin ragged
  BY <1>l, <1>0, RestoredIs
<1>1. LogTypeOK /\ logger.at = "split" /\ n \in Nat /\ Len(l) \in Nat /\ DOMAIN l = 1 .. Len(l)
  BY <1>0, <1>r, LenProperties
<1>2. n < Len(l) /\ Boundary(n) /\ gateway = NoLog
  BY <1>1, <1>r DEF LogInv, Handler, Split
<1>3. PICK p : p = Part(n)
  OBVIOUS
<1>4. PICK e : e = n + Len(p)
  OBVIOUS
<1>5. /\ p \in Batch /\ p # <<>> /\ e \in n + 1 .. Len(l)
      /\ \A x : x \in RecordsOf(p) <=> \E i \in DOMAIN l : n < i /\ i <= e /\ x = l[i]
  <2>1. Restored \in Seq(1 .. 2 * MaxRecords) /\ n < Len(Restored)
    BY <1>2, <1>l, <1>r
  <2>2. /\ Part(n) \in Seq(1 .. 2 * MaxRecords) /\ Part(n) # <<>>
        /\ n + Len(Part(n)) \in n + 1 .. Len(Restored)
        /\ \A x : x \in RecordsOf(Part(n)) <=>
              \E i \in DOMAIN Restored : n < i /\ i <= n + Len(Part(n)) /\ x = Restored[i]
    BY <1>1, <2>1, PartIs, Zenon
  <2> QED BY <1>3, <1>4, <1>l, <2>2, Zenon DEF Batch
<1>e. (e = Len(l) \/ e = n + MaxEntries) /\ e <= n + MaxEntries
  <2>1. Restored \in Seq(1 .. 2 * MaxRecords) /\ n < Len(Restored)
    BY <1>2, <1>l, <1>r
  <2> QED BY <1>1, <1>3, <1>4, <1>l, <2>1, PartIs, Zenon
<1>6. e \in Nat /\ e <= Len(l) /\ n < e
  BY <1>1, <1>2, <1>5
<1>7. /\ pending' = pending \cup {p} /\ Batches' = Batches \cup {p}
      /\ UNCHANGED <<gateway, recovering, bucket, round, logged, ragged, troubles>>
      /\ logger'.at = "split" /\ logger'.count = e
      /\ logger' \in [at : {"split"}, count : Nat]
  <2>1. logger' = [logger EXCEPT !.count = e]
    BY <1>3, <1>4 DEF Split
  <2> QED BY <1>1, <1>3, <1>6, <2>1 DEF Split, Batches, LogTypeOK
<1>8. Of(p) \subseteq Of(f)
  <2>1. Of(p) \subseteq Of(l)
    BY <1>5 DEF RecordsOf, Of
  <2> QED BY <1>r, <2>1 DEF Of
<1>9. LogTypes'
  <2>1. LogTypeOK'
    BY <1>1, <1>5, <1>7 DEF LogTypeOK
  <2>2. Of(f) \subseteq 1 .. logged
    BY DEF LogInv, LogTypes
  <2> QED BY <1>7, <1>8, <2>1, <2>2 DEF LogInv, LogTypes
<1>10. Separate'
  <2>1. \A b : PartOfRecovered(b)' <=> PartOfRecovered(b)
    BY <1>7 DEF PartOfRecovered, Part, Restored, Substitute
  <2>2. PartOfRecovered(p)
    BY <1>1, <1>2, <1>3, <1>l DEF PartOfRecovered
  <2>3. ASSUME NEW c \in Batches PROVE c = p \/ Apart(c, p)
    <3>1. CASE Apart(c, f)
      BY <1>8, <3>1 DEF Apart
    <3>2. CASE PartOfRecovered(c)
      <4>1. PICK m \in Nat : Boundary(m) /\ m < Len(l) /\ c = Part(m)
        BY <3>2, <1>l DEF PartOfRecovered
      <4>2. PICK d : d = m + Len(c)
        OBVIOUS
      <4>3. /\ d \in m + 1 .. Len(l) /\ d <= m + MaxEntries
            /\ \A x : x \in RecordsOf(c) <=> \E i \in DOMAIN l : m < i /\ i <= d /\ x = l[i]
        <5>1. Restored \in Seq(1 .. 2 * MaxRecords) /\ m < Len(Restored)
          BY <1>l, <1>r, <4>1
        <5> QED BY <1>l, <4>1, <4>2, <5>1, PartIs, Zenon
      <4>4. CASE m = n
        BY <1>3, <4>1, <4>4
      <4>5. CASE m # n
        <5>1. d <= n \/ e <= m
          <6>1. CASE m < n
            <7>1. m + MaxEntries <= n
              BY <1>1, <1>2, <4>1, <6>1, BoundariesApart
            <7> QED BY <1>1, <1>2, <4>1, <4>3, <7>1, MaxEntriesAssumption
          <6>2. CASE n < m
            <7>1. n + MaxEntries <= m
              BY <1>1, <1>2, <4>1, <6>2, BoundariesApart
            <7>2. e <= n + MaxEntries
              BY <1>e
            <7> QED BY <1>1, <1>6, <4>1, <7>1, <7>2, MaxEntriesAssumption
          <6> QED BY <1>1, <4>1, <4>5, <6>1, <6>2
        <5>2. \A i, j \in DOMAIN l : l[i] = l[j] /\ l[i] \in 1 .. MaxRecords => i = j
          BY <1>r DEF LogInv, Separate, Unique
        <5>3. ASSUME NEW x \in Of(c), x \in Of(p) PROVE FALSE
          <6>1. PICK i \in DOMAIN l : m < i /\ i <= d /\ x = l[i]
            BY <4>3, <5>3 DEF Of
          <6>2. PICK j \in DOMAIN l : n < j /\ j <= e /\ x = l[j]
            BY <1>5, <5>3 DEF Of
          <6>3. i = j
            BY <5>2, <5>3, <6>1, <6>2 DEF Of
          <6>4. i \in Nat /\ d \in Nat
            BY <1>1, <4>1, <4>3
          <6> QED BY <1>1, <1>6, <4>1, <5>1, <6>1, <6>2, <6>3, <6>4
        <5> QED BY <5>3 DEF Apart
      <4> QED BY <4>4, <4>5
    <3> QED BY <3>1, <3>2 DEF LogInv, Separate
  <2>4. Apart(p, gateway.lines) /\ \A c : Apart(c, p) => Apart(p, c)
    BY <1>2, NoRecords DEF Apart, Of
  <2> QED BY <1>5, <1>7, <2>1, <2>2, <2>3, <2>4 DEF LogInv, Separate
<1>11. Handler'
  <2>1. e = Len(l) \/ (Boundary(e) /\ e < Len(l))
    <3>1. CASE e = n + MaxEntries
      <4>1. Boundary(n + MaxEntries)
        BY <1>1, <1>2, NextBoundary
      <4> QED BY <1>1, <1>6, <3>1, <4>1
    <3> QED BY <1>e, <3>1
  <2>2. ASSUME NEW i \in 1 .. e PROVE HasRecord(Batches \cup {p}, l[i])
    <3>1. CASE i <= n
      <4>1. i \in 1 .. n
        BY <1>1, <3>1
      <4>2. HasRecord(Batches, l[i])
        BY <1>1, <1>l, <4>1 DEF LogInv, Handler
      <4> QED BY <4>2 DEF HasRecord
    <3>2. CASE n < i
      <4>1. i \in DOMAIN l
        BY <1>1, <1>6
      <4>2. l[i] \in RecordsOf(p)
        BY <1>5, <3>2, <4>1
      <4> QED BY <4>2 DEF HasRecord
    <3> QED BY <1>1, <1>6, <3>1, <3>2
  <2>3. Restored' = l
    BY <1>7, <1>l DEF Restored, Substitute
  <2> QED BY <1>2, <1>7, <1>r, <2>1, <2>2, <2>3 DEF Handler, Serving
<1>12. Loop'
  BY <1>7 DEF LogInv, Loop
<1>13. Covered'
  BY <1>7 DEF LogInv, Covered, Somewhere, Substituted, HasRecord
<1> QED BY <1>9, <1>10, <1>11, <1>12, <1>13 DEF LogInv

\* What was recovered is all in batches when its file goes.
LEMMA OpenStep == ASSUME LogInv, OpenLog PROVE LogInv'
<1> DEFINE l == recovering.lines
<1>1. LogTypeOK /\ logger.at = "split" /\ logger.count = Len(l) /\ l \in Seq(1 .. MaxRecords)
  BY DEF LogInv, LogTypes, LogTypeOK, LogFile, Lines, OpenLog, Recovered
<1>2. /\ recovering' = NoLog /\ gateway' = Log(<<>>) /\ gateway'.there /\ gateway'.lines = <<>>
      /\ logger' = [at |-> "open", count |-> 0]
      /\ UNCHANGED <<pending, bucket, round, logged, ragged, troubles>> /\ Batches' = Batches
  BY DEF OpenLog, Batches, Log
<1>3. gateway = NoLog /\ gateway.lines = <<>>
  BY <1>1, NoRecords DEF LogInv, Handler
<1>4. \A x \in RecordsOf(l) : HasRecord(Batches, x) \/ (x \in ragged /\ Substituted)
  <2>1. ASSUME NEW i \in DOMAIN l PROVE HasRecord(Batches, l[i]) \/ (l[i] \in ragged /\ Substituted)
    <3>1. DOMAIN l = 1 .. Len(l) /\ i \in DOMAIN Restored /\ HasRecord(Batches, Restored[i])
      BY <1>1, LenProperties, RestoredIs DEF LogInv, Handler
    <3>2. CASE Restored[i] = l[i]
      BY <3>1, <3>2
    <3>3. CASE l[i] \in ragged /\ \E m \in 1 .. MaxRecords : Restored[i] = MaxRecords + m
      BY <3>1, <3>3 DEF Substituted
    <3> QED BY <1>1, <3>1, <3>2, <3>3, RestoredIs
  <2> QED BY <2>1 DEF RecordsOf
<1>5. LogTypes'
  <2>1. Of(<<>>) = {}
    BY NoRecords DEF Of
  <2> QED BY <1>1, <1>2, <2>1, NoRecords DEF LogInv, LogTypes, LogTypeOK
<1>6. Separate'
  <2>1. \A b : Apart(b, <<>>)
    BY NoRecords DEF Apart, Of
  <2> QED BY <1>2, <2>1, NoRecords DEF LogInv, Separate
<1>7. Handler'
  BY <1>2 DEF Handler
<1>8. Loop'
  BY <1>2 DEF LogInv, Loop
<1>9. Covered'
  BY <1>2, <1>3, <1>4, NoRecords DEF LogInv, Covered, Somewhere, Substituted
<1> QED BY <1>5, <1>6, <1>7, <1>8, <1>9 DEF LogInv

\* The log of a process that has just started.
LEMMA LogInitInv == LogInit => LogInv
<1> SUFFICES ASSUME LogInit PROVE LogInv
  OBVIOUS
<1>1. /\ gateway = Log(<<>>) /\ gateway.there /\ gateway.lines = <<>> /\ recovering = NoLog /\ recovering.lines = <<>>
      /\ Batches = {} /\ logged = 0 /\ ragged = {} /\ logger = [at |-> "open", count |-> 0] /\ round = NoRound
      /\ pending = {} /\ bucket = {} /\ troubles = 0
  BY NoRecords DEF LogInit, Batches, Log
<1>2. LogTypes
  <2>1. Of(<<>>) = {} /\ <<>> \in Batch
    BY NoRecords DEF Of, Batch
  <2> QED BY <1>1, <2>1, NoRecords, LogBoundsAssumption DEF LogTypes, LogTypeOK, NoRound
<1>3. Separate /\ Handler /\ Loop /\ Covered
  BY <1>1, NoRecords DEF Separate, Handler, Loop, Covered, NoRound
<1> QED BY <1>2, <1>3 DEF LogInv

\* The invariant of the log, wherever a process ends.
THEOREM LogInvariance == LogSpec => []LogInv
<1>1. LogInit => LogInv
  BY LogInitInv
<1>2. LogInv /\ [LogNext]_logVars => LogInv'
  <2> SUFFICES ASSUME LogInv, [LogNext]_logVars PROVE LogInv'
    OBVIOUS
  <2>1. CASE Emit
    BY <2>1, EmitStep
  <2>2. CASE MoveActive
    BY <2>2, MoveStep
  <2>3. CASE CloseLog \/ Reopen \/ SealFails \/ BeginRound \/ StopLogger
    BY <2>3, QuietSteps
  <2>4. CASE \E b \in pending : Put(b) \/ Unlink(b) \/ RoundFails(b)
    BY <2>4, UploadSteps
  <2>5. CASE ClaimLog
    BY <2>5, ClaimLogStep
  <2>6. CASE Split
    BY <2>6, SplitStep
  <2>7. CASE OpenLog
    BY <2>7, OpenStep
  <2>8. CASE UNCHANGED logVars
    <3>1. /\ UNCHANGED <<gateway, recovering, pending, bucket, logger, round, logged, ragged, troubles>>
          /\ Restored' = Restored /\ Batches' = Batches
      BY <2>8 DEF logVars, Restored, Substitute, Batches
    <3>2. \A b : PartOfRecovered(b)' <=> PartOfRecovered(b)
      BY <3>1 DEF PartOfRecovered, Part
    <3> QED BY <3>1, <3>2, Zenon DEF LogInv, LogTypes, LogTypeOK, Separate, Handler, Loop, Covered, Somewhere,
               Substituted, Serving
  <2> QED BY <2>1, <2>2, <2>3, <2>4, <2>5, <2>6, <2>7, <2>8 DEF LogNext, UploadStep, RestartStep
<1> QED BY <1>1, <1>2, PTL DEF LogSpec

\* Type correctness of the log.
THEOREM LogTypeCorrect == LogSpec => []LogTypeOK
<1>1. LogInv => LogTypeOK
  BY DEF LogInv, LogTypes
<1> QED BY <1>1, LogInvariance, PTL

\* No record that was flushed is lost, wherever a process ended, but for those that a
\* recovery cannot read, which leave a substitute; and the archive has one copy of each.
THEOREM NoRecordIsLost == LogSpec => []RecordsKept
<1>1. ASSUME LogInv, NEW n \in 1 .. logged
      PROVE  /\ \/ Kept(n)
                \/ n \in ragged /\ \E m \in 1 .. MaxRecords : HasRecord(pending \cup bucket, MaxRecords + m)
             /\ \A b, c \in bucket : n \in RecordsOf(b) \cap RecordsOf(c) => b = c
  <2>1. Somewhere(n) \/ (n \in ragged /\ Substituted)
    BY <1>1 DEF LogInv, Covered
  <2>2. Somewhere(n) => Kept(n)
    BY DEF Somewhere, Kept, Batches, HasRecord
  <2>3. n \in 1 .. MaxRecords
    BY <1>1, LogBoundsAssumption DEF LogInv, LogTypes, LogTypeOK
  <2>4. \A b, c \in bucket : n \in RecordsOf(b) \cap RecordsOf(c) => b = c
    BY <1>1, <2>3 DEF LogInv, Separate, Batches, Apart, Of
  <2> QED BY <2>1, <2>2, <2>4 DEF Substituted, Batches
<1>2. LogInv => RecordsKept
  BY <1>1 DEF RecordsKept
<1> QED BY <1>2, LogInvariance, PTL
=============================================================================
