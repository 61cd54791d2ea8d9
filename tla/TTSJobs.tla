------------------------------ MODULE TTSJobs ------------------------------
(***************************************************************************)
(* The TTS job engine of the gateway: durable jobs and chunk checkpoints   *)
(* in the database, workers fenced by a run token and a renewable lease,   *)
(* temporary chunk audio in the object store, the recovery of expired jobs *)
(* and the hourly sweep of unreferenced chunk audio                        *)
(* (app/services/tts/jobs.py, app/services/tts/maintenance.py and the      *)
(* submit and retry endpoints of app/api/v1/audio/router.py).              *)
(*                                                                         *)
(* A run token names the worker it was issued to, so the token is also the *)
(* identity of the worker: every background run of process_tts_job has its *)
(* own.  Temporary audio of chunk i written by worker t is the object      *)
(* <<t, i>> (the key also holds the job, which t determines); the final    *)
(* audio written by t is the object t.  Time is abstracted to what the     *)
(* code compares: a lease is live or expired, an object may be old or not. *)
(***************************************************************************)
EXTENDS Naturals, FiniteSets

CONSTANTS
    Job,       \* job ids
    Token,     \* run tokens (uuid4, never issued twice), one worker each
    Sweeper,   \* gateway processes running cleanup_orphans
    N,         \* number of chunks of a job
    Slots,     \* chunks a worker works on at once (tts_gemini_concurrency, tts_kokoro_concurrency)
    PageSize,  \* most objects a listing returns at once
    None       \* SQL NULL

ASSUME NAssumption == N \in Nat \ {0}
ASSUME SlotsAssumption == Slots \in Nat \ {0}
ASSUME PageSizeAssumption == PageSize \in Nat \ {0}
ASSUME NoneAssumption == None \notin Token /\ None \notin Job

Index == 1 .. N
Object == Token \X Index
TokenOrNone == Token \cup {None}

VARIABLES
    \* tts_jobs rows; status "absent" is a row not inserted yet
    status, owner, lease, final,
    \* tts_chunks rows
    cstatus, ckey,
    \* writes of a worker to a chunk committed when the job was no longer in its
    \* charge (a history variable, not of the code)
    late,
    \* workers: background runs of process_tts_job
    pc, jobOf, task, keys, next,
    \* object store
    store, finals,
    \* sweeps of unreferenced temporary audio
    spc, doomed

jobVars == <<status, owner, lease, final>>
chunkVars == <<cstatus, ckey, late>>
workVars == <<pc, jobOf, task, keys, next>>
storeVars == <<store, finals>>
sweepVars == <<spc, doomed>>
vars == <<jobVars, chunkVars, workVars, storeVars, sweepVars>>

JobStatus == {"absent", "processing", "failed", "completed"}
ChunkStatus == {"pending", "processing", "failed", "completed"}

\* Where a worker is.  "free": token not issued; "claimed": token committed,
\* background run not started; "starting": job row read, chunk rows not yet;
\* "running": chunk tasks in flight; "fetching" .. "uploaded": merging;
\* "spoiling": committing that a checkpoint is unusable; "cleaning": completed, deleting temporary audio; "failing": exception
\* handler; "stopping": notifying, before the finally clause; "gone": exited.
WorkerPC == {"free", "claimed", "starting", "running", "fetching", "spoiling", "merged",
             "uploaded", "cleaning", "failing", "stopping", "gone"}

\* Where the task of one chunk is: waiting for a slot, generating, audio
\* stored but not yet checkpointed, in its exception handler, or over; and, with
\* a write executed but not committed, beginning, saving or marking.
TaskState == {"waiting", "beginning", "generating", "stored", "saving", "erring", "marking", "over"}

TypeOK ==
    /\ status \in [Job -> JobStatus]
    /\ owner \in [Job -> TokenOrNone]
    /\ lease \in [Job -> {"none", "live", "expired"}]
    /\ final \in [Job -> TokenOrNone]
    /\ cstatus \in [Job -> [Index -> ChunkStatus]]
    /\ ckey \in [Job -> [Index -> TokenOrNone]]
    /\ late \in [Token -> [Index -> Nat]]
    /\ pc \in [Token -> WorkerPC]
    /\ jobOf \in [Token -> Job \cup {None}]
    /\ task \in [Token -> [Index -> TaskState]]
    /\ keys \in [Token -> [Index -> TokenOrNone]]
    /\ next \in [Token -> Index]
    /\ store \subseteq Object
    /\ finals \subseteq Token
    /\ spc \in [Sweeper -> {"idle", "listed", "keyed", "deleting"}]
    /\ doomed \in [Sweeper -> SUBSET Object]

Init ==
    /\ status = [j \in Job |-> "absent"]
    /\ owner = [j \in Job |-> None]
    /\ lease = [j \in Job |-> "none"]
    /\ final = [j \in Job |-> None]
    /\ cstatus = [j \in Job |-> [i \in Index |-> "pending"]]
    /\ ckey = [j \in Job |-> [i \in Index |-> None]]
    /\ late = [t \in Token |-> [i \in Index |-> 0]]
    /\ pc = [t \in Token |-> "free"]
    /\ jobOf = [t \in Token |-> None]
    /\ task = [t \in Token |-> [i \in Index |-> "over"]]
    /\ keys = [t \in Token |-> [i \in Index |-> None]]
    /\ next = [t \in Token |-> 1]
    /\ store = {}
    /\ finals = {}
    /\ spc = [s \in Sweeper |-> "idle"]
    /\ doomed = [s \in Sweeper |-> {}]

-----------------------------------------------------------------------------
(***************************************************************************)
(* The fence: the WHERE clause of every write of a worker.                 *)
(***************************************************************************)
OwnsWithoutToken(t, j) == jobOf[t] = j /\ status[j] = "processing"   \* mutant
Owns(t, j) == jobOf[t] = j /\ status[j] = "processing" /\ owner[j] = t

\* A write of a worker finds its row and is committed, or matches no row or fails
\* before it is applied (refused), or is applied while its answer is lost.  The
\* caller sees an exception in the last two.
WriteResult == {"ok", "refused", "lost"}
Applied(result) == result \in {"ok", "lost"}

NoKeys == [i \in Index |-> None]
NoTasks == [i \in Index |-> "over"]
TasksOver(t) == \A i \in Index : task[t][i] = "over"

\* An exception that reaches the gather wakes the main coroutine, if it waits.
AfterRaise(p) == IF p = "running" THEN "failing" ELSE p

-----------------------------------------------------------------------------
(***************************************************************************)
(* Issuing tokens: submission and the claim shared by retry and recovery.  *)
(***************************************************************************)

\* generate_tts_endpoint: the job and its pending chunks in one transaction.
Submit(j, t) ==
    /\ status[j] = "absent"
    /\ pc[t] = "free"
    /\ status' = [status EXCEPT ![j] = "processing"]
    /\ owner' = [owner EXCEPT ![j] = t]
    /\ lease' = [lease EXCEPT ![j] = "live"]
    /\ pc' = [pc EXCEPT ![t] = "claimed"]
    /\ jobOf' = [jobOf EXCEPT ![t] = j]
    /\ UNCHANGED <<final, chunkVars, task, keys, next, storeVars, sweepVars>>

\* Mutant: an expired lease is not claimable, only a released one.
ClaimableReleased(j, expiredOnly) ==
    /\ status[j] \notin {"absent", "completed"}
    /\ lease[j] = "none" \/ (~expiredOnly /\ status[j] = "failed")
    /\ expiredOnly => status[j] = "processing"

\* The WHERE clause of claim_retry (every modelled job has a snapshot).
Claimable(j, expiredOnly) ==
    /\ status[j] \notin {"absent", "completed"}
    /\ \/ lease[j] \in {"none", "expired"}
       \/ ~expiredOnly /\ status[j] = "failed"
    /\ expiredOnly => status[j] = "processing"

\* claim_retry: one conditional UPDATE installs a fresh token and lease.
Claim(j, t, expiredOnly) ==
    /\ Claimable(j, expiredOnly)
    /\ pc[t] = "free"
    /\ status' = [status EXCEPT ![j] = "processing"]
    /\ owner' = [owner EXCEPT ![j] = t]
    /\ lease' = [lease EXCEPT ![j] = "live"]
    /\ pc' = [pc EXCEPT ![t] = "claimed"]
    /\ jobOf' = [jobOf EXCEPT ![t] = j]
    /\ UNCHANGED <<final, chunkVars, task, keys, next, storeVars, sweepVars>>

Retry(j, t) == Claim(j, t, FALSE)      \* retry_tts_endpoint
Recover(j, t) == Claim(j, t, TRUE)     \* recover_expired

\* The clock passes lease_until.
LeaseExpires(j) ==
    /\ lease[j] = "live"
    /\ lease' = [lease EXCEPT ![j] = "expired"]
    /\ UNCHANGED <<status, owner, final, chunkVars, workVars, storeVars, sweepVars>>

-----------------------------------------------------------------------------
(***************************************************************************)
(* The run of a worker: process_tts_job.                                   *)
(***************************************************************************)

\* The job row is read; a superseded or settled job ends the run at once.
Begin(t) ==
    /\ pc[t] = "claimed"
    /\ pc' = [pc EXCEPT ![t] = IF Owns(t, jobOf[t]) THEN "starting" ELSE "gone"]
    /\ UNCHANGED <<jobVars, chunkVars, jobOf, task, keys, next, storeVars, sweepVars>>

\* Mutant: every chunk is generated, checkpointed or not.
PlanAll(t) ==
    /\ pc[t] = "starting"
    /\ pc' = [pc EXCEPT ![t] = "running"]
    /\ task' = [task EXCEPT ![t] = [i \in Index |-> "waiting"]]
    /\ UNCHANGED <<jobVars, chunkVars, jobOf, keys, next, storeVars, sweepVars>>

\* The chunk rows are read; checkpoints with audio are not generated again.
Plan(t) ==
    LET j == jobOf[t] IN
    /\ pc[t] = "starting"
    /\ pc' = [pc EXCEPT ![t] = "running"]
    /\ task' = [task EXCEPT ![t] = [i \in Index |->
            IF cstatus[j][i] = "completed" /\ ckey[j][i] # None THEN "over" ELSE "waiting"]]
    /\ UNCHANGED <<jobVars, chunkVars, jobOf, keys, next, storeVars, sweepVars>>

\* A task of worker t moves to state s, or its exception reaches the gather.
TaskGoes(t, i, s) ==
    /\ task' = [task EXCEPT ![t][i] = s]
    /\ UNCHANGED <<pc, jobOf, keys, next>>
TaskRaises(t, i) ==
    /\ task' = [task EXCEPT ![t][i] = "over"]
    /\ pc' = [pc EXCEPT ![t] = AfterRaise(@)]
    /\ UNCHANGED <<jobOf, keys, next>>

\* _chunk_update is two awaits.  The statement: its subselect finds the job in the
\* worker's charge, but locks only the chunk row, so the job may be claimed again
\* before the commit.  The commit: it is applied whoever owns the job by then.  (A
\* commit that outlives its worker is one that is applied just before the worker dies.)
ChunkCommit(t, i, s, result) ==
    LET j == jobOf[t] IN
    /\ cstatus' = IF Applied(result) THEN [cstatus EXCEPT ![j][i] = s] ELSE cstatus
    /\ late' = IF Applied(result) /\ ~Owns(t, j) THEN [late EXCEPT ![t][i] = @ + 1] ELSE late

\* The chunks a worker works on, each in a slot of its process.
Working(t) == {i \in Index : task[t][i] \notin {"waiting", "over"}}

\* synthesize, from its slot to the call of the provider: the statement ...
StartChunk(t, i) ==
    /\ task[t][i] = "waiting"
    /\ Cardinality(Working(t)) < Slots
    /\ \/ Owns(t, jobOf[t]) /\ TaskGoes(t, i, "beginning")
       \/ TaskRaises(t, i)
    /\ UNCHANGED <<jobVars, chunkVars, storeVars, sweepVars>>

\* ... and the commit.
StartCommits(t, i, result) ==
    /\ task[t][i] = "beginning"
    /\ ChunkCommit(t, i, "processing", result)
    /\ \/ result = "ok" /\ TaskGoes(t, i, "generating")
       \/ result # "ok" /\ TaskRaises(t, i)
    /\ UNCHANGED <<jobVars, ckey, storeVars, sweepVars>>

\* The provider, the validation or the upload fails before the object exists.
GenerateFails(t, i) ==
    /\ task[t][i] = "generating"
    /\ TaskGoes(t, i, "erring")
    /\ UNCHANGED <<jobVars, chunkVars, storeVars, sweepVars>>

\* The audio is uploaded under the worker's own key; the answer may be lost.
StoreChunk(t, i) ==
    /\ task[t][i] = "generating"
    /\ store' = store \cup {<<t, i>>}
    /\ \E s \in {"stored", "erring"} : TaskGoes(t, i, s)
    /\ UNCHANGED <<jobVars, chunkVars, finals, sweepVars>>

\* The checkpoint: the statement, and the commit.
Checkpoint(t, i) ==
    /\ task[t][i] = "stored"
    /\ \/ Owns(t, jobOf[t]) /\ TaskGoes(t, i, "saving")
       \/ TaskGoes(t, i, "erring")
    /\ UNCHANGED <<jobVars, chunkVars, storeVars, sweepVars>>

CheckpointCommits(t, i, result) ==
    /\ task[t][i] = "saving"
    /\ ChunkCommit(t, i, "completed", result)
    /\ ckey' = IF Applied(result) THEN [ckey EXCEPT ![jobOf[t]][i] = t] ELSE ckey
    /\ TaskGoes(t, i, IF result = "ok" THEN "over" ELSE "erring")
    /\ UNCHANGED <<jobVars, storeVars, sweepVars>>

\* The task's exception handler marks the chunk failed, or raises itself.
MarkFailed(t, i) ==
    /\ task[t][i] = "erring"
    /\ \/ Owns(t, jobOf[t]) /\ TaskGoes(t, i, "marking")
       \/ TaskRaises(t, i)
    /\ UNCHANGED <<jobVars, chunkVars, storeVars, sweepVars>>

MarkCommits(t, i, result) ==
    /\ task[t][i] = "marking"
    /\ ChunkCommit(t, i, "failed", result)
    /\ \/ result = "ok" /\ TaskGoes(t, i, "over")
       \/ result # "ok" /\ TaskRaises(t, i)
    /\ UNCHANGED <<jobVars, ckey, storeVars, sweepVars>>

AllKeyed(j) == \A i \in Index : ckey[j][i] # None   \* mutant: whatever the status

\* Every chunk of j is checkpointed.
AllSaved(j) == \A i \in Index : cstatus[j][i] = "completed" /\ ckey[j][i] # None

\* Every task is over: the chunk rows are read again, without a fence.
Collect(t) ==
    LET j == jobOf[t] IN
    /\ pc[t] = "running"
    /\ TasksOver(t)
    /\ pc' = [pc EXCEPT ![t] = IF AllSaved(j) THEN "fetching" ELSE "failing"]
    /\ keys' = [keys EXCEPT ![t] = IF AllSaved(j) THEN ckey[j] ELSE @]
    /\ UNCHANGED <<jobVars, chunkVars, jobOf, task, next, storeVars, sweepVars>>

\* The cursor of the merge and of the cleanup, back to 1 after the last chunk.
Advance(t) == next' = [next EXCEPT ![t] = IF @ = N THEN 1 ELSE @ + 1]

\* The next checkpoint is read and valid.
Fetch(t) ==
    /\ pc[t] = "fetching"
    /\ <<keys[t][next[t]], next[t]>> \in store
    /\ Advance(t)
    /\ pc' = [pc EXCEPT ![t] = IF next[t] = N THEN "merged" ELSE @]
    /\ UNCHANGED <<jobVars, chunkVars, jobOf, task, keys, storeVars, sweepVars>>

\* The next checkpoint is missing, unreadable or invalid: it is marked failed.
FetchFails(t) ==
    /\ pc[t] = "fetching"
    /\ \/ Owns(t, jobOf[t]) /\ pc' = [pc EXCEPT ![t] = "spoiling"]
       \/ pc' = [pc EXCEPT ![t] = "failing"]
    /\ UNCHANGED <<jobVars, chunkVars, jobOf, task, keys, next, storeVars, sweepVars>>

SpoilCommits(t, result) ==
    /\ pc[t] = "spoiling"
    /\ ChunkCommit(t, next[t], "failed", result)
    /\ pc' = [pc EXCEPT ![t] = "failing"]
    /\ UNCHANGED <<jobVars, ckey, jobOf, task, keys, next, storeVars, sweepVars>>

\* The merged audio is uploaded.
StoreFinal(t) ==
    /\ pc[t] = "merged"
    /\ finals' = finals \cup {t}
    /\ pc' = [pc EXCEPT ![t] = "uploaded"]
    /\ UNCHANGED <<jobVars, chunkVars, jobOf, task, keys, next, store, sweepVars>>

\* Reading rows, merging, uploading or presigning raises.
Abort(t) ==
    /\ \/ pc[t] = "running" /\ TasksOver(t)
       \/ pc[t] \in {"merged", "uploaded"}
    /\ pc' = [pc EXCEPT ![t] = "failing"]
    /\ UNCHANGED <<jobVars, chunkVars, jobOf, task, keys, next, storeVars, sweepVars>>

\* Mutant: completed by a worker of the job that no longer owns it.
CompleteUnfenced(t, result) ==
    LET j == jobOf[t] IN
    /\ pc[t] = "uploaded"
    /\ \/ /\ Applied(result) /\ status[j] = "processing"
          /\ status' = [status EXCEPT ![j] = "completed"]
          /\ owner' = [owner EXCEPT ![j] = None]
          /\ lease' = [lease EXCEPT ![j] = "none"]
          /\ final' = [final EXCEPT ![j] = t]
       \/ result = "refused" /\ UNCHANGED jobVars
    /\ pc' = [pc EXCEPT ![t] = IF result = "ok" THEN "cleaning" ELSE "failing"]
    /\ UNCHANGED <<chunkVars, jobOf, task, keys, next, storeVars, sweepVars>>

\* _job_update(status='completed'): result, token and lease in one row write.
Complete(t, result) ==
    LET j == jobOf[t] IN
    /\ pc[t] = "uploaded"
    /\ \/ /\ Applied(result) /\ Owns(t, j)
          /\ status' = [status EXCEPT ![j] = "completed"]
          /\ owner' = [owner EXCEPT ![j] = None]
          /\ lease' = [lease EXCEPT ![j] = "none"]
          /\ final' = [final EXCEPT ![j] = t]
       \/ result = "refused" /\ UNCHANGED jobVars
    /\ pc' = [pc EXCEPT ![t] = IF result = "ok" THEN "cleaning" ELSE "failing"]
    /\ UNCHANGED <<chunkVars, jobOf, task, keys, next, storeVars, sweepVars>>

\* _cleanup: the merged checkpoints are deleted one by one.
CleanUp(t) ==
    /\ pc[t] = "cleaning"
    /\ store' = store \ {<<keys[t][next[t]], next[t]>>}
    /\ Advance(t)
    /\ pc' = [pc EXCEPT ![t] = IF next[t] = N THEN "stopping" ELSE @]
    /\ UNCHANGED <<jobVars, chunkVars, jobOf, task, keys, finals, sweepVars>>

\* A failed deletion is logged and leaves the rest to the sweep.
CleanUpFails(t) ==
    /\ pc[t] = "cleaning"
    /\ pc' = [pc EXCEPT ![t] = "stopping"]
    /\ UNCHANGED <<jobVars, chunkVars, jobOf, task, keys, next, storeVars, sweepVars>>

\* Mutant: the exception handler writes without the fence.
FailJobUnfenced(t, result) ==
    LET j == jobOf[t] IN
    /\ pc[t] = "failing"
    /\ \/ /\ Applied(result)
          /\ status' = [status EXCEPT ![j] = "failed"]
          /\ owner' = [owner EXCEPT ![j] = None]
          /\ lease' = [lease EXCEPT ![j] = "none"]
       \/ result = "refused" /\ UNCHANGED <<status, owner, lease>>
    /\ pc' = [pc EXCEPT ![t] = "stopping"]
    /\ UNCHANGED <<final, chunkVars, jobOf, task, keys, next, storeVars, sweepVars>>

\* The exception handler: _job_update(status='failed'), its own errors suppressed.
FailJob(t, result) ==
    LET j == jobOf[t] IN
    /\ pc[t] = "failing"
    /\ \/ /\ Applied(result) /\ Owns(t, j)
          /\ status' = [status EXCEPT ![j] = "failed"]
          /\ owner' = [owner EXCEPT ![j] = None]
          /\ lease' = [lease EXCEPT ![j] = "none"]
       \/ result = "refused" /\ UNCHANGED <<status, owner, lease>>
    /\ pc' = [pc EXCEPT ![t] = "stopping"]
    /\ UNCHANGED <<final, chunkVars, jobOf, task, keys, next, storeVars, sweepVars>>

\* The run is over: the finally clause, or a crash or shutdown of the process.
Exit(t) ==
    /\ pc' = [pc EXCEPT ![t] = "gone"]
    /\ task' = [task EXCEPT ![t] = NoTasks]
    /\ keys' = [keys EXCEPT ![t] = NoKeys]
    /\ next' = [next EXCEPT ![t] = 1]
    /\ UNCHANGED <<jobVars, chunkVars, jobOf, storeVars, sweepVars>>

\* The finally clause cancels the heartbeat and the tasks still in flight.
Stop(t) == pc[t] = "stopping" /\ Exit(t)

\* A crash, a shutdown, or a claim whose caller failed before starting the
\* run.  CancelledError is no Exception: nothing is written to the database.
Die(t) == pc[t] \notin {"free", "gone"} /\ Exit(t)

\* _heartbeat: renew the lease of an owned job, while the run lasts.
Heartbeat(t) ==
    LET j == jobOf[t] IN
    /\ pc[t] \notin {"free", "claimed", "starting", "gone"}
    /\ Owns(t, j)
    /\ lease' = [lease EXCEPT ![j] = "live"]
    /\ UNCHANGED <<status, owner, final, chunkVars, workVars, storeVars, sweepVars>>

\* The renewal is refused or fails, and the heartbeat ends.  Only a worker waiting for
\* its tasks notices; for the others it is as if they had no more heartbeats.
HeartbeatFails(t) ==
    /\ pc[t] = "running"
    /\ pc' = [pc EXCEPT ![t] = "failing"]
    /\ UNCHANGED <<jobVars, chunkVars, jobOf, task, keys, next, storeVars, sweepVars>>

-----------------------------------------------------------------------------
(***************************************************************************)
(* The sweep of unreferenced temporary audio: cleanup_orphans.             *)
(***************************************************************************)

\* The objects that may be older than the cutoff, which is at least a day and
\* two lease times.  The timing assumption: a worker does not spend that long
\* between uploading audio and committing the checkpoint that names it.
MayBeOld == {k \in store : task[k[1]][k[2]] \notin {"stored", "saving"}}

\* One page of the listing, reduced to what is older than the cutoff.
ListPage(s) ==
    /\ spc[s] = "idle"
    /\ spc' = [spc EXCEPT ![s] = "listed"]
    /\ \E page \in SUBSET MayBeOld :
          /\ page # {} /\ Cardinality(page) <= PageSize
          /\ doomed' = [doomed EXCEPT ![s] = page]
    /\ UNCHANGED <<jobVars, chunkVars, workVars, storeVars>>

KeysOf(jobs) == {k \in Object : \E j \in jobs : ckey[j][k[2]] = k[1]}
ReferencedByRunning == KeysOf({j \in Job : status[j] = "processing"})   \* mutant
ReferencedByFailed == KeysOf({j \in Job : status[j] = "failed"})        \* mutant

\* The keys of checkpoints of jobs that are not completed.
Referenced == KeysOf({j \in Job : status[j] \notin {"absent", "completed"}})

\* First query: referenced keys are spared.
SpareReferenced(s) ==
    /\ spc[s] = "listed"
    /\ spc' = [spc EXCEPT ![s] = "keyed"]
    /\ doomed' = [doomed EXCEPT ![s] = @ \ Referenced]
    /\ UNCHANGED <<jobVars, chunkVars, workVars, storeVars>>

\* Tokens of the jobs that are processing.
ActiveTokens == {owner[j] : j \in {x \in Job : status[x] = "processing"}}

\* Second query: everything under the prefix of an active token is spared.
SpareActive(s) ==
    /\ spc[s] = "keyed"
    /\ spc' = [spc EXCEPT ![s] = "deleting"]
    /\ doomed' = [doomed EXCEPT ![s] = {k \in @ : k[1] \notin ActiveTokens}]
    /\ UNCHANGED <<jobVars, chunkVars, workVars, storeVars>>

\* The rest of the page is deleted one by one.
Delete(s) ==
    /\ spc[s] = "deleting"
    /\ \E k \in doomed[s] :
          /\ store' = store \ {k}
          /\ doomed' = [doomed EXCEPT ![s] = @ \ {k}]
    /\ UNCHANGED <<jobVars, chunkVars, workVars, finals, spc>>

\* The page is done, or the sweep fails or exceeds its 30 seconds.
EndPage(s) ==
    /\ spc[s] # "idle"
    /\ spc' = [spc EXCEPT ![s] = "idle"]
    /\ doomed' = [doomed EXCEPT ![s] = {}]
    /\ UNCHANGED <<jobVars, chunkVars, workVars, storeVars>>

-----------------------------------------------------------------------------
TaskStep(t) ==
    \E i \in Index :
        \/ StartChunk(t, i) \/ GenerateFails(t, i) \/ StoreChunk(t, i)
        \/ Checkpoint(t, i) \/ MarkFailed(t, i)
        \/ \E r \in WriteResult :
              \/ StartCommits(t, i, r)
              \/ CheckpointCommits(t, i, r)
              \/ MarkCommits(t, i, r)

MainStep(t) ==
    \/ Begin(t) \/ Plan(t) \/ Collect(t) \/ Fetch(t) \/ StoreFinal(t) \/ Abort(t)
    \/ FetchFails(t) \/ CleanUp(t) \/ CleanUpFails(t) \/ Stop(t)
    \/ \E r \in WriteResult : SpoilCommits(t, r) \/ Complete(t, r) \/ FailJob(t, r)

WorkerStep(t) == TaskStep(t) \/ MainStep(t)

SweepStep(s) ==
    \/ ListPage(s) \/ SpareReferenced(s) \/ SpareActive(s) \/ Delete(s) \/ EndPage(s)

Next ==
    \/ \E j \in Job, t \in Token : Submit(j, t) \/ Retry(j, t) \/ Recover(j, t)
    \/ \E j \in Job : LeaseExpires(j)
    \/ \E t \in Token : WorkerStep(t) \/ Die(t) \/ Heartbeat(t) \/ HeartbeatFails(t)
    \/ \E s \in Sweeper : SweepStep(s)

Spec == Init /\ [][Next]_vars

(***************************************************************************)
(* Fairness.  A running worker takes its steps: every await of the run has *)
(* a client timeout.  The clock passes the lease of a job whose worker is  *)
(* gone, and the maintenance loop then claims it.                          *)
(***************************************************************************)
Abandoned(j) == \A t \in Token : Owns(t, j) => pc[t] = "gone"

Fairness ==
    /\ \A t \in Token : WF_vars(WorkerStep(t))
    /\ \A j \in Job : WF_vars(Abandoned(j) /\ LeaseExpires(j))
    /\ \A j \in Job : WF_vars(\E t \in Token : Recover(j, t))

FairSpec == Spec /\ Fairness

-----------------------------------------------------------------------------
(***************************************************************************)
(* Safety.                                                                 *)
(***************************************************************************)

\* A retry or a recovery reuses every completed checkpoint, so the audio of a
\* completed chunk of a job that is not completed is in the object store: the
\* sweep, which reads its two queries at different instants and deletes later,
\* never takes it, and no worker's cleanup does (cleanup_orphans, _cleanup).
CheckpointsKept ==
    \A j \in Job, i \in Index :
        status[j] \in {"processing", "failed"} /\ cstatus[j][i] = "completed"
            => <<ckey[j][i], i>> \in store

\* Chunk i of job j has been written by a worker after the job was taken from it.
LateOn(j, i) == \E t \in Token : jobOf[t] = j /\ late[t][i] > 0

\* A job is completed only with a checkpoint of every chunk and its merged audio
\* uploaded, whichever worker, superseded or not, tried to complete it; and no
\* chunk of it is other than completed, unless a superseded worker's last write
\* to it was committed late.
CompletedIsWhole ==
    \A j \in Job : status[j] = "completed" =>
        /\ final[j] \in finals
        /\ jobOf[final[j]] = j
        /\ \A i \in Index :
              /\ ckey[j][i] # None
              /\ cstatus[j][i] = "completed" \/ LateOn(j, i)

\* The sweep never deletes temporary audio that the merge of the worker in
\* charge still has to read; it may only take audio that a late write of a
\* superseded worker has replaced in the chunk's row.
OwnerCanMerge ==
    \A t \in Token, j \in Job :
        Owns(t, j) /\ pc[t] = "fetching" =>
            \A i \in next[t] .. N :
                \/ <<keys[t][i], i>> \in store
                \/ ckey[j][i] # keys[t][i] /\ late[ckey[j][i]][i] > 0

\* The fence of the chunk writes lets a worker change a chunk once, and no more,
\* after its job was taken from it: only with a write that had been executed, not
\* committed, at that moment, and nothing that the worker does afterwards (its
\* handler, its retry of the mark, its merge) gets through.
FenceHolds == \A t \in Token, i \in Index : late[t][i] <= 1

(***************************************************************************)
(* What a step may never do.                                               *)
(***************************************************************************)

\* This step is such a write.
LateStep(j, i) == \E t \in Token : jobOf[t] = j /\ late'[t][i] > late[t][i]

\* A completed chunk is not started again: successful work is not repeated by a
\* retry.  It stops being completed only when the worker in charge finds its audio
\* unreadable, or cannot tell whether its checkpoint was committed; or when the
\* checkpoint came late, after the successor had planned the chunk, or the write
\* that takes it back comes late itself.
CheckpointsNotRepeated ==
    [][\A j \in Job, i \in Index :
          cstatus[j][i] = "completed" /\ cstatus'[j][i] # "completed"
              => \/ cstatus'[j][i] = "failed" /\ status[j] = "processing"
                 \/ late[ckey[j][i]][i] > 0
                 \/ LateStep(j, i)]_vars

\* A completed job never changes again, its result included, nor its chunks, but
\* for a late write.
CompletedIsFinal ==
    [][\A j \in Job : status[j] = "completed" =>
          /\ status'[j] = "completed" /\ final'[j] = final[j]
          /\ \A i \in Index :
                \/ cstatus'[j][i] = cstatus[j][i] /\ ckey'[j][i] = ckey[j][i]
                \/ LateStep(j, i)]_vars

(***************************************************************************)
(* Liveness (under FairSpec).                                              *)
(***************************************************************************)

\* A job in processing settles as completed or failed, its workers crashed,
\* superseded or not: it can only stay behind when its last worker is gone and
\* the claims the model may issue are used up.
Settles ==
    \A j \in Job :
        status[j] = "processing"
            ~> \/ status[j] \in {"completed", "failed"}
               \/ Abandoned(j) /\ \A t \in Token : pc[t] # "free"

(***************************************************************************)
(* Refinement.                                                             *)
(***************************************************************************)

\* The engine keeps the contract of TTSJobContract: the tokens put in charge
\* are the issued ones, the saved chunks those with a key.
SavedChunks == [j \in Job |-> {i \in Index : ckey[j][i] # None}]

Contract == INSTANCE TTSJobContract
    WITH used <- {t \in Token : pc[t] # "free"},
         saved <- SavedChunks,
         result <- final

\* Every behaviour of workers, crashes, retries, lost answers and sweeps is,
\* seen through job rows and checkpoints, a behaviour of the contract.
ImplementsContract == Contract!Spec

=============================================================================
