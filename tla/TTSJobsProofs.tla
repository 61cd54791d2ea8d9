--------------------------- MODULE TTSJobsProofs ---------------------------
(***************************************************************************)
(* Proofs about the TTS job engine and, at the end, about the readers of   *)
(* its previews (TTSStream), for every number of jobs, tokens, chunks,     *)
(* sweeping processes and readers.                                         *)
(***************************************************************************)
EXTENDS TTSJobsInv, TTSStream, TLAPS

\* The first chunk exists, and every chunk but the last has a successor.
LEMMA IndexBounds == 1 \in Index /\ \A i \in Index : i # N => i + 1 \in Index
BY NAssumption DEF Index

\* What an applied commit does to a chunk's row, whoever owns the job.
Written(t, i, c) ==
    LET j == jobOf[t] IN
    /\ cstatus' = [cstatus EXCEPT ![j][i] = c]
    /\ late' = IF Owns(t, j) THEN late ELSE [late EXCEPT ![t][i] = @ + 1]

\* The two outcomes of a commit.
LEMMA ChunkCommitCases ==
    ASSUME NEW t, NEW i, NEW s, NEW r \in WriteResult, ChunkCommit(t, i, s, r)
    PROVE  \/ r # "refused" /\ Written(t, i, s)
           \/ r = "refused" /\ UNCHANGED <<cstatus, late>>
BY DEF ChunkCommit, Applied, WriteResult, Written

\* It leaves a status, and a number of late writes.
LEMMA ChunkCommitType ==
    ASSUME TypeOK, NEW t \in Token, NEW i \in Index, NEW s \in ChunkStatus,
           NEW r \in WriteResult, jobOf[t] \in Job, ChunkCommit(t, i, s, r)
    PROVE  /\ cstatus' \in [Job -> [Index -> ChunkStatus]]
           /\ late' \in [Token -> [Index -> Nat]]
<1>1. cstatus \in [Job -> [Index -> ChunkStatus]] /\ late \in [Token -> [Index -> Nat]]
    BY DEF TypeOK
<1>2. CASE UNCHANGED <<cstatus, late>>
    BY <1>1, <1>2
<1>3. CASE Written(t, i, s)
    BY <1>1, <1>3 DEF Written
<1>4. QED
    BY <1>2, <1>3, ChunkCommitCases

\* A step of one chunk's task: to state s, or over with an exception.
TaskMove(t, i, s) == TaskGoes(t, i, s) \/ TaskRaises(t, i)

\* A move of a task is a state of the worker.
LEMMA TaskMoveType ==
    ASSUME TypeOK, NEW t \in Token, NEW i \in Index, NEW s \in TaskState, TaskMove(t, i, s)
    PROVE  /\ task' \in [Token -> [Index -> TaskState]]
           /\ pc' \in [Token -> WorkerPC]
           /\ UNCHANGED <<jobOf, keys, next>>
<1>1. CASE TaskGoes(t, i, s)
    BY <1>1 DEF TaskGoes, TypeOK
<1>2. CASE TaskRaises(t, i)
    BY <1>2 DEF TaskRaises, AfterRaise, TypeOK, TaskState, WorkerPC
<1>3. QED
    BY <1>1, <1>2 DEF TaskMove

\* Nothing is in progress.
LEMMA TypeInit == Init => TypeOK
BY NAssumption, IndexBounds DEF Init, TypeOK, JobStatus, ChunkStatus, WorkerPC, TaskState, TokenOrNone

(***************************************************************************)
(* Every step keeps the types.                                             *)
(***************************************************************************)
LEMMA TypeStep == TypeOK /\ WorkerInv /\ [Next]_vars => TypeOK'
<1> SUFFICES ASSUME TypeOK, WorkerInv, [Next]_vars PROVE TypeOK'
    OBVIOUS
<1> USE DEF TypeOK, JobStatus, ChunkStatus, WorkerPC, TaskState, TokenOrNone,
        jobVars, chunkVars, workVars, storeVars, sweepVars
<1>0. \A t \in Token : pc[t] # "free" => jobOf[t] \in Job
    BY DEF WorkerInv
<1>00. \A t \in Token, i \in Index : task[t][i] # "over" => jobOf[t] \in Job
    BY DEF WorkerInv
<1>1. ASSUME NEW j \in Job, NEW t \in Token, Submit(j, t) PROVE TypeOK'
    BY <1>1 DEF Submit
<1>2. ASSUME NEW j \in Job, NEW t \in Token, NEW e \in BOOLEAN, Claim(j, t, e)
      PROVE TypeOK'
    BY <1>2 DEF Claim
<1>3. ASSUME NEW j \in Job, LeaseExpires(j) PROVE TypeOK'
    BY <1>3 DEF LeaseExpires
<1>4. ASSUME NEW t \in Token, NEW i \in Index,
             StartChunk(t, i) \/ GenerateFails(t, i) \/ Checkpoint(t, i) \/ MarkFailed(t, i)
      PROVE TypeOK'
    <2>1. /\ UNCHANGED <<jobVars, chunkVars, storeVars, sweepVars>>
          /\ \E s \in TaskState : TaskMove(t, i, s)
        BY <1>4 DEF StartChunk, GenerateFails, Checkpoint, MarkFailed, TaskMove
    <2>2. QED
        BY <2>1, TaskMoveType
<1>5. ASSUME NEW t \in Token, NEW i \in Index, StoreChunk(t, i) PROVE TypeOK'
    BY <1>5 DEF StoreChunk, TaskGoes, Object
<1>6. ASSUME NEW t \in Token, NEW i \in Index, NEW r \in WriteResult, StartCommits(t, i, r)
      PROVE TypeOK'
    <2>1. jobOf[t] \in Job
        BY <1>00, <1>6 DEF StartCommits
    <2>2. ChunkCommit(t, i, "processing", r) /\ \E s \in TaskState : TaskMove(t, i, s)
        BY <1>6 DEF StartCommits, TaskMove
    <2>3. cstatus' \in [Job -> [Index -> ChunkStatus]] /\ late' \in [Token -> [Index -> Nat]]
        BY <2>1, <2>2, ChunkCommitType
    <2>4. QED
        BY <1>6, <2>2, <2>3, TaskMoveType DEF StartCommits
<1>7. ASSUME NEW t \in Token, NEW i \in Index, NEW r \in WriteResult, CheckpointCommits(t, i, r)
      PROVE TypeOK'
    <2>1. jobOf[t] \in Job
        BY <1>00, <1>7 DEF CheckpointCommits
    <2>2. ChunkCommit(t, i, "completed", r) /\ \E s \in TaskState : TaskMove(t, i, s)
        BY <1>7 DEF CheckpointCommits, TaskMove
    <2>3. cstatus' \in [Job -> [Index -> ChunkStatus]] /\ late' \in [Token -> [Index -> Nat]]
        BY <2>1, <2>2, ChunkCommitType
    <2>4. QED
        BY <1>7, <2>1, <2>2, <2>3, TaskMoveType DEF CheckpointCommits
<1>8. ASSUME NEW t \in Token, NEW i \in Index, NEW r \in WriteResult, MarkCommits(t, i, r)
      PROVE TypeOK'
    <2>1. jobOf[t] \in Job
        BY <1>00, <1>8 DEF MarkCommits
    <2>2. ChunkCommit(t, i, "failed", r) /\ \E s \in TaskState : TaskMove(t, i, s)
        BY <1>8 DEF MarkCommits, TaskMove
    <2>3. cstatus' \in [Job -> [Index -> ChunkStatus]] /\ late' \in [Token -> [Index -> Nat]]
        BY <2>1, <2>2, ChunkCommitType
    <2>4. QED
        BY <1>8, <2>2, <2>3, TaskMoveType DEF MarkCommits
<1>9. ASSUME NEW t \in Token, MainStep(t) PROVE TypeOK'
    <2>1. CASE Begin(t)
        BY <2>1 DEF Begin
    <2>2. CASE Plan(t)
        BY <2>2 DEF Plan
    <2>3. CASE Collect(t)
        BY <1>0, <2>3 DEF Collect, AllSaved
    <2>4. CASE Fetch(t)
        BY <1>0, <2>4, IndexBounds DEF Fetch, Advance
    <2>5. CASE StoreFinal(t)
        BY <2>5 DEF StoreFinal
    <2>6. CASE Abort(t) \/ FetchFails(t)
        BY <2>6 DEF Abort, FetchFails
    <2>7. CASE CleanUp(t)
        BY <1>0, <2>7, IndexBounds DEF CleanUp, Advance, Object
    <2>8. CASE CleanUpFails(t)
        BY <2>8 DEF CleanUpFails
    <2>9. CASE Stop(t)
        BY <2>9, IndexBounds DEF Stop, Exit, NoTasks, NoKeys
    <2>10. ASSUME NEW r \in WriteResult, SpoilCommits(t, r) PROVE TypeOK'
        <3>1. ChunkCommit(t, next[t], "failed", r)
            BY <2>10 DEF SpoilCommits
        <3>2. cstatus' \in [Job -> [Index -> ChunkStatus]] /\ late' \in [Token -> [Index -> Nat]]
            BY <1>0, <2>10, <3>1, ChunkCommitType DEF SpoilCommits
        <3>3. QED
            BY <2>10, <3>2 DEF SpoilCommits
    <2>11. ASSUME NEW r \in WriteResult, Complete(t, r) PROVE TypeOK'
        <3>1. jobOf[t] \in Job
            BY <1>0, <2>11 DEF Complete
        <3>2. /\ status' \in [Job -> JobStatus] /\ owner' \in [Job -> TokenOrNone]
              /\ lease' \in [Job -> {"none", "live", "expired"}]
              /\ final' \in [Job -> TokenOrNone]
            <4>1. CASE /\ status' = [status EXCEPT ![jobOf[t]] = "completed"]
                       /\ owner' = [owner EXCEPT ![jobOf[t]] = None]
                       /\ lease' = [lease EXCEPT ![jobOf[t]] = "none"]
                       /\ final' = [final EXCEPT ![jobOf[t]] = t]
                <5>1. status' \in [Job -> JobStatus] /\ lease' \in [Job -> {"none", "live", "expired"}]
                    BY <3>1, <4>1
                <5>2. owner' \in [Job -> TokenOrNone] /\ final' \in [Job -> TokenOrNone]
                    BY <3>1, <4>1
                <5>3. QED
                    BY <5>1, <5>2
            <4>2. CASE UNCHANGED jobVars
                BY <4>2
            <4>3. QED
                BY <2>11, <4>1, <4>2 DEF Complete
        <3>3. pc' \in [Token -> WorkerPC]
            BY <2>11 DEF Complete
        <3>4. QED
            BY <2>11, <3>2, <3>3 DEF Complete
    <2>12. ASSUME NEW r \in WriteResult, FailJob(t, r) PROVE TypeOK'
        <3>1. jobOf[t] \in Job
            BY <1>0, <2>12 DEF FailJob
        <3>2. /\ status' \in [Job -> JobStatus] /\ owner' \in [Job -> TokenOrNone]
              /\ lease' \in [Job -> {"none", "live", "expired"}]
            BY <2>12, <3>1 DEF FailJob
        <3>3. pc' \in [Token -> WorkerPC]
            BY <2>12 DEF FailJob
        <3>4. QED
            BY <2>12, <3>2, <3>3 DEF FailJob
    <2>13. QED
        BY <1>9, <2>1, <2>2, <2>3, <2>4, <2>5, <2>6, <2>7, <2>8, <2>9, <2>10, <2>11, <2>12
        DEF MainStep
<1>10. ASSUME NEW t \in Token, Die(t) PROVE TypeOK'
    BY <1>10, IndexBounds DEF Die, Exit, NoTasks, NoKeys
<1>11. ASSUME NEW t \in Token, Heartbeat(t) PROVE TypeOK'
    BY <1>11 DEF Heartbeat, Owns
<1>12. ASSUME NEW t \in Token, HeartbeatFails(t) PROVE TypeOK'
    BY <1>12 DEF HeartbeatFails
<1>13. ASSUME NEW s \in Sweeper, SweepStep(s) PROVE TypeOK'
    <2>1. CASE ListPage(s)
        BY <2>1 DEF ListPage, MayBeOld
    <2>2. CASE SpareReferenced(s)
        BY <2>2 DEF SpareReferenced
    <2>3. CASE SpareActive(s)
        BY <1>0, <2>3 DEF SpareActive
    <2>4. CASE Delete(s)
        BY <1>0, <2>4 DEF Delete
    <2>5. CASE EndPage(s)
        BY <2>5 DEF EndPage
    <2>6. QED
        BY <1>13, <2>1, <2>2, <2>3, <2>4, <2>5 DEF SweepStep
<1>14. CASE UNCHANGED vars
    BY <1>14 DEF vars
<1>15. ASSUME NEW t \in Token, WorkerStep(t) PROVE TypeOK'
    <2>1. CASE MainStep(t)
        BY <1>9, <2>1
    <2>2. CASE TaskStep(t)
        BY ONLY <2>2, <1>4, <1>5, <1>6, <1>7, <1>8 DEF TaskStep
    <2>3. QED
        BY ONLY <1>15, <2>1, <2>2 DEF WorkerStep
<1>16. ASSUME NEW j \in Job, NEW t \in Token, Submit(j, t) \/ Retry(j, t) \/ Recover(j, t)
       PROVE TypeOK'
    <2>1. FALSE \in BOOLEAN /\ TRUE \in BOOLEAN
        OBVIOUS
    <2>2. QED
        BY <1>16, <1>1, <1>2, <2>1 DEF Retry, Recover
<1>17. CASE Next
    BY ONLY <1>17, <1>3, <1>10, <1>11, <1>12, <1>13, <1>15, <1>16 DEF Next
<1>18. QED
    BY <1>14, <1>17

-----------------------------------------------------------------------------
(***************************************************************************)
(* The inductive invariant.                                                *)
(***************************************************************************)
LEMMA InvInit == Init => IInv
<1> SUFFICES ASSUME Init PROVE IInv
    OBVIOUS
<1>1. TypeOK
    BY TypeInit
<1>2. OwnerInv /\ WorkerInv /\ KeyInv /\ CheckpointInv /\ CompletedIsWhole
    BY NoneAssumption DEF Init, OwnerInv, WorkerInv, KeyInv, CheckpointInv, CompletedIsWhole
<1>3. OwnedInv /\ MergeInv /\ SweepInv /\ LateInv
    BY NoneAssumption DEF Init, OwnedInv, Owns, MergeInv, SweepInv, LateInv
<1>4. QED
    BY <1>1, <1>2, <1>3 DEF IInv

(***************************************************************************)
(* Submission and claims put a fresh token in charge.                      *)
(***************************************************************************)
PutInCharge(j, t) ==
    /\ status[j] # "completed"
    /\ pc[t] = "free"
    /\ status' = [status EXCEPT ![j] = "processing"]
    /\ owner' = [owner EXCEPT ![j] = t]
    /\ pc' = [pc EXCEPT ![t] = "claimed"]
    /\ jobOf' = [jobOf EXCEPT ![t] = j]
    /\ UNCHANGED <<final, cstatus, ckey, late, task, keys, next, store, finals, spc, doomed>>

\* A new owner has done nothing yet, and the old one is fenced out.
LEMMA PutInChargeKeepsInv ==
    ASSUME IInv, TypeOK', NEW j \in Job, NEW t \in Token, PutInCharge(j, t)
    PROVE  IInv'
<1> USE NoneAssumption DEF PutInCharge, IInv, Owns
<1>1. OwnerInv'
    BY DEF OwnerInv, TypeOK
<1>2. WorkerInv'
    BY DEF WorkerInv, TypeOK
<1>3. KeyInv'
    BY DEF KeyInv, Done, Uploaded, TypeOK, TokenOrNone, Object
<1>4. CheckpointInv'
    BY DEF CheckpointInv, TypeOK
<1>5. \A i \in Index : late[t][i] = 0
    BY DEF LateInv, TypeOK
<1>6. \A x \in Job : owner[x] # t
    BY DEF OwnerInv, TypeOK
<1>7. LateInv'
    <2>1. ASSUME NEW u \in Token, NEW i \in Index, late'[u][i] # 0
          PROVE  /\ late'[u][i] = 1
                 /\ pc'[u] # "free" /\ ~Owns(u, jobOf[u])'
                 /\ ~Open(u, i)'
        <3>1. u # t /\ late[u][i] # 0
            BY <1>5, <2>1
        <3>2. late[u][i] = 1 /\ pc[u] # "free" /\ ~Owns(u, jobOf[u]) /\ ~Open(u, i)
            BY <3>1 DEF LateInv
        <3>3. pc'[u] = pc[u] /\ jobOf'[u] = jobOf[u]
            BY <3>1 DEF TypeOK
        <3>4. ~Open(u, i)'
            BY <3>2, <3>3 DEF Open
        <3>5. ~Owns(u, jobOf[u])'
            <4>1. jobOf[u] \in Job
                BY <3>2 DEF WorkerInv
            <4>2. QED
                BY <3>1, <3>2, <3>3, <4>1 DEF TypeOK
        <3>6. QED
            BY <3>2, <3>3, <3>4, <3>5
    <2>2. QED
        BY <2>1 DEF LateInv
<1>8. OwnedInv'
    <2>1. \A i \in Index : task[t][i] = "over"
        BY DEF WorkerInv, TypeOK, TaskState
    <2>2. \A x \in Job, i \in Index : LateOn(x, i) => LateOn(x, i)'
        BY <1>5 DEF LateOn, TypeOK
    <2>3. ASSUME NEW u \in Token, NEW x \in Job, Owns(u, x)'
          PROVE  (u = t /\ pc'[u] = "claimed") \/ (u # t /\ pc'[u] = pc[u] /\ Owns(u, x))
        BY <1>6, <2>3 DEF TypeOK
    <2>4. QED
        BY <2>1, <2>2, <2>3 DEF OwnedInv
<1>9. MergeInv'
    <2>1. ASSUME NEW u \in Token, pc'[u] \in {"fetching", "spoiling", "merged", "uploaded", "cleaning"}
          PROVE  u # t /\ pc'[u] = pc[u] /\ jobOf'[u] = jobOf[u] /\ jobOf[u] \in Job
        BY <2>1 DEF WorkerInv, TypeOK
    <2>2. ASSUME NEW c \in TokenOrNone, NEW i \in Index, c # None, Done(c, i)
          PROVE  jobOf'[c] = jobOf[c] /\ Done(c, i)'
        BY <2>2 DEF Done, Uploaded, TokenOrNone, TypeOK
    <2>3. \A u \in Token, i \in Index : keys[u][i] \in TokenOrNone
        BY DEF TypeOK
    <2>4. QED
        BY <2>1, <2>2, <2>3 DEF MergeInv, TypeOK
<1>10. SweepInv'
    BY DEF SweepInv, Done, Uploaded, TypeOK, Object
<1>11. CompletedIsWhole'
    <2>1. \A x \in Job, i \in Index : LateOn(x, i) => LateOn(x, i)'
        BY <1>5 DEF LateOn, TypeOK
    <2>2. QED
        BY <2>1 DEF CompletedIsWhole, WorkerInv, TypeOK
<1>12. QED
    BY <1>1, <1>2, <1>3, <1>4, <1>7, <1>8, <1>9, <1>10, <1>11

(***************************************************************************)
(* The steps of a chunk's task.                                            *)
(***************************************************************************)

\* A worker whose tasks may still take steps.
LivePC == {"running", "failing", "stopping"}

\* The task of chunk i goes to s, and its worker to p.
TaskTo(t, i, s, p) ==
    /\ task' = [task EXCEPT ![t][i] = s]
    /\ pc' = [pc EXCEPT ![t] = p]
    /\ UNCHANGED <<status, owner, final, jobOf, keys, next, store, finals, spc, doomed>>

\* A task that moves.
LEMMA TaskMoveTo ==
    ASSUME TypeOK, NEW t \in Token, NEW i \in Index, NEW s, TaskMove(t, i, s), pc[t] \in LivePC,
           UNCHANGED <<jobVars, storeVars, sweepVars>>
    PROVE  \E q \in {s, "over"}, p \in LivePC : TaskTo(t, i, q, p)
<1>1. CASE TaskGoes(t, i, s)
    <2>1. pc' = [pc EXCEPT ![t] = pc[t]]
        BY <1>1 DEF TaskGoes, TypeOK
    <2>2. TaskTo(t, i, s, pc[t])
        BY <1>1, <2>1 DEF TaskGoes, TaskTo, jobVars, storeVars, sweepVars
    <2>3. QED
        BY <2>2
<1>2. CASE TaskRaises(t, i)
    <2>1. AfterRaise(pc[t]) \in LivePC
        BY DEF AfterRaise, LivePC
    <2>2. TaskTo(t, i, "over", AfterRaise(pc[t]))
        BY <1>2 DEF TaskRaises, TaskTo, jobVars, storeVars, sweepVars
    <2>3. QED
        BY <2>1, <2>2
<1>3. QED
    BY <1>1, <1>2 DEF TaskMove

\* The step of a task that writes no row: it executes a statement while the job is in
\* the worker's charge, or fails.
Quiet(t, i, s, p) ==
    /\ task[t][i] # "over"
    /\ TaskTo(t, i, s, p)
    /\ s \in {"beginning", "saving", "marking"} => Owns(t, jobOf[t])
    /\ \/ s \in {"erring", "marking", "over"}
       \/ s = "beginning" /\ task[t][i] = "waiting"
       \/ s = "saving" /\ task[t][i] = "stored"
    /\ UNCHANGED <<cstatus, ckey, late>>

\* Such a step keeps the invariant.
LEMMA QuietKeepsInv ==
    ASSUME IInv, TypeOK', NEW t \in Token, NEW i \in Index, NEW s \in TaskState,
           NEW p \in LivePC, Quiet(t, i, s, p)
    PROVE  IInv'
<1> USE DEF IInv
<1>1. /\ \A u \in Token, k \in Index : task'[u][k] = IF u = t /\ k = i THEN s ELSE task[u][k]
      /\ \A u \in Token : pc'[u] = IF u = t THEN p ELSE pc[u]
    BY DEF Quiet, TaskTo, TypeOK
<1>2. UNCHANGED <<status, owner, final, cstatus, ckey, late, jobOf, keys, next, store, finals, spc, doomed>>
    BY DEF Quiet, TaskTo
<1>3. /\ task[t][i] # "over" /\ pc[t] \in LivePC /\ p # "free" /\ pc[t] # "free"
      /\ s \in {"beginning", "saving", "marking"} => Owns(t, jobOf[t])
      /\ s \in {"erring", "marking", "over"} \/ (s = "beginning" /\ task[t][i] = "waiting")
         \/ (s = "saving" /\ task[t][i] = "stored")
    BY DEF Quiet, WorkerInv, LivePC
<1>4. /\ \A u \in Token, k \in Index : Uploaded(<<u, k>>) => Uploaded(<<u, k>>)'
      /\ \A u \in Token, k \in Index : Done(u, k) => Done(u, k)'
    BY <1>1, <1>3 DEF Uploaded, Done, LivePC
<1>5. \A x \in Job : x # None
    BY NoneAssumption
<1>6. OwnerInv'
    BY <1>1, <1>2, <1>3 DEF OwnerInv
<1>7. WorkerInv'
    BY <1>1, <1>2, <1>3 DEF WorkerInv, LivePC
<1>8. KeyInv'
    <2>1. \A k \in store : k = <<k[1], k[2]>> /\ k[1] \in Token /\ k[2] \in Index
        BY DEF TypeOK, Object
    <2>2. \A k \in store : Uploaded(k)'
        BY <1>4, <2>1 DEF KeyInv
    <2>3. \A j \in Job, k \in Index : ckey[j][k] # None => ckey[j][k] \in Token
        BY DEF TypeOK, TokenOrNone
    <2>4. QED
        BY <1>2, <1>4, <2>2, <2>3 DEF KeyInv
<1>9. CheckpointInv' /\ CompletedIsWhole'
    BY <1>2 DEF CheckpointInv, CompletedIsWhole, LateOn
<1>10. LateInv'
    <2>1. \A u \in Token, k \in Index : late[u][k] # 0 => ~Open(u, k)'
        BY <1>1, <1>2, <1>3 DEF LateInv, Open, LivePC
    <2>2. QED
        BY <1>1, <1>2, <1>3, <2>1 DEF LateInv, Owns
<1>11. OwnedInv'
    <2>1. \A u \in Token, k \in Index :
              task'[u][k] \in {"waiting", "beginning"} => task[u][k] \in {"waiting", "beginning"}
        BY <1>1, <1>3
    <2>2. \A u \in Token : pc'[u] \in {"fetching", "spoiling", "merged", "uploaded"} => pc'[u] = pc[u]
        BY <1>1 DEF LivePC
    <2>3. QED
        BY <1>2, <2>1, <2>2 DEF OwnedInv, Owns, LateOn
<1>12. MergeInv'
    <2>1. \A u \in Token : pc'[u] \in {"fetching", "spoiling", "merged", "uploaded", "cleaning"} => pc'[u] = pc[u]
        BY <1>1 DEF LivePC
    <2>2. \A u \in Token, k \in Index : keys[u][k] # None => keys[u][k] \in Token
        BY DEF TypeOK, TokenOrNone
    <2>3. QED
        BY <1>2, <1>4, <2>1, <2>2 DEF MergeInv
<1>13. SweepInv'
    <2>1. \A x \in Sweeper : \A k \in doomed[x] : k[1] \in Token /\ k[2] \in Index
        BY DEF TypeOK, Object
    <2>2. QED
        BY <1>2, <1>4, <2>1 DEF SweepInv
<1>14. QED
    BY <1>6, <1>7, <1>8, <1>9, <1>10, <1>11, <1>12, <1>13

\* The step of a worker that commits status c of chunk i, late or not: what it had
\* executed the statement for; a completed chunk gets the worker's key.
Commits(t, i, s, p, c) ==
    /\ Open(t, i)
    /\ TaskTo(t, i, s, p)
    /\ s \in {"erring", "over"} \/ (s = "generating" /\ task[t][i] = "beginning")
    /\ c = "processing" => task[t][i] = "beginning"
    /\ c = "completed" => task[t][i] = "saving"
    /\ Written(t, i, c)
    /\ ckey' = IF c = "completed" THEN [ckey EXCEPT ![jobOf[t]][i] = t] ELSE ckey

\* A worker with an open write has a job, and has written nothing late to the chunk.
LEMMA OpenWriter ==
    ASSUME IInv, NEW t \in Token, NEW i \in Index, Open(t, i)
    PROVE  /\ pc[t] \in LivePC \cup {"spoiling"} /\ pc[t] # "free"
           /\ jobOf[t] \in Job /\ status[jobOf[t]] # "absent"
           /\ late[t][i] = 0
           /\ t # None
<1>1. pc[t] \in LivePC \cup {"spoiling"} /\ pc[t] # "free"
    BY DEF Open, IInv, WorkerInv, LivePC
<1>2. QED
    BY <1>1, NoneAssumption DEF IInv, WorkerInv, LateInv

\* Such a step keeps the invariant.
LEMMA CommitsKeepsInv ==
    ASSUME IInv, TypeOK', NEW t \in Token, NEW i \in Index, NEW s \in TaskState,
           NEW p \in LivePC, NEW c \in ChunkStatus, s = "over" \/ pc[t] # "spoiling",
           Commits(t, i, s, p, c)
    PROVE  IInv'
<1> DEFINE j == jobOf[t]
<1> USE DEF IInv
<1>0. /\ pc[t] \in LivePC \cup {"spoiling"} /\ pc[t] # "free" /\ p # "free"
      /\ j \in Job /\ status[j] # "absent"
      /\ late[t][i] = 0
      /\ t # None
    BY OpenWriter DEF Commits, LivePC
<1>1. /\ \A u \in Token, k \in Index : task'[u][k] = IF u = t /\ k = i THEN s ELSE task[u][k]
      /\ \A u \in Token : pc'[u] = IF u = t THEN p ELSE pc[u]
    BY DEF Commits, TaskTo, TypeOK
<1>2. UNCHANGED <<status, owner, final, jobOf, keys, next, store, finals, spc, doomed>>
    BY DEF Commits, TaskTo
<1>3. /\ Open(t, i)
      /\ s \in {"erring", "over"} \/ (s = "generating" /\ task[t][i] = "beginning")
      /\ c = "processing" => task[t][i] = "beginning"
      /\ c = "completed" => task[t][i] = "saving" /\ s \in {"erring", "over"}
    BY DEF Commits
<1>4. \A x \in Job, k \in Index : cstatus'[x][k] = IF x = j /\ k = i THEN c ELSE cstatus[x][k]
    <2>1. cstatus' = [cstatus EXCEPT ![j][i] = c]
        BY DEF Commits, Written
    <2>2. QED
        BY <1>0, <2>1 DEF TypeOK
<1>5. \A x \in Job, k \in Index :
          ckey'[x][k] = IF x = j /\ k = i /\ c = "completed" THEN t ELSE ckey[x][k]
    <2>1. ckey' = IF c = "completed" THEN [ckey EXCEPT ![j][i] = t] ELSE ckey
        BY DEF Commits
    <2>2. QED
        BY <1>0, <2>1 DEF TypeOK
<1>6. \A u \in Token, k \in Index :
          late'[u][k] = IF u = t /\ k = i /\ ~Owns(t, j) THEN 1 ELSE late[u][k]
    <2>1. late' = IF Owns(t, j) THEN late ELSE [late EXCEPT ![t][i] = @ + 1]
        BY DEF Commits, Written
    <2>2. QED
        BY <1>0, <2>1 DEF TypeOK
<1>7. /\ \A u \in Token, k \in Index : Uploaded(<<u, k>>) => Uploaded(<<u, k>>)'
      /\ \A u \in Token, k \in Index : Done(u, k) => Done(u, k)'
      /\ c = "completed" => Done(t, i)' /\ ~Done(t, i)
    BY <1>0, <1>1, <1>3 DEF Uploaded, Done, LivePC
<1>8. /\ \A u \in Token, k \in Index : late[u][k] > 0 => late'[u][k] > 0
      /\ \A x \in Job, k \in Index : LateOn(x, k) => LateOn(x, k)'
      /\ ~Owns(t, j) => late'[t][i] > 0 /\ LateOn(j, i)'
    <2>1. \A u \in Token, k \in Index : late[u][k] > 0 => late'[u][k] > 0
        BY <1>6
    <2>2. \A x \in Job, k \in Index : LateOn(x, k) => LateOn(x, k)'
        BY <1>2, <2>1 DEF LateOn
    <2>3. ~Owns(t, j) => late'[t][i] > 0
        BY <1>6
    <2>4. QED
        BY <1>2, <2>1, <2>2, <2>3 DEF LateOn
<1>9. OwnerInv'
    BY <1>0, <1>1, <1>2, <1>4, <1>5 DEF OwnerInv
<1>10. WorkerInv'
    <2>1. \A u \in Token : pc'[u] # "free" => pc[u] # "free"
        BY <1>0, <1>1
    <2>2. \A u \in Token, k \in Index : task'[u][k] # "over" => pc'[u] \in LivePC
        <3>1. ASSUME NEW u \in Token, NEW k \in Index, task'[u][k] # "over", u # t PROVE pc'[u] \in LivePC
            <4>1. task[u][k] # "over" /\ pc'[u] = pc[u]
                BY <1>1, <3>1
            <4>2. QED
                BY <4>1 DEF WorkerInv, LivePC
        <3>2. pc'[t] \in LivePC
            BY <1>1
        <3>3. QED
            BY <3>1, <3>2
    <2>3. \A u \in Token, k \in Index : task'[u][k] \in {"stored", "saving"} => task[u][k] = task'[u][k]
        BY <1>1, <1>3
    <2>4. \A u \in Token : (pc'[u] = "uploaded" => pc[u] = "uploaded") /\ (pc[u] # "free" => pc'[u] # "free")
        BY <1>0, <1>1 DEF LivePC
    <2>5. QED
        BY <1>2, <2>1, <2>2, <2>3, <2>4 DEF WorkerInv, LivePC
<1>11. KeyInv'
    <2>1. \A k \in store : k = <<k[1], k[2]>> /\ k[1] \in Token /\ k[2] \in Index
        BY DEF TypeOK, Object
    <2>2. \A k \in store : Uploaded(k)'
        BY <1>7, <2>1 DEF KeyInv
    <2>3. ASSUME NEW x \in Job, NEW k \in Index, ckey'[x][k] # None
          PROVE  \E d \in Token : d = ckey'[x][k] /\ jobOf[d] = x /\ Done(d, k)'
        <3>1. CASE x = j /\ k = i /\ c = "completed"
            BY <1>5, <1>7, <3>1
        <3>2. CASE ~(x = j /\ k = i /\ c = "completed")
            <4>1. PICK d \in Token : d = ckey'[x][k] /\ d = ckey[x][k]
                BY <1>5, <2>3, <3>2 DEF TypeOK, TokenOrNone
            <4>2. jobOf[d] = x /\ Done(d, k)
                BY <2>3, <4>1 DEF KeyInv
            <4>3. QED
                BY <1>7, <4>1, <4>2
        <3>3. QED
            BY <3>1, <3>2
    <2>4. ASSUME NEW x \in Job, NEW k \in Index, ckey'[x][k] # None
          PROVE  (jobOf[ckey[x][k]] = x /\ Done(ckey[x][k], k))'
        <3>1. PICK d \in Token : d = ckey'[x][k] /\ jobOf[d] = x /\ Done(d, k)'
            BY <2>3, <2>4
        <3>2. QED
            BY <1>2, <3>1 DEF Done, Uploaded
    <2>5. QED
        BY <1>2, <2>2, <2>4 DEF KeyInv
<1>12. CheckpointInv'
    <2>1. c = "completed" => <<t, i>> \in store
        BY <1>3 DEF WorkerInv
    <2>2. QED
        BY <1>0, <1>2, <1>4, <1>5, <2>1 DEF CheckpointInv
<1>13. LateInv'
    <2>1. \A u \in Token : \A x : Owns(u, x)' <=> Owns(u, x)
        BY <1>2 DEF Owns
    <2>2. ASSUME NEW u \in Token, NEW k \in Index, late'[u][k] # 0
          PROVE  /\ late'[u][k] = 1 /\ pc'[u] # "free" /\ ~Owns(u, jobOf[u]) /\ ~Open(u, k)'
        <3>1. CASE u = t /\ k = i
            <4>1. late'[t][i] = 1 /\ ~Owns(t, j)
                BY <1>0, <1>6, <2>2, <3>1
            <4>2. ~Open(t, i)'
                BY <1>1, <1>3 DEF Open, LivePC
            <4>3. QED
                BY <1>0, <1>1, <3>1, <4>1, <4>2
        <3>2. CASE ~(u = t /\ k = i)
            <4>1. late'[u][k] = late[u][k]
                BY <1>6, <3>2
            <4>2. late[u][k] = 1 /\ pc[u] # "free" /\ ~Owns(u, jobOf[u]) /\ ~Open(u, k)
                BY <2>2, <4>1 DEF LateInv
            <4>3. ~Open(u, k)'
                BY <1>1, <1>2, <3>2, <4>2 DEF Open, LivePC
            <4>4. QED
                BY <1>0, <1>1, <4>1, <4>2, <4>3
        <3>3. QED
            BY <3>1, <3>2
    <2>3. QED
        BY <1>2, <2>1, <2>2 DEF LateInv
<1>14. OwnedInv'
    <2>1. ASSUME NEW u \in Token, NEW x \in Job, Owns(u, x)',
                 NEW k \in Index, task'[u][k] \in {"waiting", "beginning"}, cstatus'[x][k] = "completed"
          PROVE  late'[ckey'[x][k]][k] > 0
        <3>1. Owns(u, x) /\ ~(u = t /\ k = i) /\ task[u][k] = task'[u][k]
            BY <1>1, <1>2, <1>3, <2>1 DEF Owns
        <3>2. CASE x = j /\ k = i
            <4>1. ~Owns(t, j) /\ c = "completed"
                BY <1>4, <2>1, <3>1, <3>2 DEF Owns
            <4>2. QED
                BY <1>5, <1>8, <3>2, <4>1
        <3>3. CASE ~(x = j /\ k = i)
            <4>1. cstatus[x][k] = "completed" /\ ckey'[x][k] = ckey[x][k]
                BY <1>4, <1>5, <2>1, <3>3
            <4>2. ckey[x][k] \in Token
                <5>1. ckey[x][k] # None /\ ckey[x][k] \in TokenOrNone
                    BY <4>1 DEF CheckpointInv, TypeOK
                <5>2. QED
                    BY <5>1 DEF TokenOrNone
            <4>3. QED
                BY <1>8, <2>1, <3>1, <4>1, <4>2 DEF OwnedInv
        <3>4. QED
            BY <3>2, <3>3
    <2>2. ASSUME NEW u \in Token, NEW x \in Job, Owns(u, x)',
                 pc'[u] \in {"fetching", "spoiling", "merged", "uploaded"}, NEW k \in Index
          PROVE  /\ cstatus'[x][k] = "completed" \/ LateOn(x, k)'
                 /\ keys'[u][k] = ckey'[x][k] \/ late'[ckey'[x][k]][k] > 0
        <3>1. Owns(u, x) /\ u # t /\ pc[u] = pc'[u] /\ jobOf[u] = x
            BY <1>1, <1>2, <2>2 DEF Owns, LivePC
        <3>2. /\ cstatus[x][k] = "completed" \/ LateOn(x, k)
              /\ keys[u][k] = ckey[x][k] \/ late[ckey[x][k]][k] > 0
            BY <2>2, <3>1 DEF OwnedInv
        <3>3. ckey[x][k] \in Token
            BY <2>2, <3>1 DEF MergeInv, TypeOK, TokenOrNone
        <3>4. CASE x = j /\ k = i
            <4>1. ~Owns(t, j)
                BY <3>1, <3>4 DEF Owns
            <4>2. QED
                BY <1>2, <1>5, <1>8, <3>2, <3>3, <3>4, <4>1
        <3>5. CASE ~(x = j /\ k = i)
            <4>1. cstatus'[x][k] = cstatus[x][k] /\ ckey'[x][k] = ckey[x][k]
                BY <1>4, <1>5, <3>5
            <4>2. QED
                BY <1>2, <1>8, <3>2, <3>3, <4>1
        <3>6. QED
            BY <3>4, <3>5
    <2>3. QED
        BY <2>1, <2>2 DEF OwnedInv
<1>15. MergeInv'
    <2>1. \A u \in Token : pc'[u] \in {"fetching", "spoiling", "merged", "uploaded", "cleaning"}
                               => pc'[u] = pc[u] /\ jobOf[u] \in Job
        BY <1>1 DEF LivePC, WorkerInv
    <2>2. \A u \in Token, k \in Index : keys[u][k] # None => keys[u][k] \in Token
        BY DEF TypeOK, TokenOrNone
    <2>3. \A x \in Job, k \in Index : ckey[x][k] # None => ckey'[x][k] # None
        BY <1>0, <1>5
    <2>4. QED
        BY <1>2, <1>7, <2>1, <2>2, <2>3 DEF MergeInv
<1>16. SweepInv'
    <2>1. \A x \in Sweeper : \A k \in doomed[x] : k[1] \in Token /\ k[2] \in Index
        BY DEF TypeOK, Object
    <2>2. QED
        BY <1>2, <1>5, <1>7, <2>1 DEF SweepInv
<1>17. CompletedIsWhole'
    <2>1. status[j] = "completed" => ~Owns(t, j)
        BY DEF Owns
    <2>2. QED
        BY <1>0, <1>2, <1>4, <1>5, <1>8, <2>1 DEF CompletedIsWhole
<1>18. QED
    BY <1>9, <1>10, <1>11, <1>12, <1>13, <1>14, <1>15, <1>16, <1>17

\* The steps of a task that commit a chunk's row, and those that do not.
LEMMA TaskStepKeepsInv ==
    ASSUME IInv, TypeOK', NEW t \in Token, TaskStep(t)
    PROVE  IInv'
<1> USE DEF IInv
<1>1. PICK i \in Index :
          \/ StartChunk(t, i) \/ GenerateFails(t, i) \/ StoreChunk(t, i)
          \/ Checkpoint(t, i) \/ MarkFailed(t, i)
          \/ \E r \in WriteResult :
                \/ StartCommits(t, i, r)
                \/ CheckpointCommits(t, i, r)
                \/ MarkCommits(t, i, r)
    BY DEF TaskStep
<1>2. task[t][i] # "over" /\ pc[t] \in LivePC /\ pc[t] # "spoiling"
    <2>1. task[t][i] # "over"
        BY <1>1 DEF StartChunk, GenerateFails, StoreChunk, Checkpoint, MarkFailed, StartCommits,
           CheckpointCommits, MarkCommits
    <2>2. QED
        BY <2>1 DEF WorkerInv, LivePC
<1>3. ASSUME NEW s \in TaskState, TaskMove(t, i, s), UNCHANGED <<jobVars, chunkVars, storeVars, sweepVars>>,
             s \in {"beginning", "saving", "marking"} => Owns(t, jobOf[t]),
             \/ s \in {"erring", "marking", "over"}
             \/ s = "beginning" /\ task[t][i] = "waiting"
             \/ s = "saving" /\ task[t][i] = "stored"
      PROVE  IInv'
    <2>1. PICK q \in {s, "over"}, p \in LivePC : TaskTo(t, i, q, p)
        BY <1>2, <1>3, TaskMoveTo
    <2>2. Quiet(t, i, q, p) /\ q \in TaskState
        BY <1>2, <1>3, <2>1 DEF Quiet, chunkVars, TaskState
    <2>3. QED
        BY <2>2, QuietKeepsInv
<1>4. ASSUME NEW s \in {"generating", "erring", "over"}, NEW c \in ChunkStatus, TaskMove(t, i, s),
             UNCHANGED <<jobVars, storeVars, sweepVars>>,
             task[t][i] \in {"beginning", "saving", "marking"},
             s = "generating" => task[t][i] = "beginning",
             c = "processing" => task[t][i] = "beginning",
             c = "completed" => task[t][i] = "saving",
             Written(t, i, c),
             ckey' = IF c = "completed" THEN [ckey EXCEPT ![jobOf[t]][i] = t] ELSE ckey
      PROVE  IInv'
    <2>1. PICK q \in {s, "over"}, p \in LivePC : TaskTo(t, i, q, p)
        BY <1>2, <1>4, TaskMoveTo
    <2>2. Commits(t, i, q, p, c) /\ q \in TaskState
        BY <1>4, <2>1 DEF Commits, Open, TaskState
    <2>3. QED
        BY <1>2, <2>2, CommitsKeepsInv
<1>5. CASE StartChunk(t, i)
    BY <1>2, <1>3, <1>5 DEF StartChunk, TaskMove, TaskState
<1>6. CASE GenerateFails(t, i)
    BY <1>3, <1>6 DEF GenerateFails, TaskMove, TaskState
<1>7. CASE Checkpoint(t, i)
    BY <1>3, <1>7 DEF Checkpoint, TaskMove, TaskState
<1>8. CASE MarkFailed(t, i)
    BY <1>3, <1>8 DEF MarkFailed, TaskMove, TaskState
<1>9. ASSUME NEW r \in WriteResult, StartCommits(t, i, r) PROVE IInv'
    <2>1. /\ task[t][i] = "beginning" /\ ChunkCommit(t, i, "processing", r)
          /\ UNCHANGED <<jobVars, ckey, storeVars, sweepVars>>
        BY <1>9 DEF StartCommits
    <2>2. CASE r # "refused" /\ Written(t, i, "processing")
        BY <1>4, <1>9, <2>1, <2>2 DEF StartCommits, TaskMove, ChunkStatus
    <2>3. CASE r = "refused" /\ UNCHANGED <<cstatus, late>>
        BY <1>3, <1>9, <2>1, <2>3 DEF StartCommits, TaskMove, TaskState, chunkVars
    <2>4. QED
        BY <2>1, <2>2, <2>3, ChunkCommitCases
<1>10. ASSUME NEW r \in WriteResult, CheckpointCommits(t, i, r) PROVE IInv'
    <2>1. /\ task[t][i] = "saving" /\ ChunkCommit(t, i, "completed", r)
          /\ UNCHANGED <<jobVars, storeVars, sweepVars>>
          /\ ckey' = IF r # "refused" THEN [ckey EXCEPT ![jobOf[t]][i] = t] ELSE ckey
        BY <1>10 DEF CheckpointCommits, Applied, WriteResult
    <2>2. CASE r # "refused" /\ Written(t, i, "completed")
        BY <1>4, <1>10, <2>1, <2>2 DEF CheckpointCommits, TaskMove, ChunkStatus
    <2>3. CASE r = "refused" /\ UNCHANGED <<cstatus, late>>
        BY <1>3, <1>10, <2>1, <2>3 DEF CheckpointCommits, TaskMove, TaskState, chunkVars
    <2>4. QED
        BY <2>1, <2>2, <2>3, ChunkCommitCases
<1>11. ASSUME NEW r \in WriteResult, MarkCommits(t, i, r) PROVE IInv'
    <2>1. /\ task[t][i] = "marking" /\ ChunkCommit(t, i, "failed", r)
          /\ UNCHANGED <<jobVars, ckey, storeVars, sweepVars>>
        BY <1>11 DEF MarkCommits
    <2>2. CASE r # "refused" /\ Written(t, i, "failed")
        BY <1>4, <1>11, <2>1, <2>2 DEF MarkCommits, TaskMove, ChunkStatus
    <2>3. CASE r = "refused" /\ UNCHANGED <<cstatus, late>>
        BY <1>3, <1>11, <2>1, <2>3 DEF MarkCommits, TaskMove, TaskState, chunkVars
    <2>4. QED
        BY <2>1, <2>2, <2>3, ChunkCommitCases
<1>12. CASE StoreChunk(t, i)
    <2>1. PICK s \in {"stored", "erring"} : task' = [task EXCEPT ![t][i] = s]
        BY <1>12 DEF StoreChunk, TaskGoes
    <2>2. /\ task[t][i] = "generating"
          /\ store' = store \cup {<<t, i>>}
          /\ UNCHANGED <<jobVars, chunkVars, pc, jobOf, keys, next, finals, sweepVars>>
        BY <1>12 DEF StoreChunk, TaskGoes
    <2>3. \A u \in Token, k \in Index : task'[u][k] = IF u = t /\ k = i THEN s ELSE task[u][k]
        BY <2>1 DEF TypeOK
    <2>4. OwnerInv' /\ CheckpointInv' /\ CompletedIsWhole'
        BY <2>2 DEF jobVars, chunkVars, OwnerInv, CheckpointInv, CompletedIsWhole, LateOn
    <2>5. WorkerInv'
        BY <1>2, <2>2, <2>3 DEF WorkerInv, LivePC, jobVars
    <2>6. \A u \in Token, k \in Index : Done(u, k) => Done(u, k)'
        BY <1>2, <2>2, <2>3 DEF Done, Uploaded, LivePC
    <2>7. KeyInv'
        <3>1. \A k \in store' : Uploaded(k)'
            <4>1. Uploaded(<<t, i>>)'
                BY <1>2, <2>2, <2>3 DEF Uploaded, LivePC
            <4>2. \A k \in store : k \in Token \X Index /\ Uploaded(k)
                BY DEF KeyInv, TypeOK, Object
            <4>3. \A k \in store : Uploaded(k)'
                BY <1>2, <2>2, <2>3, <4>2 DEF Uploaded, LivePC
            <4>4. QED
                BY <2>2, <4>1, <4>3
        <3>2. \A x \in Job, k \in Index : ckey[x][k] # None => ckey[x][k] \in Token
            BY DEF TypeOK, TokenOrNone
        <3>3. QED
            BY <2>2, <2>6, <3>1, <3>2 DEF KeyInv, chunkVars
    <2>8. LateInv' /\ OwnedInv'
        BY <2>2, <2>3 DEF jobVars, chunkVars, LateInv, Open, OwnedInv, Owns, LateOn
    <2>9. MergeInv'
        <3>1. \A u \in Token, k \in Index : keys[u][k] # None => keys[u][k] \in Token
            BY DEF TypeOK, TokenOrNone
        <3>2. QED
            BY <2>2, <2>6, <3>1 DEF MergeInv, jobVars, chunkVars
    <2>10. SweepInv'
        <3>1. \A x \in Sweeper : \A k \in doomed[x] : k[1] \in Token /\ k[2] \in Index
            BY DEF TypeOK, Object
        <3>2. QED
            BY <2>2, <2>6, <3>1 DEF SweepInv, jobVars, chunkVars, sweepVars
    <2>11. QED
        BY <2>4, <2>5, <2>7, <2>8, <2>9, <2>10
<1>13. QED
    BY <1>1, <1>5, <1>6, <1>7, <1>8, <1>9, <1>10, <1>11, <1>12

(***************************************************************************)
(* The steps of the main coroutine.                                        *)
(***************************************************************************)

\* The main coroutine goes to p, and may store the merged audio.
MainMove(t, p) ==
    /\ pc[t] # "free"
    /\ pc' = [pc EXCEPT ![t] = p]
    /\ \/ p \in {"starting", "gone"} /\ pc[t] = "claimed"
       \/ p \in {"failing", "stopping"} /\ pc[t] \notin {"claimed", "starting"}
       \/ p = "spoiling" /\ pc[t] = "fetching" /\ Owns(t, jobOf[t])
       \/ p \in {"fetching", "merged"} /\ pc[t] = "fetching"
       \/ p = "uploaded" /\ pc[t] = "merged" /\ t \in finals'
    /\ finals' \in {finals, finals \cup {t}}
    /\ \A u \in Token : u # t => next'[u] = next[u]
    /\ UNCHANGED <<status, owner, final, cstatus, ckey, late, jobOf, task, keys, store, spc, doomed>>

\* Such a step keeps the invariant.
LEMMA MainMoveKeepsInv ==
    ASSUME IInv, TypeOK', NEW t \in Token, NEW p \in WorkerPC, MainMove(t, p)
    PROVE  IInv'
<1> USE DEF IInv
<1>1. \A u \in Token : pc'[u] = IF u = t THEN p ELSE pc[u]
    BY DEF MainMove, TypeOK
<1>2. /\ UNCHANGED <<status, owner, final, cstatus, ckey, late, jobOf, task, keys, store, spc, doomed>>
      /\ finals \subseteq finals' /\ finals' \subseteq finals \cup {t}
      /\ pc[t] # "free" /\ p # "free"
    BY DEF MainMove
<1>3. /\ \A u \in Token, k \in Index : Uploaded(<<u, k>>) => Uploaded(<<u, k>>)'
      /\ \A u \in Token, k \in Index : Done(u, k) => Done(u, k)'
    BY <1>1, <1>2 DEF Uploaded, Done, MainMove
<1>4. OwnerInv' /\ CheckpointInv' /\ CompletedIsWhole'
    BY <1>1, <1>2 DEF OwnerInv, CheckpointInv, CompletedIsWhole, LateOn
<1>5. WorkerInv'
    BY <1>1, <1>2 DEF WorkerInv, MainMove
<1>6. KeyInv'
    <2>1. \A k \in store : k = <<k[1], k[2]>> /\ k[1] \in Token /\ k[2] \in Index
        BY DEF TypeOK, Object
    <2>2. \A k \in store : Uploaded(k)'
        BY <1>3, <2>1 DEF KeyInv
    <2>3. \A x \in Job, k \in Index : ckey[x][k] # None => ckey[x][k] \in Token
        BY DEF TypeOK, TokenOrNone
    <2>4. QED
        BY <1>2, <1>3, <2>2, <2>3 DEF KeyInv
<1>7. LateInv'
    <2>1. \A u \in Token, k \in Index : late[u][k] # 0 => ~Open(u, k)'
        BY <1>1, <1>2 DEF LateInv, Open, MainMove
    <2>2. QED
        BY <1>1, <1>2, <2>1 DEF LateInv, Owns
<1>8. \A u \in Token : pc'[u] \in {"fetching", "spoiling", "merged", "uploaded"}
                           => pc[u] \in {"fetching", "spoiling", "merged", "uploaded"}
    BY <1>1 DEF MainMove
<1>9. OwnedInv'
    BY <1>2, <1>8 DEF OwnedInv, Owns, LateOn
<1>10. MergeInv'
    <2>1. \A u \in Token : pc'[u] = "cleaning" => pc[u] = "cleaning"
        BY <1>1 DEF MainMove
    <2>2. \A u \in Token, k \in Index : keys[u][k] # None => keys[u][k] \in Token
        BY DEF TypeOK, TokenOrNone
    <2>3. QED
        BY <1>2, <1>3, <1>8, <2>1, <2>2 DEF MergeInv
<1>11. SweepInv'
    <2>1. \A x \in Sweeper : \A k \in doomed[x] : k[1] \in Token /\ k[2] \in Index
        BY DEF TypeOK, Object
    <2>2. QED
        BY <1>2, <1>3, <2>1 DEF SweepInv
<1>12. QED
    BY <1>4, <1>5, <1>6, <1>7, <1>9, <1>10, <1>11

\* The chunks that the new worker has to generate are not completed.
LEMMA PlanKeepsInv ==
    ASSUME IInv, TypeOK', NEW t \in Token, Plan(t)
    PROVE  IInv'
<1> USE DEF IInv
<1>1. /\ \A u \in Token : pc'[u] = IF u = t THEN "running" ELSE pc[u]
      /\ \A u \in Token, k \in Index : u # t => task'[u][k] = task[u][k]
      /\ \A k \in Index : \/ task'[t][k] = "over"
                          \/ /\ task'[t][k] = "waiting"
                             /\ cstatus[jobOf[t]][k] # "completed" \/ ckey[jobOf[t]][k] = None
      /\ pc[t] = "starting"
    BY DEF Plan, TypeOK
<1>2. UNCHANGED <<status, owner, final, cstatus, ckey, late, jobOf, keys, next, store, finals, spc, doomed>>
    BY DEF Plan, jobVars, chunkVars, storeVars, sweepVars
<1>3. /\ \A u \in Token, k \in Index : Uploaded(<<u, k>>) => u # t
      /\ \A u \in Token, k \in Index : Uploaded(<<u, k>>) => Uploaded(<<u, k>>)'
      /\ \A u \in Token, k \in Index : Done(u, k) => Done(u, k)'
    BY <1>1 DEF Uploaded, Done
<1>4. OwnerInv' /\ CheckpointInv' /\ CompletedIsWhole'
    BY <1>1, <1>2 DEF OwnerInv, CheckpointInv, CompletedIsWhole, LateOn
<1>5. WorkerInv'
    BY <1>1, <1>2 DEF WorkerInv
<1>6. KeyInv'
    <2>1. \A k \in store : k = <<k[1], k[2]>> /\ k[1] \in Token /\ k[2] \in Index
        BY DEF TypeOK, Object
    <2>2. \A k \in store : Uploaded(k)'
        BY <1>3, <2>1 DEF KeyInv
    <2>3. \A x \in Job, k \in Index : ckey[x][k] # None => ckey[x][k] \in Token
        BY DEF TypeOK, TokenOrNone
    <2>4. QED
        BY <1>2, <1>3, <2>2, <2>3 DEF KeyInv
<1>7. LateInv'
    <2>1. \A u \in Token, k \in Index : late[u][k] # 0 => ~Open(u, k)'
        BY <1>1, <1>2 DEF LateInv, Open
    <2>2. QED
        BY <1>1, <1>2, <2>1 DEF LateInv, Owns
<1>8. OwnedInv'
    <2>1. ASSUME NEW x \in Job, NEW k \in Index, Owns(t, x), cstatus[x][k] = "completed"
          PROVE  task'[t][k] = "over"
        <3>1. x = jobOf[t] /\ ckey[x][k] # None
            BY <2>1 DEF CheckpointInv, Owns
        <3>2. QED
            BY <1>1, <2>1, <3>1
    <2>2. QED
        BY <1>1, <1>2, <2>1 DEF OwnedInv, Owns, LateOn
<1>9. MergeInv'
    <2>1. \A u \in Token, k \in Index : keys[u][k] # None => keys[u][k] \in Token
        BY DEF TypeOK, TokenOrNone
    <2>2. QED
        BY <1>1, <1>2, <1>3, <2>1 DEF MergeInv
<1>10. SweepInv'
    <2>1. \A x \in Sweeper : \A k \in doomed[x] : k[1] \in Token /\ k[2] \in Index
        BY DEF TypeOK, Object
    <2>2. QED
        BY <1>2, <1>3, <2>1 DEF SweepInv
<1>11. QED
    BY <1>4, <1>5, <1>6, <1>7, <1>8, <1>9, <1>10

\* The checkpoints to merge are those of the rows.
LEMMA CollectKeepsInv ==
    ASSUME IInv, TypeOK', NEW t \in Token, Collect(t)
    PROVE  IInv'
<1> DEFINE j == jobOf[t]
<1> USE DEF IInv
<1>1. CASE ~AllSaved(j)
    <2>1. pc' = [pc EXCEPT ![t] = "failing"]
        BY <1>1 DEF Collect
    <2>2. keys' = keys
        BY <1>1 DEF Collect, TypeOK
    <2>3. MainMove(t, "failing")
        BY <2>1, <2>2 DEF Collect, MainMove, jobVars, chunkVars, storeVars, sweepVars
    <2>4. QED
        BY <2>3, MainMoveKeepsInv DEF WorkerPC
<1>2. CASE AllSaved(j)
    <2>1. /\ \A u \in Token : pc'[u] = IF u = t THEN "fetching" ELSE pc[u]
          /\ \A u \in Token : keys'[u] = IF u = t THEN ckey[j] ELSE keys[u]
          /\ pc[t] = "running" /\ \A k \in Index : task[t][k] = "over"
        BY <1>2 DEF Collect, TypeOK, TasksOver
    <2>2. UNCHANGED <<status, owner, final, cstatus, ckey, late, jobOf, task, next, store, finals, spc, doomed>>
        BY DEF Collect, jobVars, chunkVars, storeVars, sweepVars
    <2>3. /\ \A u \in Token, k \in Index : Uploaded(<<u, k>>) => Uploaded(<<u, k>>)'
          /\ \A u \in Token, k \in Index : Done(u, k) => Done(u, k)'
        BY <2>1, <2>2 DEF Uploaded, Done
    <2>4. j \in Job /\ \A k \in Index : cstatus[j][k] = "completed" /\ ckey[j][k] # None
        BY <1>2, <2>1 DEF AllSaved, WorkerInv
    <2>5. OwnerInv' /\ CheckpointInv' /\ CompletedIsWhole'
        BY <2>1, <2>2 DEF OwnerInv, CheckpointInv, CompletedIsWhole, LateOn
    <2>6. WorkerInv'
        BY <2>1, <2>2 DEF WorkerInv
    <2>7. \A x \in Job, k \in Index : ckey[x][k] # None => ckey[x][k] \in Token
        BY DEF TypeOK, TokenOrNone
    <2>8. KeyInv'
        <3>1. \A k \in store : k = <<k[1], k[2]>> /\ k[1] \in Token /\ k[2] \in Index
            BY DEF TypeOK, Object
        <3>2. \A k \in store : Uploaded(k)'
            BY <2>3, <3>1 DEF KeyInv
        <3>3. QED
            BY <2>2, <2>3, <2>7, <3>2 DEF KeyInv
    <2>9. LateInv'
        <3>1. \A u \in Token, k \in Index : late[u][k] # 0 => ~Open(u, k)'
            BY <2>1, <2>2 DEF LateInv, Open
        <3>2. QED
            BY <2>1, <2>2, <3>1 DEF LateInv, Owns
    <2>10. OwnedInv'
        <3>1. \A x \in Job : Owns(t, x) => x = j
            BY DEF Owns
        <3>2. QED
            BY <2>1, <2>2, <2>4, <3>1 DEF OwnedInv, Owns, LateOn
    <2>11. MergeInv'
        <3>1. \A u \in Token, k \in Index : keys[u][k] # None => keys[u][k] \in Token
            BY DEF TypeOK, TokenOrNone
        <3>2. \A k \in Index : \E d \in Token : d = ckey[j][k] /\ jobOf[d] = j /\ Done(d, k)'
            BY <2>3, <2>4, <2>7 DEF KeyInv
        <3>3. ASSUME NEW u \in Token, NEW k \in Index,
                     pc'[u] \in {"fetching", "spoiling", "merged", "uploaded", "cleaning"}
              PROVE  \E d \in Token : d = keys'[u][k] /\ jobOf[d] = jobOf[u] /\ Done(d, k)' /\ ckey[jobOf[u]][k] # None
            <4>1. CASE u = t
                BY <2>1, <2>4, <2>7, <3>2, <4>1
            <4>2. CASE u # t
                BY <2>1, <2>3, <3>1, <3>3, <4>2 DEF MergeInv
            <4>3. QED
                BY <4>1, <4>2
        <3>4. ASSUME NEW u \in Token, NEW k \in Index,
                     pc'[u] \in {"fetching", "spoiling", "merged", "uploaded", "cleaning"}
              PROVE  (/\ ckey[jobOf[u]][k] # None /\ keys[u][k] # None
                      /\ jobOf[keys[u][k]] = jobOf[u] /\ Done(keys[u][k], k))'
            <4>1. PICK d \in Token : d = keys'[u][k] /\ jobOf[d] = jobOf[u] /\ Done(d, k)' /\ ckey[jobOf[u]][k] # None
                BY <3>3, <3>4
            <4>2. QED
                BY <2>2, <4>1, NoneAssumption DEF Done, Uploaded
        <3>5. \A u \in Token : pc'[u] = "cleaning" => status'[jobOf'[u]] = "completed"
            BY <2>1, <2>2 DEF MergeInv
        <3>6. QED
            BY <3>4, <3>5 DEF MergeInv
    <2>12. SweepInv'
        <3>1. \A x \in Sweeper : \A k \in doomed[x] : k[1] \in Token /\ k[2] \in Index
            BY DEF TypeOK, Object
        <3>2. QED
            BY <2>2, <2>3, <3>1 DEF SweepInv
    <2>13. QED
        BY <2>5, <2>6, <2>8, <2>9, <2>10, <2>11, <2>12
<1>3. QED
    BY <1>1, <1>2

\* A checkpoint that cannot be read is marked as failed.
LEMMA SpoilCommitsKeepsInv ==
    ASSUME IInv, TypeOK', NEW t \in Token, NEW r \in WriteResult, SpoilCommits(t, r)
    PROVE  IInv'
<1> DEFINE i == next[t]
<1>1. i \in Index /\ task[t][i] = "over"
    BY DEF IInv, TypeOK, WorkerInv, SpoilCommits, TaskState
<1>2. ChunkCommit(t, i, "failed", r)
    BY DEF SpoilCommits
<1>3. CASE r # "refused" /\ Written(t, i, "failed")
    <2>1. task' = [task EXCEPT ![t][i] = "over"]
        BY <1>1 DEF SpoilCommits, IInv, TypeOK
    <2>2. TaskTo(t, i, "over", "failing")
        BY <2>1 DEF SpoilCommits, TaskTo, jobVars, storeVars, sweepVars
    <2>3. Commits(t, i, "over", "failing", "failed")
        BY <1>3, <2>2 DEF Commits, SpoilCommits, Open
    <2>4. QED
        BY <1>1, <2>3, CommitsKeepsInv DEF LivePC, ChunkStatus, TaskState
<1>4. CASE r = "refused" /\ UNCHANGED <<cstatus, late>>
    <2>1. MainMove(t, "failing")
        BY <1>4 DEF SpoilCommits, MainMove, jobVars, storeVars, sweepVars
    <2>2. QED
        BY <2>1, MainMoveKeepsInv DEF WorkerPC
<1>5. QED
    BY <1>2, <1>3, <1>4, ChunkCommitCases

\* _job_update, in any of its uses: the job in charge of t gets status c, or nothing
\* does, and the worker goes to p.
Settled(t, p, c) ==
    LET j == jobOf[t] IN
    /\ pc[t] \notin {"free", "claimed", "starting"}
    /\ pc' = [pc EXCEPT ![t] = p]
    /\ Owns(t, j)
    /\ status' = [status EXCEPT ![j] = c]
    /\ owner' = [owner EXCEPT ![j] = None]
    /\ \/ c = "failed" /\ p = "stopping" /\ final' = final
       \/ /\ c = "completed" /\ pc[t] = "uploaded" /\ p \in {"cleaning", "failing"}
          /\ final' = [final EXCEPT ![j] = t]
    /\ UNCHANGED <<cstatus, ckey, late, jobOf, task, keys, next, store, finals, spc, doomed>>

\* A job that is settled has no owner; if completed, all its chunks have their audio.
LEMMA SettlesKeepsInv ==
    ASSUME IInv, TypeOK', NEW t \in Token, NEW p \in WorkerPC, NEW c \in JobStatus, Settled(t, p, c)
    PROVE  IInv'
<1> DEFINE j == jobOf[t]
<1> USE DEF IInv
<1>1. /\ pc[t] \notin {"free", "claimed", "starting"} /\ p \in {"stopping", "cleaning", "failing"}
      /\ j \in Job /\ Owns(t, j) /\ c \in {"failed", "completed"} /\ t # None
      /\ c = "completed" => pc[t] = "uploaded"
      /\ p = "cleaning" => c = "completed"
    BY NoneAssumption DEF Settled, WorkerInv
<1>2. /\ \A u \in Token : pc'[u] = IF u = t THEN p ELSE pc[u]
      /\ \A x \in Job : status'[x] = IF x = j THEN c ELSE status[x]
      /\ \A x \in Job : owner'[x] = IF x = j THEN None ELSE owner[x]
      /\ \A x \in Job : final'[x] = IF x = j /\ c = "completed" THEN t ELSE final[x]
    BY <1>1 DEF Settled, TypeOK
<1>3. UNCHANGED <<cstatus, ckey, late, jobOf, task, keys, next, store, finals, spc, doomed>>
    BY DEF Settled
<1>4. /\ \A u \in Token, k \in Index : Uploaded(<<u, k>>) => Uploaded(<<u, k>>)'
      /\ \A u \in Token, k \in Index : Done(u, k) => Done(u, k)'
    BY <1>1, <1>2, <1>3 DEF Uploaded, Done
<1>5. OwnerInv'
    BY <1>1, <1>2, <1>3 DEF OwnerInv, Owns
<1>6. WorkerInv'
    BY <1>1, <1>2, <1>3 DEF WorkerInv, Settled
<1>7. \A x \in Job, k \in Index : ckey[x][k] # None => ckey[x][k] \in Token
    BY DEF TypeOK, TokenOrNone
<1>8. KeyInv'
    <2>1. \A k \in store : k = <<k[1], k[2]>> /\ k[1] \in Token /\ k[2] \in Index
        BY DEF TypeOK, Object
    <2>2. \A k \in store : Uploaded(k)'
        BY <1>4, <2>1 DEF KeyInv
    <2>3. QED
        BY <1>3, <1>4, <1>7, <2>2 DEF KeyInv
<1>9. CheckpointInv'
    BY <1>1, <1>2, <1>3 DEF CheckpointInv, Owns
<1>10. \A u \in Token, x \in Job : Owns(u, x)' => Owns(u, x) /\ u # t
    BY <1>1, <1>2, <1>3 DEF Owns
<1>11. LateInv'
    <2>1. \A u \in Token, k \in Index : late[u][k] # 0 => ~Open(u, k)'
        BY <1>1, <1>2, <1>3 DEF LateInv, Open
    <2>2. \A u \in Token : pc[u] # "free" => (Owns(u, jobOf[u])' => Owns(u, jobOf[u]))
        BY <1>3, <1>10 DEF WorkerInv
    <2>3. QED
        BY <1>1, <1>2, <1>3, <2>1, <2>2 DEF LateInv
<1>12. OwnedInv'
    <2>1. \A u \in Token, x \in Job : Owns(u, x)' => pc'[u] = pc[u]
        BY <1>2, <1>10
    <2>2. QED
        BY <1>3, <1>10, <2>1 DEF OwnedInv, LateOn
<1>13. MergeInv'
    <2>1. \A u \in Token, k \in Index : keys[u][k] # None => keys[u][k] \in Token
        BY DEF TypeOK, TokenOrNone
    <2>2. \A u \in Token : pc'[u] \in {"fetching", "spoiling", "merged", "uploaded", "cleaning"}
              => pc[u] \in {"fetching", "spoiling", "merged", "uploaded", "cleaning"}
        BY <1>1, <1>2
    <2>3. \A u \in Token : pc'[u] = "cleaning" => status'[jobOf[u]] = "completed"
        BY <1>1, <1>2 DEF MergeInv, WorkerInv, Owns
    <2>4. QED
        BY <1>3, <1>4, <2>1, <2>2, <2>3 DEF MergeInv
<1>14. SweepInv'
    <2>1. \A x \in Sweeper : \A k \in doomed[x] : k[1] \in Token /\ k[2] \in Index
        BY DEF TypeOK, Object
    <2>2. \A x \in Job : status'[x] # "completed" => status[x] # "completed"
        BY <1>1, <1>2 DEF Owns
    <2>3. QED
        BY <1>3, <1>4, <2>1, <2>2 DEF SweepInv
<1>15. CompletedIsWhole'
    <2>1. c = "completed" => /\ t \in finals
                             /\ \A k \in Index : /\ ckey[j][k] # None
                                                 /\ cstatus[j][k] = "completed" \/ LateOn(j, k)
        BY <1>1 DEF WorkerInv, OwnedInv, MergeInv
    <2>2. QED
        BY <1>1, <1>2, <1>3, <2>1 DEF CompletedIsWhole, LateOn
<1>16. QED
    BY <1>5, <1>6, <1>8, <1>9, <1>11, <1>12, <1>13, <1>14, <1>15

\* A deletion of the cleanup: the job of the object is completed.
LEMMA CleanUpKeepsInv ==
    ASSUME IInv, TypeOK', NEW t \in Token, CleanUp(t)
    PROVE  IInv'
<1> DEFINE j == jobOf[t]
           i0 == next[t]
           d == keys[t][i0]
<1> USE DEF IInv
<1>1. pc[t] = "cleaning" /\ j \in Job /\ i0 \in Index /\ status[j] = "completed"
    BY DEF CleanUp, WorkerInv, MergeInv, TypeOK
<1>2. d \in Token /\ jobOf[d] = j /\ Done(d, i0)
    BY <1>1 DEF MergeInv, TypeOK, TokenOrNone
<1>3. /\ \A u \in Token : pc'[u] = IF u = t THEN pc'[t] ELSE pc[u]
      /\ \A u \in Token : u # t => next'[u] = next[u]
      /\ pc'[t] \in {"cleaning", "stopping"}
      /\ store' = store \ {<<d, i0>>}
    BY <1>1 DEF CleanUp, Advance, TypeOK
<1>4. UNCHANGED <<status, owner, final, cstatus, ckey, late, jobOf, task, keys, finals, spc, doomed>>
    BY DEF CleanUp, jobVars, chunkVars, storeVars, sweepVars
<1>5. /\ \A u \in Token, k \in Index : Uploaded(<<u, k>>) => Uploaded(<<u, k>>)'
      /\ \A u \in Token, k \in Index : Done(u, k) => Done(u, k)'
    BY <1>1, <1>3, <1>4 DEF Uploaded, Done
<1>6. OwnerInv' /\ CompletedIsWhole'
    BY <1>1, <1>3, <1>4 DEF OwnerInv, CompletedIsWhole, LateOn
<1>7. WorkerInv'
    <2>1. \A u \in Token, k \in Index : task[u][k] \in {"stored", "saving"} => <<u, k>> # <<d, i0>>
        BY <1>2 DEF Done
    <2>2. QED
        BY <1>1, <1>3, <1>4, <2>1 DEF WorkerInv
<1>8. \A x \in Job, k \in Index : ckey[x][k] # None => ckey[x][k] \in Token
    BY DEF TypeOK, TokenOrNone
<1>9. KeyInv'
    <2>1. \A k \in store : k = <<k[1], k[2]>> /\ k[1] \in Token /\ k[2] \in Index
        BY DEF TypeOK, Object
    <2>2. \A k \in store' : Uploaded(k)'
        BY <1>3, <1>5, <2>1 DEF KeyInv
    <2>3. QED
        BY <1>4, <1>5, <1>8, <2>2 DEF KeyInv
<1>10. CheckpointInv'
    <2>1. ASSUME NEW x \in Job, NEW y \in Index, ckey[x][y] # None, status[x] # "completed"
          PROVE  <<ckey[x][y], y>> # <<d, i0>>
        <3>1. jobOf[ckey[x][y]] = x /\ x # j
            BY <1>1, <2>1 DEF KeyInv
        <3>2. QED
            BY <1>2, <3>1
    <2>2. QED
        BY <1>3, <1>4, <2>1 DEF CheckpointInv
<1>11. LateInv'
    <2>1. \A u \in Token, k \in Index : late[u][k] # 0 => ~Open(u, k)'
        BY <1>1, <1>3, <1>4 DEF LateInv, Open
    <2>2. QED
        BY <1>1, <1>3, <1>4, <2>1 DEF LateInv, Owns
<1>12. OwnedInv'
    BY <1>1, <1>3, <1>4 DEF OwnedInv, Owns, LateOn
<1>13. MergeInv'
    <2>1. \A u \in Token, k \in Index : keys[u][k] # None => keys[u][k] \in Token
        BY DEF TypeOK, TokenOrNone
    <2>2. QED
        BY <1>1, <1>3, <1>4, <1>5, <2>1 DEF MergeInv
<1>14. SweepInv'
    <2>1. \A x \in Sweeper : \A k \in doomed[x] : k[1] \in Token /\ k[2] \in Index
        BY DEF TypeOK, Object
    <2>2. QED
        BY <1>4, <1>5, <2>1 DEF SweepInv
<1>15. QED
    BY <1>6, <1>7, <1>9, <1>10, <1>11, <1>12, <1>13, <1>14

\* A worker that goes leaves what it stored.
LEMMA ExitKeepsInv ==
    ASSUME IInv, TypeOK', NEW t \in Token, Exit(t), pc[t] # "free"
    PROVE  IInv'
<1> USE DEF IInv
<1>1. /\ \A u \in Token : pc'[u] = IF u = t THEN "gone" ELSE pc[u]
      /\ \A u \in Token, k \in Index : task'[u][k] = IF u = t THEN "over" ELSE task[u][k]
      /\ \A u \in Token : u # t => keys'[u] = keys[u] /\ next'[u] = next[u]
    BY DEF Exit, NoTasks, NoKeys, TypeOK
<1>2. UNCHANGED <<status, owner, final, cstatus, ckey, late, jobOf, store, finals, spc, doomed>>
    BY DEF Exit, jobVars, chunkVars, storeVars, sweepVars
<1>3. /\ \A u \in Token, k \in Index : Uploaded(<<u, k>>) => Uploaded(<<u, k>>)'
      /\ \A u \in Token, k \in Index : Done(u, k) => Done(u, k)'
    BY <1>1, <1>2 DEF Uploaded, Done
<1>4. OwnerInv' /\ CheckpointInv' /\ CompletedIsWhole'
    BY <1>1, <1>2 DEF OwnerInv, CheckpointInv, CompletedIsWhole, LateOn
<1>5. WorkerInv'
    BY <1>1, <1>2 DEF WorkerInv
<1>6. KeyInv'
    <2>1. \A k \in store : k = <<k[1], k[2]>> /\ k[1] \in Token /\ k[2] \in Index
        BY DEF TypeOK, Object
    <2>2. \A k \in store : Uploaded(k)'
        BY <1>3, <2>1 DEF KeyInv
    <2>3. \A x \in Job, k \in Index : ckey[x][k] # None => ckey[x][k] \in Token
        BY DEF TypeOK, TokenOrNone
    <2>4. QED
        BY <1>2, <1>3, <2>2, <2>3 DEF KeyInv
<1>7. LateInv'
    <2>1. \A u \in Token, k \in Index : late[u][k] # 0 => ~Open(u, k)'
        BY <1>1, <1>2 DEF LateInv, Open
    <2>2. QED
        BY <1>1, <1>2, <2>1 DEF LateInv, Owns
<1>8. OwnedInv'
    BY <1>1, <1>2 DEF OwnedInv, Owns, LateOn
<1>9. MergeInv'
    <2>1. \A u \in Token, k \in Index : keys[u][k] # None => keys[u][k] \in Token
        BY DEF TypeOK, TokenOrNone
    <2>2. QED
        BY <1>1, <1>2, <1>3, <2>1 DEF MergeInv
<1>10. SweepInv'
    <2>1. \A x \in Sweeper : \A k \in doomed[x] : k[1] \in Token /\ k[2] \in Index
        BY DEF TypeOK, Object
    <2>2. QED
        BY <1>2, <1>3, <2>1 DEF SweepInv
<1>11. QED
    BY <1>4, <1>5, <1>6, <1>7, <1>8, <1>9, <1>10

(***************************************************************************)
(* Every step keeps the inductive invariant.                               *)
(***************************************************************************)

\* A step of the main coroutine.
LEMMA MainStepKeepsInv ==
    ASSUME IInv, TypeOK', NEW t \in Token, MainStep(t)
    PROVE  IInv'
<1>1. ASSUME Begin(t) \/ Fetch(t) \/ StoreFinal(t) \/ Abort(t) \/ FetchFails(t) \/ CleanUpFails(t)
      PROVE  IInv'
    <2>1. \E p \in WorkerPC : MainMove(t, p)
        <3> USE DEF MainMove, WorkerPC, jobVars, chunkVars, storeVars, sweepVars
        <3>1. CASE Begin(t)
            BY <3>1 DEF Begin
        <3>2. CASE Fetch(t)
            BY <3>2 DEF Fetch, Advance, IInv, TypeOK
        <3>3. CASE StoreFinal(t)
            BY <3>3 DEF StoreFinal
        <3>4. CASE Abort(t)
            BY <3>4 DEF Abort
        <3>5. CASE FetchFails(t)
            BY <3>5 DEF FetchFails
        <3>6. CASE CleanUpFails(t)
            BY <3>6 DEF CleanUpFails
        <3>7. QED
            BY <1>1, <3>1, <3>2, <3>3, <3>4, <3>5, <3>6
    <2>2. QED
        BY <2>1, MainMoveKeepsInv
<1>2. CASE Stop(t)
    BY <1>2, ExitKeepsInv DEF Stop
<1>3. ASSUME NEW r \in WriteResult, Complete(t, r) PROVE IInv'
    <2> DEFINE p == IF r = "ok" THEN "cleaning" ELSE "failing"
    <2>1. CASE Applied(r) /\ Owns(t, jobOf[t]) /\ r # "refused" /\ ~UNCHANGED jobVars
        <3>1. Settled(t, p, "completed")
            BY <1>3, <2>1 DEF Complete, Settled, chunkVars, storeVars, sweepVars
        <3>2. QED
            BY <3>1, SettlesKeepsInv DEF WorkerPC, JobStatus
    <2>2. CASE r = "refused" /\ UNCHANGED jobVars
        <3>1. MainMove(t, "failing")
            BY <1>3, <2>2 DEF Complete, MainMove, jobVars, chunkVars, storeVars, sweepVars
        <3>2. QED
            BY <3>1, MainMoveKeepsInv DEF WorkerPC
    <2>3. QED
        <3>1. CASE Applied(r) /\ Owns(t, jobOf[t]) /\ r # "refused"
            <4>1. status' # status
                <5>1. jobOf[t] \in Job /\ status[jobOf[t]] = "processing"
                    BY <1>3, <3>1 DEF Complete, Owns, IInv, WorkerInv
                <5>2. status' = [status EXCEPT ![jobOf[t]] = "completed"]
                    BY <1>3, <3>1 DEF Complete
                <5>3. QED
                    BY <5>1, <5>2 DEF IInv, TypeOK
            <4>2. QED
                BY <2>1, <3>1, <4>1 DEF jobVars
        <3>2. QED
            BY <1>3, <2>2, <3>1 DEF Complete, Applied
<1>4. ASSUME NEW r \in WriteResult, FailJob(t, r) PROVE IInv'
    <2>1. CASE Applied(r)
        <3>1. Settled(t, "stopping", "failed")
            BY <1>4, <2>1 DEF FailJob, Settled, Applied, chunkVars, storeVars, sweepVars
        <3>2. QED
            BY <3>1, SettlesKeepsInv DEF WorkerPC, JobStatus
    <2>2. CASE ~Applied(r)
        <3>1. MainMove(t, "stopping")
            BY <1>4, <2>2 DEF FailJob, Applied, WriteResult, MainMove, chunkVars, storeVars, sweepVars
        <3>2. QED
            BY <3>1, MainMoveKeepsInv DEF WorkerPC
    <2>3. QED
        BY <2>1, <2>2
<1>5. QED
    BY <1>1, <1>2, <1>3, <1>4, PlanKeepsInv, CollectKeepsInv, CleanUpKeepsInv, SpoilCommitsKeepsInv
    DEF MainStep

\* A sweep deletes no audio that a job may still need.
LEMMA SweepStepKeepsInv ==
    ASSUME IInv, TypeOK', NEW s \in Sweeper, SweepStep(s)
    PROVE  IInv'
<1> USE DEF IInv
<1>1. /\ UNCHANGED <<jobVars, chunkVars, workVars, finals>>
      /\ store' \subseteq store
      /\ \A k \in store \ store' : k \in doomed[s] /\ spc[s] = "deleting"
    BY DEF SweepStep, ListPage, SpareReferenced, SpareActive, Delete, EndPage, storeVars
<1>2. OwnerInv' /\ LateInv' /\ OwnedInv' /\ MergeInv' /\ CompletedIsWhole'
    BY <1>1 DEF OwnerInv, LateInv, Open, Owns, OwnedInv, MergeInv, Done, Uploaded, LateOn, CompletedIsWhole,
        jobVars, chunkVars, workVars
<1>3. \A k \in store \ store' : Done(k[1], k[2])
    BY <1>1 DEF SweepInv
<1>4. WorkerInv'
    <2>1. \A t \in Token, i \in Index : task[t][i] \in {"stored", "saving"} => <<t, i>> \in store'
        BY <1>3 DEF WorkerInv, Done
    <2>2. QED
        BY <1>1, <2>1 DEF WorkerInv, workVars, jobVars
<1>5. KeyInv'
    BY <1>1 DEF KeyInv, Done, Uploaded, chunkVars, workVars
<1>6. CheckpointInv'
    <2>1. ASSUME NEW j \in Job, NEW i \in Index, ckey[j][i] # None, status[j] # "completed"
          PROVE  <<ckey[j][i], i>> \in store'
        <3>1. <<ckey[j][i], i>> \in store
            BY <2>1 DEF CheckpointInv
        <3>2. <<ckey[j][i], i>> \notin store \ store'
            BY <1>1, <2>1 DEF SweepInv
        <3>3. QED
            BY <3>1, <3>2
    <2>2. QED
        BY <1>1, <2>1 DEF CheckpointInv, jobVars, chunkVars
<1>7. SweepInv'
    <2> USE DEF Done, Uploaded, jobVars, chunkVars, workVars
    <2>1. CASE ListPage(s)
        <3>1. \A k \in MayBeOld : Done(k[1], k[2])
            BY DEF MayBeOld, KeyInv, TypeOK, Object
        <3>2. \A u \in Sweeper : /\ u # s => spc'[u] = spc[u] /\ doomed'[u] = doomed[u]
                                 /\ u = s => spc'[u] = "listed" /\ doomed'[u] \subseteq MayBeOld
            BY <2>1 DEF ListPage, TypeOK
        <3>3. QED
            BY <1>1, <3>1, <3>2 DEF SweepInv
    <2>2. CASE SpareReferenced(s)
        <3>1. \A u \in Sweeper : /\ u # s => spc'[u] = spc[u] /\ doomed'[u] = doomed[u]
                                 /\ u = s => spc'[u] = "keyed" /\ doomed'[u] = doomed[u] \ Referenced
            BY <2>2 DEF SpareReferenced, TypeOK
        <3>2. ASSUME NEW k \in doomed[s], k \notin Referenced, NEW j \in Job, status[j] # "completed"
              PROVE  ckey[j][k[2]] # k[1]
            <4>1. k \in Object /\ k[1] \in Token /\ k[2] \in Index
                BY DEF TypeOK, Object
            <4>2. CASE status[j] = "absent"
                BY <4>1, <4>2, NoneAssumption DEF OwnerInv
            <4>3. CASE status[j] # "absent"
                BY <3>2, <4>1, <4>3 DEF Referenced, KeysOf
            <4>4. QED
                BY <4>2, <4>3
        <3>3. QED
            BY <1>1, <3>1, <3>2 DEF SweepInv
    <2>3. CASE SpareActive(s)
        <3>1. \A u \in Sweeper : /\ u # s => spc'[u] = spc[u] /\ doomed'[u] = doomed[u]
                                 /\ u = s => spc[u] = "keyed" /\ doomed'[u] \subseteq doomed[u]
            BY <2>3 DEF SpareActive, TypeOK
        <3>2. QED
            BY <1>1, <3>1 DEF SweepInv
    <2>4. CASE Delete(s)
        <3>1. \A u \in Sweeper : spc'[u] = spc[u] /\ doomed'[u] \subseteq doomed[u]
            BY <2>4 DEF Delete, TypeOK
        <3>2. QED
            BY <1>1, <3>1 DEF SweepInv
    <2>5. CASE EndPage(s)
        <3>1. \A u \in Sweeper : /\ u # s => spc'[u] = spc[u] /\ doomed'[u] = doomed[u]
                                 /\ u = s => doomed'[u] = {}
            BY <2>5 DEF EndPage, TypeOK
        <3>2. QED
            BY <1>1, <3>1 DEF SweepInv
    <2>6. QED
        BY <2>1, <2>2, <2>3, <2>4, <2>5 DEF SweepStep
<1>8. QED
    BY <1>2, <1>4, <1>5, <1>6, <1>7

\* What no lease, and no variable but a lease, changes.
LEMMA LeaseKeepsInv ==
    ASSUME IInv, TypeOK',
           UNCHANGED <<status, owner, final, chunkVars, workVars, storeVars, sweepVars>>
    PROVE  IInv'
<1> USE DEF IInv, jobVars, chunkVars, workVars, storeVars, sweepVars, Done, Uploaded, Owns, LateOn
<1>1. OwnerInv' /\ WorkerInv' /\ KeyInv' /\ CheckpointInv'
    BY DEF OwnerInv, WorkerInv, KeyInv, CheckpointInv
<1>2. LateInv' /\ OwnedInv' /\ MergeInv' /\ SweepInv' /\ CompletedIsWhole'
    BY DEF LateInv, Open, OwnedInv, MergeInv, SweepInv, CompletedIsWhole
<1>3. QED
    BY <1>1, <1>2

\* One case for each action.
LEMMA InvStep == IInv /\ [Next]_vars => IInv'
<1> SUFFICES ASSUME IInv, [Next]_vars PROVE IInv'
    OBVIOUS
<1>0. TypeOK'
    BY TypeStep DEF IInv
<1>1. ASSUME NEW j \in Job, NEW t \in Token, Submit(j, t) \/ Retry(j, t) \/ Recover(j, t)
      PROVE  IInv'
    <2>1. PutInCharge(j, t)
        BY <1>1 DEF Submit, Retry, Recover, Claim, Claimable, PutInCharge, chunkVars, storeVars, sweepVars
    <2>2. QED
        BY <1>0, <2>1, PutInChargeKeepsInv
<1>2. ASSUME NEW t \in Token, WorkerStep(t) PROVE IInv'
    BY <1>0, <1>2, TaskStepKeepsInv, MainStepKeepsInv DEF WorkerStep
<1>3. ASSUME NEW t \in Token, Die(t) PROVE IInv'
    BY <1>0, <1>3, ExitKeepsInv DEF Die
<1>4. ASSUME NEW j \in Job, LeaseExpires(j) PROVE IInv'
    BY <1>0, <1>4, LeaseKeepsInv DEF LeaseExpires
<1>5. ASSUME NEW t \in Token, Heartbeat(t) PROVE IInv'
    BY <1>0, <1>5, LeaseKeepsInv DEF Heartbeat
<1>6. ASSUME NEW t \in Token, HeartbeatFails(t) PROVE IInv'
    <2>1. MainMove(t, "failing")
        BY <1>6 DEF HeartbeatFails, MainMove, jobVars, chunkVars, storeVars, sweepVars
    <2>2. QED
        BY <1>0, <2>1, MainMoveKeepsInv DEF WorkerPC
<1>7. ASSUME NEW s \in Sweeper, SweepStep(s) PROVE IInv'
    BY <1>0, <1>7, SweepStepKeepsInv
<1>8. CASE UNCHANGED vars
    BY <1>0, <1>8, LeaseKeepsInv DEF vars, jobVars
<1>9. CASE Next
    BY ONLY <1>9, <1>1, <1>2, <1>3, <1>4, <1>5, <1>6, <1>7 DEF Next
<1>10. QED
    BY <1>8, <1>9

-----------------------------------------------------------------------------
(***************************************************************************)
(* The theorems.                                                           *)
(***************************************************************************)

\* Every reachable state of the engine satisfies the inductive invariant.
THEOREM Invariance == Spec => []IInv
<1>1. Init => IInv
    BY InvInit
<1>2. IInv /\ [Next]_vars => IInv'
    BY InvStep
<1>3. QED
    BY <1>1, <1>2, PTL DEF Spec

\* The variables always have their types.
THEOREM TypeCorrect == Spec => []TypeOK
<1>1. IInv => TypeOK
    BY DEF IInv
<1>2. QED
    BY <1>1, Invariance, PTL

\* No sweep and no cleanup ever deletes the audio of a completed chunk of a job
\* that may still be retried or recovered (cleanup_orphans, _cleanup).
THEOREM CheckpointsAreKept == Spec => []CheckpointsKept
<1>1. IInv => CheckpointsKept
    BY DEF IInv, CheckpointInv, CheckpointsKept
<1>2. QED
    BY <1>1, Invariance, PTL

\* A job is completed only with a checkpoint of every chunk and a merged audio of
\* one of its own workers in the store (process_tts_job).
THEOREM CompletedJobsAreWhole == Spec => []CompletedIsWhole
<1>1. IInv => CompletedIsWhole
    BY DEF IInv
<1>2. QED
    BY <1>1, Invariance, PTL

\* The temporary audio the owner still has to merge is in the store, unless a late
\* write replaced it.
THEOREM OwnersCanMerge == Spec => []OwnerCanMerge
<1>1. IInv => OwnerCanMerge
    <2> SUFFICES ASSUME IInv, NEW t \in Token, NEW j \in Job, Owns(t, j), pc[t] = "fetching",
                        NEW i \in next[t] .. N
                 PROVE  \/ <<keys[t][i], i>> \in store
                        \/ ckey[j][i] # keys[t][i] /\ late[ckey[j][i]][i] > 0
        BY DEF OwnerCanMerge
    <2>1. i \in Index
        BY NAssumption DEF IInv, TypeOK, Index
    <2>2. keys[t][i] = ckey[j][i] \/ late[ckey[j][i]][i] > 0
        BY <2>1 DEF IInv, OwnedInv
    <2>3. CASE keys[t][i] = ckey[j][i]
        <3>1. ckey[j][i] # None /\ status[j] # "completed"
            BY <2>1, <2>3 DEF IInv, MergeInv, Owns
        <3>2. QED
            BY <2>1, <2>3, <3>1 DEF IInv, CheckpointInv
    <2>4. QED
        BY <2>2, <2>3
<1>2. QED
    BY <1>1, Invariance, PTL

\* A worker that has lost its job changes each of its chunks at most once more, by the
\* commit of a statement executed before: the fence of _chunk_update holds for the rest.
THEOREM TheFenceHolds == Spec => []FenceHolds
<1>1. IInv => FenceHolds
    BY DEF IInv, TypeOK, LateInv, FenceHolds
<1>2. QED
    BY <1>1, Invariance, PTL

-----------------------------------------------------------------------------
(***************************************************************************)
(* What a step may do to the rows of the database, whoever takes it.       *)
(***************************************************************************)
Issued == {t \in Token : pc[t] # "free"}

\* What the contract speaks of, but for the store.
Rows == <<status, owner, final, cstatus, ckey>>

\* The write of a chunk by the owner of its job, or a late one.
ChunkWrite(t, i) ==
    LET j == jobOf[t] IN
    /\ j \in Job /\ status[j] # "absent"
    /\ Owns(t, j) \/ late'[t][i] > late[t][i]
    /\ \/ /\ cstatus[j][i] = "completed" => late[ckey[j][i]][i] > 0 \/ late'[t][i] > late[t][i]
          /\ cstatus' = [cstatus EXCEPT ![j][i] = "processing"]
          /\ ckey' = ckey
       \/ /\ cstatus' = [cstatus EXCEPT ![j][i] = "failed"]
          /\ ckey' = ckey
       \/ /\ cstatus' = [cstatus EXCEPT ![j][i] = "completed"]
          /\ ckey' = [ckey EXCEPT ![j][i] = t]
    /\ UNCHANGED <<status, owner, final, Issued>>

\* The fenced write that settles a job.
Settle(t) ==
    LET j == jobOf[t] IN
    /\ j \in Job /\ Owns(t, j)
    /\ owner' = [owner EXCEPT ![j] = None]
    /\ \/ /\ status' = [status EXCEPT ![j] = "failed"]
          /\ final' = final
       \/ /\ \A i \in Index : ckey[j][i] # None
          /\ status' = [status EXCEPT ![j] = "completed"]
          /\ final' = [final EXCEPT ![j] = t]
    /\ UNCHANGED <<cstatus, ckey, Issued>>

\* The ways in which a step changes the rows.
RowStep ==
    \/ UNCHANGED <<Rows, Issued>>
    \/ \E j \in Job, t \in Token : PutInCharge(j, t)
    \/ \E t \in Token, i \in Index : ChunkWrite(t, i)
    \/ \E t \in Token : Settle(t)

\* The commit of a chunk, and its refusal.
LEMMA CommitIsRowStep ==
    ASSUME IInv, NEW t \in Token, NEW i \in Index, NEW c \in {"processing", "failed", "completed"},
           NEW r \in WriteResult, ChunkCommit(t, i, c, r), Open(t, i),
           c = "processing" => task[t][i] = "beginning",
           ckey' = IF c = "completed" /\ r # "refused" THEN [ckey EXCEPT ![jobOf[t]][i] = t] ELSE ckey,
           UNCHANGED <<status, owner, final, Issued>>
    PROVE  RowStep
<1> DEFINE j == jobOf[t]
<1>1. CASE r = "refused" /\ UNCHANGED <<cstatus, late>>
    BY <1>1 DEF RowStep, Rows
<1>2. CASE r # "refused" /\ Written(t, i, c)
    <2>1. j \in Job /\ status[j] # "absent"
        BY OpenWriter
    <2>2. Owns(t, j) \/ late'[t][i] > late[t][i]
        BY <1>2 DEF Written, IInv, TypeOK
    <2>3. c = "processing" /\ cstatus[j][i] = "completed"
              => late[ckey[j][i]][i] > 0 \/ late'[t][i] > late[t][i]
        BY <2>1, <2>2 DEF IInv, OwnedInv
    <2>4. ChunkWrite(t, i)
        BY <1>2, <2>1, <2>2, <2>3 DEF ChunkWrite, Written
    <2>5. QED
        BY <2>4 DEF RowStep
<1>3. QED
    BY <1>1, <1>2, ChunkCommitCases

\* A step of a task.
LEMMA TaskStepIsRowStep ==
    ASSUME IInv, NEW t \in Token, TaskStep(t)
    PROVE  RowStep
<1>1. PICK i \in Index :
          \/ StartChunk(t, i) \/ GenerateFails(t, i) \/ StoreChunk(t, i)
          \/ Checkpoint(t, i) \/ MarkFailed(t, i)
          \/ \E r \in WriteResult :
                \/ StartCommits(t, i, r)
                \/ CheckpointCommits(t, i, r)
                \/ MarkCommits(t, i, r)
    BY DEF TaskStep
<1>2. ASSUME NEW s, TaskMove(t, i, s), task[t][i] # "over" PROVE UNCHANGED Issued
    BY <1>2 DEF TaskMove, TaskGoes, TaskRaises, AfterRaise, Issued, IInv, TypeOK
<1>3. ASSUME StartChunk(t, i) \/ GenerateFails(t, i) \/ StoreChunk(t, i) \/ Checkpoint(t, i) \/ MarkFailed(t, i)
      PROVE  RowStep
    <2>1. UNCHANGED Rows
        BY <1>3 DEF StartChunk, GenerateFails, StoreChunk, Checkpoint, MarkFailed, Rows, jobVars, chunkVars
    <2>2. task[t][i] # "over" /\ \E s : TaskMove(t, i, s)
        BY <1>3 DEF StartChunk, GenerateFails, StoreChunk, Checkpoint, MarkFailed, TaskMove
    <2>3. QED
        BY <1>2, <2>1, <2>2 DEF RowStep
<1>4. ASSUME NEW r \in WriteResult, StartCommits(t, i, r) PROVE RowStep
    <2>1. task[t][i] = "beginning" /\ \E s : TaskMove(t, i, s)
        BY <1>4 DEF StartCommits, TaskMove
    <2>2. /\ ChunkCommit(t, i, "processing", r) /\ Open(t, i)
          /\ UNCHANGED <<status, owner, final, ckey, Issued>>
        BY <1>2, <1>4, <2>1 DEF StartCommits, Open, jobVars
    <2>3. QED
        BY <2>1, <2>2, CommitIsRowStep
<1>5. ASSUME NEW r \in WriteResult, CheckpointCommits(t, i, r) PROVE RowStep
    <2>1. task[t][i] = "saving" /\ \E s : TaskMove(t, i, s)
        BY <1>5 DEF CheckpointCommits, TaskMove
    <2>2. /\ ChunkCommit(t, i, "completed", r) /\ Open(t, i)
          /\ ckey' = IF r # "refused" THEN [ckey EXCEPT ![jobOf[t]][i] = t] ELSE ckey
          /\ UNCHANGED <<status, owner, final, Issued>>
        BY <1>2, <1>5, <2>1 DEF CheckpointCommits, Open, jobVars, Applied, WriteResult
    <2>3. QED
        BY <2>1, <2>2, CommitIsRowStep
<1>6. ASSUME NEW r \in WriteResult, MarkCommits(t, i, r) PROVE RowStep
    <2>1. task[t][i] = "marking" /\ \E s : TaskMove(t, i, s)
        BY <1>6 DEF MarkCommits, TaskMove
    <2>2. /\ ChunkCommit(t, i, "failed", r) /\ Open(t, i)
          /\ UNCHANGED <<status, owner, final, ckey, Issued>>
        BY <1>2, <1>6, <2>1 DEF MarkCommits, Open, jobVars
    <2>3. QED
        BY <2>1, <2>2, CommitIsRowStep
<1>7. QED
    BY <1>1, <1>3, <1>4, <1>5, <1>6

\* A step of the main coroutine.
LEMMA MainStepIsRowStep ==
    ASSUME IInv, NEW t \in Token, MainStep(t)
    PROVE  RowStep
<1>1. ASSUME Begin(t) \/ Plan(t) \/ Collect(t) \/ Fetch(t) \/ StoreFinal(t) \/ Abort(t)
             \/ FetchFails(t) \/ CleanUp(t) \/ CleanUpFails(t)
      PROVE  RowStep
    <2>1. UNCHANGED Rows
        BY <1>1 DEF Begin, Plan, Collect, Fetch, StoreFinal, Abort, FetchFails, CleanUp, CleanUpFails,
            Rows, jobVars, chunkVars
    <2>2. \E p \in WorkerPC \ {"free"} : pc[t] # "free" /\ pc' = [pc EXCEPT ![t] = p]
        BY <1>1 DEF Begin, Plan, Collect, Fetch, StoreFinal, Abort, FetchFails, CleanUp, CleanUpFails,
           WorkerPC, IInv, TypeOK
    <2>3. UNCHANGED Issued
        BY <2>2 DEF Issued, IInv, TypeOK
    <2>4. QED
        BY <2>1, <2>3 DEF RowStep
<1>2. CASE Stop(t)
    BY <1>2 DEF Stop, Exit, RowStep, Rows, Issued, jobVars, chunkVars, IInv, TypeOK
<1>3. ASSUME NEW r \in WriteResult, SpoilCommits(t, r) PROVE RowStep
    <2>1. UNCHANGED Issued /\ next[t] \in Index /\ Open(t, next[t])
        BY <1>3 DEF SpoilCommits, Issued, IInv, TypeOK, Open
    <2>2. ChunkCommit(t, next[t], "failed", r) /\ UNCHANGED <<status, owner, final, ckey>>
        BY <1>3 DEF SpoilCommits, jobVars
    <2>3. QED
        BY <2>1, <2>2, CommitIsRowStep
<1>4. ASSUME NEW r \in WriteResult, Complete(t, r) PROVE RowStep
    <2>1. UNCHANGED <<cstatus, ckey, Issued>> /\ jobOf[t] \in Job /\ pc[t] = "uploaded"
        BY <1>4 DEF Complete, Issued, IInv, TypeOK, WorkerInv, chunkVars
    <2>2. CASE /\ Owns(t, jobOf[t])
               /\ status' = [status EXCEPT ![jobOf[t]] = "completed"]
               /\ owner' = [owner EXCEPT ![jobOf[t]] = None]
               /\ final' = [final EXCEPT ![jobOf[t]] = t]
        <3>1. \A i \in Index : ckey[jobOf[t]][i] # None
            BY <2>1, <2>2 DEF IInv, MergeInv
        <3>2. Settle(t)
            BY <2>1, <2>2, <3>1 DEF Settle
        <3>3. QED
            BY <3>2 DEF RowStep
    <2>3. CASE UNCHANGED jobVars
        BY <2>1, <2>3 DEF RowStep, Rows, jobVars
    <2>4. QED
        BY <1>4, <2>2, <2>3 DEF Complete
<1>5. ASSUME NEW r \in WriteResult, FailJob(t, r) PROVE RowStep
    <2>1. UNCHANGED <<final, cstatus, ckey, Issued>> /\ jobOf[t] \in Job
        BY <1>5 DEF FailJob, Issued, IInv, TypeOK, WorkerInv, chunkVars
    <2>2. CASE /\ Owns(t, jobOf[t])
               /\ status' = [status EXCEPT ![jobOf[t]] = "failed"]
               /\ owner' = [owner EXCEPT ![jobOf[t]] = None]
        <3>1. Settle(t)
            BY <2>1, <2>2 DEF Settle
        <3>2. QED
            BY <3>1 DEF RowStep
    <2>3. CASE UNCHANGED <<status, owner>>
        BY <2>1, <2>3 DEF RowStep, Rows
    <2>4. QED
        BY <1>5, <2>2, <2>3 DEF FailJob
<1>6. QED
    BY <1>1, <1>2, <1>3, <1>4, <1>5 DEF MainStep

\* There are no others.
LEMMA StepIsRowStep == IInv /\ [Next]_vars => RowStep
<1> SUFFICES ASSUME IInv, [Next]_vars PROVE RowStep
    OBVIOUS
<1>1. ASSUME NEW j \in Job, NEW t \in Token, Submit(j, t) \/ Retry(j, t) \/ Recover(j, t)
      PROVE  RowStep
    <2>1. PutInCharge(j, t)
        BY <1>1 DEF Submit, Retry, Recover, Claim, Claimable, PutInCharge, chunkVars, storeVars, sweepVars
    <2>2. QED
        BY <2>1 DEF RowStep
<1>2. ASSUME NEW j \in Job, LeaseExpires(j) PROVE RowStep
    BY <1>2 DEF LeaseExpires, RowStep, Rows, Issued, chunkVars, workVars
<1>3. ASSUME NEW t \in Token, WorkerStep(t) PROVE RowStep
    BY <1>3, TaskStepIsRowStep, MainStepIsRowStep DEF WorkerStep
<1>4. ASSUME NEW t \in Token, Die(t) PROVE RowStep
    BY <1>4 DEF Die, Exit, RowStep, Rows, Issued, jobVars, chunkVars, IInv, TypeOK
<1>5. ASSUME NEW t \in Token, Heartbeat(t) PROVE RowStep
    BY <1>5 DEF Heartbeat, RowStep, Rows, Issued, chunkVars, workVars
<1>6. ASSUME NEW t \in Token, HeartbeatFails(t) PROVE RowStep
    BY <1>6 DEF HeartbeatFails, RowStep, Rows, Issued, jobVars, chunkVars, IInv, TypeOK
<1>7. ASSUME NEW s \in Sweeper, SweepStep(s) PROVE RowStep
    BY <1>7 DEF SweepStep, ListPage, SpareReferenced, SpareActive, Delete, EndPage, RowStep,
        Rows, Issued, jobVars, chunkVars, workVars
<1>8. CASE UNCHANGED vars
    BY <1>8 DEF vars, RowStep, Rows, Issued, jobVars, chunkVars, workVars
<1>9. CASE Next
    BY ONLY <1>9, <1>1, <1>2, <1>3, <1>4, <1>5, <1>6, <1>7 DEF Next
<1>10. QED
    BY <1>8, <1>9

\* Completed chunks are not generated again by a retry or a recovery, but for late
\* writes of superseded workers.
THEOREM CheckpointsAreNotRepeated == Spec => CheckpointsNotRepeated
<1>1. ASSUME IInv, RowStep, NEW j \in Job, NEW i \in Index,
             cstatus[j][i] = "completed", cstatus'[j][i] # "completed"
      PROVE  \/ cstatus'[j][i] = "failed" /\ status[j] = "processing"
             \/ late[ckey[j][i]][i] > 0
             \/ LateStep(j, i)
    <2>1. PICK t \in Token, y \in Index : ChunkWrite(t, y)
        BY <1>1 DEF RowStep, Rows, PutInCharge, Settle
    <2>2. PICK c \in {"processing", "failed", "completed"} :
              /\ cstatus' = [cstatus EXCEPT ![jobOf[t]][y] = c]
              /\ c = "processing" /\ cstatus[jobOf[t]][y] = "completed"
                     => late[ckey[jobOf[t]][y]][y] > 0 \/ late'[t][y] > late[t][y]
        BY <2>1 DEF ChunkWrite
    <2>3. j = jobOf[t] /\ i = y
        BY <1>1, <2>2 DEF IInv, TypeOK
    <2>4. cstatus'[j][i] = c
        BY <1>1, <2>2, <2>3 DEF IInv, TypeOK
    <2>5. status[j] = "processing" \/ LateStep(j, i)
        BY <2>1, <2>3 DEF ChunkWrite, Owns, LateStep
    <2>6. QED
        BY <1>1, <2>2, <2>3, <2>4, <2>5 DEF LateStep
<1>2. IInv /\ [Next]_vars =>
          [\A j \in Job, i \in Index :
              cstatus[j][i] = "completed" /\ cstatus'[j][i] # "completed"
                  => \/ cstatus'[j][i] = "failed" /\ status[j] = "processing"
                     \/ late[ckey[j][i]][i] > 0
                     \/ LateStep(j, i)]_vars
    BY <1>1, StepIsRowStep
<1>3. QED
    BY <1>2, Invariance, PTL DEF Spec, CheckpointsNotRepeated

\* A step leaves a completed job as it is, and its chunks but for a late write.
LEMMA CompletedStays ==
    ASSUME IInv, RowStep, NEW j \in Job, status[j] = "completed"
    PROVE  /\ status'[j] = "completed" /\ final'[j] = final[j]
           /\ \A i \in Index :
                 \/ cstatus'[j][i] = cstatus[j][i] /\ ckey'[j][i] = ckey[j][i]
                 \/ LateStep(j, i)
<1>1. CASE UNCHANGED <<Rows, Issued>>
    BY <1>1 DEF Rows
<1>2. ASSUME NEW x \in Job, NEW t \in Token, PutInCharge(x, t)
      PROVE  status'[j] = "completed" /\ UNCHANGED <<final, cstatus, ckey>>
    BY <1>2 DEF PutInCharge, IInv, TypeOK
<1>3. ASSUME NEW t \in Token, NEW y \in Index, ChunkWrite(t, y), NEW i \in Index
      PROVE  /\ UNCHANGED <<status, final>>
             /\ \/ cstatus'[j][i] = cstatus[j][i] /\ ckey'[j][i] = ckey[j][i]
                \/ LateStep(j, i)
    <2>1. UNCHANGED <<status, final>>
        BY <1>3 DEF ChunkWrite
    <2>2. CASE j = jobOf[t] /\ i = y
        BY <1>3, <2>1, <2>2 DEF ChunkWrite, Owns, LateStep
    <2>3. CASE ~(j = jobOf[t] /\ i = y)
        BY <1>3, <2>1, <2>3 DEF ChunkWrite, IInv, TypeOK
    <2>4. QED
        BY <2>2, <2>3
<1>4. ASSUME NEW t \in Token, Settle(t)
      PROVE  status'[j] = status[j] /\ final'[j] = final[j] /\ UNCHANGED <<cstatus, ckey>>
    <2>1. jobOf[t] # j
        BY <1>4 DEF Settle, Owns
    <2>2. QED
        BY <1>4, <2>1 DEF Settle, IInv, TypeOK
<1>5. ASSUME NEW t \in Token, NEW y \in Index, ChunkWrite(t, y)
      PROVE  UNCHANGED <<status, final>>
    BY <1>5 DEF ChunkWrite
<1>6. QED
    BY <1>1, <1>2, <1>3, <1>4, <1>5 DEF RowStep

\* Nothing changes a completed job, and only late writes its chunks (the fences and
\* claim_retry's WHERE clause).
THEOREM CompletedJobsAreFinal == Spec => CompletedIsFinal
<1>1. IInv /\ [Next]_vars =>
          [\A j \in Job : status[j] = "completed" =>
              /\ status'[j] = "completed" /\ final'[j] = final[j]
              /\ \A i \in Index :
                    \/ cstatus'[j][i] = cstatus[j][i] /\ ckey'[j][i] = ckey[j][i]
                    \/ LateStep(j, i)]_vars
    BY CompletedStays, StepIsRowStep
<1>2. QED
    BY <1>1, Invariance, PTL DEF Spec, CompletedIsFinal

(***************************************************************************)
(* The engine implements its contract.                                     *)
(***************************************************************************)
LEMMA ContractInit == Init => Contract!Init
BY DEF Init, Contract!Init, SavedChunks

\* Each of them is a step of the contract, or none.
LEMMA ContractStep == IInv /\ RowStep => [Contract!Next]_Contract!vars
<1> SUFFICES ASSUME IInv, RowStep PROVE [Contract!Next]_Contract!vars
    OBVIOUS
<1>1. CASE UNCHANGED <<Rows, Issued>>
    BY <1>1 DEF Rows, Issued, Contract!vars, SavedChunks
<1>2. ASSUME NEW j \in Job, NEW t \in Token, PutInCharge(j, t) PROVE Contract!Next
    <2>1. Contract!PutInCharge(j, t)
        BY <1>2 DEF PutInCharge, Contract!PutInCharge, SavedChunks, IInv, TypeOK
    <2>2. QED
        BY <2>1 DEF Contract!Next
<1>3. ASSUME NEW t \in Token, NEW i \in Index, ChunkWrite(t, i)
      PROVE  [Contract!Next]_Contract!vars
    <2> DEFINE j == jobOf[t]
    <2>1. j \in Job /\ status[j] # "absent" /\ UNCHANGED <<status, owner, final, Issued>>
        BY <1>3 DEF ChunkWrite
    <2>2. CASE ckey' = ckey
        BY <2>1, <2>2 DEF Issued, Contract!vars, SavedChunks
    <2>3. CASE ckey' = [ckey EXCEPT ![j][i] = t]
        <3>1. SavedChunks' = [SavedChunks EXCEPT ![j] = @ \cup {i}]
            <4>1. \A x \in Job, y \in Index :
                      ckey'[x][y] = IF x = j /\ y = i THEN t ELSE ckey[x][y]
                BY <2>1, <2>3 DEF IInv, TypeOK
            <4>2. \A x \in Job : SavedChunks'[x] =
                      IF x = j THEN SavedChunks[x] \cup {i} ELSE SavedChunks[x]
                BY <4>1, NoneAssumption DEF SavedChunks
            <4>3. QED
                BY <2>1, <4>2 DEF SavedChunks
        <3>2. Contract!Save(j, i)
            BY <2>1, <3>1 DEF Contract!Save, Issued
        <3>3. QED
            BY <2>1, <3>2 DEF Contract!Next
    <2>4. QED
        BY <1>3, <2>2, <2>3 DEF ChunkWrite
<1>4. ASSUME NEW t \in Token, Settle(t) PROVE Contract!Next
    <2> DEFINE j == jobOf[t]
    <2>1. Contract!Processing(j) /\ j \in Job /\ owner[j] = t
        BY <1>4 DEF Settle, Owns, Contract!Processing, IInv, OwnerInv
    <2>2. UNCHANGED <<SavedChunks, Issued>>
        BY <1>4 DEF Settle, SavedChunks
    <2>3. CASE status' = [status EXCEPT ![j] = "failed"] /\ final' = final
        <3>1. Contract!Fail(j)
            BY <1>4, <2>1, <2>2, <2>3 DEF Contract!Fail, Settle, Issued
        <3>2. QED
            BY <2>1, <3>1 DEF Contract!Next
    <2>4. CASE /\ \A i \in Index : ckey[j][i] # None
               /\ status' = [status EXCEPT ![j] = "completed"]
               /\ final' = [final EXCEPT ![j] = t]
        <3>1. SavedChunks[j] = Index
            BY <2>1, <2>4 DEF SavedChunks
        <3>2. Contract!Complete(j)
            BY <1>4, <2>1, <2>2, <2>4, <3>1 DEF Contract!Complete, Settle, Issued
        <3>3. QED
            BY <2>1, <3>2 DEF Contract!Next
    <2>5. QED
        BY <1>4, <2>3, <2>4 DEF Settle
<1>5. QED
    BY <1>1, <1>2, <1>3, <1>4 DEF RowStep

\* Every behaviour of the engine is a behaviour of TTSJobContract.
THEOREM Refinement == Spec => ImplementsContract
<1>1. Init => Contract!Init
    BY ContractInit
<1>2. IInv /\ [Next]_vars => [Contract!Next]_Contract!vars
    BY StepIsRowStep, ContractStep
<1>3. QED
    BY <1>1, <1>2, Invariance, PTL DEF Spec, ImplementsContract, Contract!Spec

-----------------------------------------------------------------------------
(***************************************************************************)
(* TTSStream: what a reader finds of a chunk that it saw completed.        *)
(***************************************************************************)

\* What a step of the engine does to what readers refer to: nobody uploads or
\* commits for a worker that is done, and a deletion takes only the audio of
\* completed jobs or of none.
ReadersKeep ==
    /\ finals \subseteq finals'
    /\ \A c \in Token, i \in Index :
          /\ Done(c, i) => Done(c, i)' /\ (<<c, i>> \in store' => <<c, i>> \in store)
          /\ <<c, i>> \in store /\ <<c, i>> \notin store' =>
                \A j \in Job : ckey[j][i] = c => status[j] = "completed"
    /\ \A j \in Job, i \in Index : ckey'[j][i] # ckey[j][i] =>
          \E c \in Token : ckey'[j][i] = c /\ ~Done(c, i) /\ <<c, i>> \in store'

\* A step that only moves a worker or its tasks.
LEMMA MovesKeep ==
    ASSUME UNCHANGED <<finals, store, ckey>>,
           \A c \in Token, i \in Index : Done(c, i) => Done(c, i)'
    PROVE  ReadersKeep
BY DEF ReadersKeep

\* The steps of a task.
LEMMA TaskKeeps ==
    ASSUME IInv, NEW t \in Token, NEW i \in Index, NEW s \in TaskState, TaskMove(t, i, s),
           s \in {"erring", "marking", "over"} \/ task[t][i] \notin {"erring", "marking"}, task[t][i] # "over"
    PROVE  \A c \in Token, k \in Index : Done(c, k) => Done(c, k)'
<1>1. pc[t] \in LivePC
    BY DEF IInv, WorkerInv, LivePC
<1>2. PICK p \in LivePC, z \in {s, "over"} : pc' = [pc EXCEPT ![t] = p] /\ task' = [task EXCEPT ![t][i] = z]
    <2>1. CASE TaskGoes(t, i, s)
        <3>1. pc' = [pc EXCEPT ![t] = pc[t]]
            BY <2>1 DEF TaskGoes, IInv, TypeOK
        <3>2. QED
            BY <1>1, <2>1, <3>1 DEF TaskGoes
    <2>2. CASE TaskRaises(t, i)
        <3>1. AfterRaise(pc[t]) \in LivePC
            BY <1>1 DEF AfterRaise, LivePC
        <3>2. QED
            BY <2>2, <3>1 DEF TaskRaises
    <2>3. QED
        BY <2>1, <2>2 DEF TaskMove
<1>3. ASSUME NEW c \in Token, NEW k \in Index, Done(c, k) PROVE Done(c, k)'
    <2>1. pc'[c] \notin {"free", "claimed", "starting"}
        BY <1>2, <1>3 DEF Done, Uploaded, LivePC, IInv, TypeOK
    <2>2. task'[c][k] \in {task[c][k], "erring", "marking", "over"}
        <3>1. CASE c = t /\ k = i
            BY <1>2, <1>3, <3>1 DEF Done, Uploaded, IInv, TypeOK, TaskState
        <3>2. CASE ~(c = t /\ k = i)
            BY <1>2, <3>2 DEF IInv, TypeOK
        <3>3. QED
            BY <3>1, <3>2
    <2>3. QED
        BY <1>3, <2>1, <2>2 DEF Done, Uploaded
<1>4. QED
    BY <1>3

\* A worker that moves on, its tasks left as they are or cancelled.
LEMMA WorkerKeeps ==
    ASSUME IInv, NEW t \in Token, NEW p \in WorkerPC, pc' = [pc EXCEPT ![t] = p],
           pc[t] \notin {"free", "claimed", "starting"} => p \notin {"free", "claimed", "starting"},
           task' = task \/ task' = [task EXCEPT ![t] = NoTasks]
    PROVE  \A c \in Token, k \in Index : Done(c, k) => Done(c, k)'
BY DEF Done, Uploaded, NoTasks, IInv, TypeOK

\* Every step of the engine, whoever takes it.
LEMMA StepKeeps == IInv /\ [Next]_vars => ReadersKeep
<1> SUFFICES ASSUME IInv, [Next]_vars PROVE ReadersKeep
    OBVIOUS
<1>0. TypeOK /\ WorkerInv /\ KeyInv
    BY DEF IInv
<1>1. ASSUME NEW j \in Job, NEW t \in Token, Submit(j, t) \/ Retry(j, t) \/ Recover(j, t)
      PROVE  ReadersKeep
    <2>1. PutInCharge(j, t)
        BY <1>1 DEF Submit, Retry, Recover, Claim, Claimable, PutInCharge, chunkVars, storeVars, sweepVars
    <2>2. \A c \in Token, k \in Index : Done(c, k) => Done(c, k)'
        BY <1>0, <2>1 DEF PutInCharge, Done, Uploaded, TypeOK
    <2>3. QED
        BY <2>1, <2>2, MovesKeep DEF PutInCharge
<1>2. ASSUME NEW j \in Job, LeaseExpires(j) PROVE ReadersKeep
    BY <1>2, MovesKeep DEF LeaseExpires, Done, Uploaded, chunkVars, workVars, storeVars
<1>3. ASSUME NEW t \in Token, NEW i \in Index,
             StartChunk(t, i) \/ GenerateFails(t, i) \/ Checkpoint(t, i) \/ MarkFailed(t, i)
      PROVE  ReadersKeep
    <2>1. \E s \in TaskState : /\ TaskMove(t, i, s) /\ task[t][i] # "over"
                               /\ s \in {"erring", "marking", "over"} \/ task[t][i] \notin {"erring", "marking"}
        BY <1>3 DEF StartChunk, GenerateFails, Checkpoint, MarkFailed, TaskMove, TaskState
    <2>2. \A c \in Token, k \in Index : Done(c, k) => Done(c, k)'
        BY <2>1, TaskKeeps
    <2>3. UNCHANGED <<finals, store, ckey>>
        BY <1>3 DEF StartChunk, GenerateFails, Checkpoint, MarkFailed, chunkVars, storeVars
    <2>4. QED
        BY <2>2, <2>3, MovesKeep
<1>4. ASSUME NEW t \in Token, NEW i \in Index, StoreChunk(t, i) PROVE ReadersKeep
    <2>1. PICK s \in {"stored", "erring"} : TaskMove(t, i, s) /\ task[t][i] = "generating"
        BY <1>4 DEF StoreChunk, TaskMove
    <2>2. \A c \in Token, k \in Index : Done(c, k) => Done(c, k)'
        BY <2>1, TaskKeeps DEF TaskState
    <2>3. store' = store \cup {<<t, i>>} /\ UNCHANGED <<ckey, finals>>
        BY <1>4 DEF StoreChunk, chunkVars
    <2>4. ~Done(t, i)
        BY <2>1 DEF Done, Uploaded
    <2>5. QED
        BY <2>2, <2>3, <2>4 DEF ReadersKeep
<1>5. ASSUME NEW t \in Token, NEW i \in Index, NEW r \in WriteResult,
             StartCommits(t, i, r) \/ MarkCommits(t, i, r)
      PROVE  ReadersKeep
    <2>1. \E s \in TaskState : /\ TaskMove(t, i, s) /\ task[t][i] # "over"
                               /\ s \in {"erring", "marking", "over"} \/ task[t][i] \notin {"erring", "marking"}
        BY <1>5 DEF StartCommits, MarkCommits, TaskMove, TaskState
    <2>2. \A c \in Token, k \in Index : Done(c, k) => Done(c, k)'
        BY <2>1, TaskKeeps
    <2>3. UNCHANGED <<finals, store, ckey>>
        BY <1>5 DEF StartCommits, MarkCommits, storeVars
    <2>4. QED
        BY <2>2, <2>3, MovesKeep
<1>7. ASSUME NEW t \in Token, NEW i \in Index, NEW r \in WriteResult, CheckpointCommits(t, i, r)
      PROVE  ReadersKeep
    <2>1. PICK s \in {"over", "erring"} : TaskMove(t, i, s) /\ task[t][i] = "saving"
        BY <1>7 DEF CheckpointCommits, TaskMove
    <2>2. \A c \in Token, k \in Index : Done(c, k) => Done(c, k)'
        BY <2>1, TaskKeeps DEF TaskState
    <2>3. UNCHANGED <<store, finals>> /\ <<t, i>> \in store /\ ~Done(t, i)
        BY <1>0, <1>7, <2>1 DEF CheckpointCommits, storeVars, WorkerInv, Done
    <2>4. PICK j \in Job : ckey' = ckey \/ ckey' = [ckey EXCEPT ![j][i] = t]
        BY <1>0, <1>7 DEF CheckpointCommits, WorkerInv
    <2>5. ASSUME NEW x \in Job, NEW y \in Index, ckey'[x][y] # ckey[x][y] PROVE ckey'[x][y] = t /\ y = i
        <3>1. ckey \in [Job -> [Index -> TokenOrNone]] /\ ckey' = [ckey EXCEPT ![j][i] = t]
            BY <1>0, <2>4, <2>5 DEF TypeOK
        <3>2. x = j /\ y = i
            BY <2>5, <3>1
        <3>3. QED
            BY <3>1, <3>2
    <2>6. QED
        BY <2>2, <2>3, <2>5 DEF ReadersKeep
<1>8. ASSUME NEW t \in Token, TaskStep(t) PROVE ReadersKeep
    BY ONLY <1>3, <1>4, <1>5, <1>7, <1>8 DEF TaskStep
<1>9. ASSUME NEW t \in Token, Begin(t) \/ Collect(t) \/ Fetch(t) \/ FetchFails(t) \/ Abort(t)
                                 \/ CleanUpFails(t)
      PROVE  ReadersKeep
    <2>1. /\ UNCHANGED <<finals, store, ckey, task>>
          /\ \E p \in WorkerPC : pc' = [pc EXCEPT ![t] = p]
                /\ (pc[t] \notin {"free", "claimed", "starting"} => p \notin {"free", "claimed", "starting"})
        BY <1>0, <1>9 DEF Begin, Collect, Fetch, FetchFails, Abort, CleanUpFails, chunkVars, storeVars, WorkerPC
    <2>2. QED
        BY <2>1, WorkerKeeps, MovesKeep
<1>10. ASSUME NEW t \in Token, Plan(t) PROVE ReadersKeep
    <2>1. \A c \in Token, k \in Index : Done(c, k) => Done(c, k)'
        BY <1>0, <1>10 DEF Plan, Done, Uploaded, TypeOK
    <2>2. QED
        BY <1>10, <2>1, MovesKeep DEF Plan, chunkVars, storeVars
<1>11. ASSUME NEW t \in Token, StoreFinal(t) PROVE ReadersKeep
    <2>1. pc' = [pc EXCEPT ![t] = "uploaded"] /\ task' = task
        BY <1>11 DEF StoreFinal
    <2>2. \A c \in Token, k \in Index : Done(c, k) => Done(c, k)'
        BY <2>1, WorkerKeeps DEF WorkerPC
    <2>3. finals \subseteq finals' /\ UNCHANGED <<store, ckey>>
        BY <1>11 DEF StoreFinal, chunkVars
    <2>4. QED
        BY <2>2, <2>3 DEF ReadersKeep
<1>12. ASSUME NEW t \in Token, CleanUp(t) PROVE ReadersKeep
    <2>1. PICK p \in WorkerPC : pc' = [pc EXCEPT ![t] = p] /\ p \notin {"free", "claimed", "starting"}
        BY <1>0, <1>12 DEF CleanUp, TypeOK, WorkerPC
    <2>2. \A c \in Token, k \in Index : Done(c, k) => Done(c, k)'
        BY <1>12, <2>1, WorkerKeeps DEF CleanUp
    <2>3. PICK n \in Index : n = next[t] /\ store' = store \ {<<keys[t][n], n>>}
        BY <1>0, <1>12 DEF CleanUp, TypeOK
    <2>4. jobOf[t] \in Job /\ status[jobOf[t]] = "completed"
        BY <1>0, <1>12, <2>3 DEF CleanUp, WorkerInv, IInv, MergeInv
    <2>5. jobOf[keys[t][n]] = jobOf[t]
        BY <1>12, <2>3 DEF CleanUp, IInv, MergeInv
    <2>6. ASSUME NEW c \in Token, NEW i \in Index, <<c, i>> \in store, <<c, i>> \notin store',
                 NEW j \in Job, ckey[j][i] = c
          PROVE  status[j] = "completed"
        <3>1. c = keys[t][n] /\ i = n
            BY <2>3, <2>6
        <3>2. jobOf[c] = j
            BY <1>0, <2>6, NoneAssumption DEF KeyInv
        <3>3. QED
            BY <2>4, <2>5, <3>1, <3>2
    <2>7. UNCHANGED <<ckey, finals>> /\ store' \subseteq store
        BY <1>12, <2>3 DEF CleanUp, chunkVars
    <2>8. QED
        BY <2>2, <2>6, <2>7 DEF ReadersKeep
<1>13. ASSUME NEW t \in Token, Exit(t) PROVE ReadersKeep
    <2>1. pc' = [pc EXCEPT ![t] = "gone"] /\ task' = [task EXCEPT ![t] = NoTasks]
        BY <1>13 DEF Exit
    <2>2. \A c \in Token, k \in Index : Done(c, k) => Done(c, k)'
        BY <2>1, WorkerKeeps DEF WorkerPC
    <2>3. QED
        BY <1>13, <2>2, MovesKeep DEF Exit, chunkVars, storeVars
<1>14. ASSUME NEW t \in Token, NEW r \in WriteResult, SpoilCommits(t, r) \/ Complete(t, r) \/ FailJob(t, r)
       PROVE  ReadersKeep
    <2>1. /\ UNCHANGED <<finals, store, ckey, task>>
          /\ \E p \in {"failing", "cleaning", "stopping"} : pc' = [pc EXCEPT ![t] = p]
        BY <1>14 DEF SpoilCommits, Complete, FailJob, chunkVars, storeVars
    <2>2. \A c \in Token, k \in Index : Done(c, k) => Done(c, k)'
        BY <2>1, WorkerKeeps DEF WorkerPC
    <2>3. QED
        BY <2>1, <2>2, MovesKeep
<1>15. ASSUME NEW t \in Token, MainStep(t) PROVE ReadersKeep
    BY ONLY <1>9, <1>10, <1>11, <1>12, <1>13, <1>14, <1>15 DEF MainStep, Stop
<1>16. ASSUME NEW t \in Token, Heartbeat(t) PROVE ReadersKeep
    BY <1>16, MovesKeep DEF Heartbeat, Done, Uploaded, chunkVars, workVars, storeVars
<1>17. ASSUME NEW t \in Token, HeartbeatFails(t) PROVE ReadersKeep
    <2>1. PICK p \in WorkerPC : /\ pc' = [pc EXCEPT ![t] = p]
                                /\ pc[t] \notin {"free", "claimed", "starting"} => p \notin {"free", "claimed", "starting"}
        BY <1>0, <1>17 DEF HeartbeatFails, AfterRaise, TypeOK, WorkerPC
    <2>2. \A c \in Token, k \in Index : Done(c, k) => Done(c, k)'
        BY <1>17, <2>1, WorkerKeeps DEF HeartbeatFails
    <2>3. QED
        BY <1>17, <2>2, MovesKeep DEF HeartbeatFails, chunkVars, storeVars
<1>18. ASSUME NEW s \in Sweeper, SweepStep(s) PROVE ReadersKeep
    <2>1. CASE Delete(s)
        <3>1. PICK k \in doomed[s] : store' = store \ {k}
            BY <2>1 DEF Delete
        <3>2. UNCHANGED <<ckey, finals, pc, task>> /\ spc[s] = "deleting" /\ doomed[s] \subseteq Object
            BY <1>0, <2>1 DEF Delete, chunkVars, workVars, TypeOK
        <3>3. \A j \in Job : status[j] # "completed" => ckey[j][k[2]] # k[1]
            BY <3>1, <3>2 DEF IInv, SweepInv
        <3>4. QED
            BY <3>1, <3>2, <3>3 DEF ReadersKeep, Done, Uploaded
    <2>2. CASE ListPage(s) \/ SpareReferenced(s) \/ SpareActive(s) \/ EndPage(s)
        BY <2>2, MovesKeep DEF ListPage, SpareReferenced, SpareActive, EndPage, Done, Uploaded,
            chunkVars, workVars, storeVars
    <2>3. QED
        BY <1>18, <2>1, <2>2 DEF SweepStep
<1>19. CASE UNCHANGED vars
    BY <1>19, MovesKeep DEF vars, Done, Uploaded, chunkVars, workVars, storeVars
<1>20. QED
    BY ONLY [Next]_vars, <1>1, <1>2, <1>8, <1>13, <1>15, <1>16, <1>17, <1>18, <1>19 DEF Next, WorkerStep, Die

\* A chunk that was written late was.
LEMMA LateStays ==
    ASSUME IInv, [Next]_vars, NEW j \in Job, NEW i \in Index, LateOn(j, i)
    PROVE  LateOn(j, i)'
<1>1. PICK c \in Token : jobOf[c] = j /\ late[c][i] > 0
    BY DEF LateOn
<1>2. pc[c] # "free" /\ late[c][i] \in Nat
    BY <1>1 DEF IInv, LateInv, TypeOK
<1>3. ASSUME NEW t \in Token, NEW k, NEW s, NEW r, ChunkCommit(t, k, s, r) PROVE late'[c][i] > 0
    BY <1>1, <1>2, <1>3 DEF ChunkCommit, IInv, TypeOK
<1>4. CASE UNCHANGED <<jobOf, late>>
    BY <1>1, <1>4 DEF LateOn
<1>5. ASSUME NEW x \in Job, NEW t \in Token, Submit(x, t) \/ Retry(x, t) \/ Recover(x, t)
      PROVE  LateOn(j, i)'
    BY <1>1, <1>2, <1>5 DEF Submit, Retry, Recover, Claim, chunkVars, LateOn, IInv, TypeOK
<1>6. ASSUME NEW t \in Token, TaskStep(t) PROVE LateOn(j, i)'
    <2>1. UNCHANGED jobOf
        BY <1>6 DEF TaskStep, StartChunk, GenerateFails, StoreChunk, Checkpoint, MarkFailed, StartCommits,
           CheckpointCommits, MarkCommits, TaskGoes, TaskRaises
    <2>2. UNCHANGED late \/ \E k \in Index, r \in WriteResult : \E s : ChunkCommit(t, k, s, r)
        BY <1>6 DEF TaskStep, StartChunk, GenerateFails, StoreChunk, Checkpoint, MarkFailed, StartCommits,
           CheckpointCommits, MarkCommits, chunkVars
    <2>3. QED
        BY <1>1, <1>3, <1>4, <2>1, <2>2 DEF LateOn
<1>7. ASSUME NEW t \in Token, MainStep(t) PROVE LateOn(j, i)'
    <2>1. ASSUME NEW r \in WriteResult, SpoilCommits(t, r) PROVE LateOn(j, i)'
        BY <1>1, <1>3, <2>1 DEF SpoilCommits, LateOn
    <2>2. ASSUME ~\E r \in WriteResult : SpoilCommits(t, r) PROVE UNCHANGED <<jobOf, late>>
        BY <1>7, <2>2 DEF MainStep, Begin, Plan, Collect, Fetch, StoreFinal, Abort, FetchFails, CleanUp,
           CleanUpFails, Stop, Exit, Complete, FailJob, chunkVars
    <2>3. QED
        BY <1>4, <2>1, <2>2
<1>8. ASSUME NEW t \in Token, Die(t) \/ Heartbeat(t) \/ HeartbeatFails(t) PROVE LateOn(j, i)'
    BY <1>4, <1>8 DEF Die, Exit, Heartbeat, HeartbeatFails, chunkVars, workVars
<1>9. ASSUME NEW s \in Sweeper, SweepStep(s) PROVE LateOn(j, i)'
    BY <1>4, <1>9 DEF SweepStep, ListPage, SpareReferenced, SpareActive, Delete, EndPage, chunkVars, workVars
<1>10. ASSUME NEW x \in Job, LeaseExpires(x) PROVE LateOn(j, i)'
    BY <1>4, <1>10 DEF LeaseExpires, chunkVars, workVars
<1>11. CASE UNCHANGED vars
    BY <1>4, <1>11 DEF vars, chunkVars, workVars
<1>12. QED
    BY ONLY [Next]_vars, <1>5, <1>6, <1>7, <1>8, <1>9, <1>10, <1>11 DEF Next, WorkerStep

(***************************************************************************)
(* The readers.                                                            *)
(***************************************************************************)
Snapshot == [status : JobStatus, lease : {"none", "live", "expired"}, final : TokenOrNone,
             cstatus : [Index -> ChunkStatus], ckey : [Index -> TokenOrNone]]

\* The types of the variables of the readers.
ReadTypeOK ==
    /\ rpc \in [Reader -> {"off", "polling", "rows", "emitting", "lost", "lostRows", "error",
                          "completed", "failed", "stopped"}]
    /\ rjob \in [Reader -> Job \cup {None}]
    /\ index \in [Reader -> 1 .. N + 1]
    /\ seen \in [Reader -> Snapshot]

\* What reader r at p, which listens to job j, is at chunk i and has snapshot s, may rely
\* on: a chunk that it saw completed was committed for good by a worker that is done
\* with it, a job that it saw completed is so, and when the audio of its chunk is gone,
\* it is gone; if the job is not completed then, another worker has written the chunk.
ReaderOK(r, p, j, i, s) ==
    /\ p # "off" => j \in Job
    /\ p = "off" => s.status # "completed"
    /\ \A k \in Index : s.cstatus[k] = "completed" => s.ckey[k] \in Token /\ Done(s.ckey[k], k)
    /\ s.status = "completed" => status[j] = "completed" /\ s.final = final[j]
    /\ p = "emitting" /\ s.status = "completed" =>
          \A k \in Index : s.cstatus[k] = "completed" \/ LateOn(j, k)
    /\ p = "completed" => i = N + 1 \/ LateOn(j, i)
    /\ p \in {"lost", "lostRows", "error"} => i \in Index /\ s.cstatus[i] = "completed"
    /\ p \in {"lost", "lostRows"} /\ r \notin outage => <<s.ckey[i], i>> \notin store
    /\ p = "lostRows" /\ s.status # "completed" => r \in outage \/ ckey[j][i] # s.ckey[i]
    /\ p = "error" => r \in outage \/ ckey[j][i] # s.ckey[i]

\* The inductive invariant of the streams: that of the engine, and what each reader has.
StreamInv ==
    /\ IInv
    /\ ReadTypeOK
    /\ \A r \in Reader : ReaderOK(r, rpc[r], rjob[r], index[r], seen[r])

\* Nobody reads yet.
LEMMA StreamInvInit == StreamInit => StreamInv
<1> SUFFICES ASSUME StreamInit PROVE StreamInv
    OBVIOUS
<1>1. IInv
    BY InvInit DEF StreamInit
<1>3. NoSnapshot \in Snapshot /\ NoSnapshot.status = "absent" /\ \A k \in Index : NoSnapshot.cstatus[k] = "pending"
    BY DEF NoSnapshot, Snapshot, JobStatus, ChunkStatus, TokenOrNone
<1>4. ReadTypeOK
    BY <1>3, NAssumption DEF StreamInit, ReadInit, ReadTypeOK
<1>5. ASSUME NEW r \in Reader PROVE ReaderOK(r, rpc[r], rjob[r], index[r], seen[r])
    BY <1>3 DEF StreamInit, ReadInit, ReaderOK
<1>6. QED
    BY <1>1, <1>4, <1>5 DEF StreamInv

\* A step of the engine takes nothing from a reader that it relies on.
LEMMA EngineStepReader ==
    ASSUME StreamInv, [Next]_vars, UNCHANGED outage, NEW r, NEW p, NEW j \in Job \cup {None},
           NEW i \in 1 .. N + 1, NEW s \in Snapshot, ReaderOK(r, p, j, i, s)
    PROVE  ReaderOK(r, p, j, i, s)'
<1>1. ReadersKeep
    BY StepKeeps DEF StreamInv
<1>2. ASSUME s.status = "completed" PROVE status'[j] = "completed" /\ s.final = final'[j]
    <2>1. j \in Job /\ status[j] = "completed" /\ s.final = final[j]
        BY <1>2 DEF ReaderOK
    <2>2. QED
        BY <2>1, StepIsRowStep, CompletedStays DEF StreamInv
<1>3. ASSUME NEW k \in Index, s.cstatus[k] = "completed"
      PROVE  /\ s.ckey[k] \in Token /\ Done(s.ckey[k], k)'
             /\ <<s.ckey[k], k>> \notin store => <<s.ckey[k], k>> \notin store'
             /\ j \in Job /\ ckey[j][k] # s.ckey[k] => ckey'[j][k] # s.ckey[k]
    <2>1. PICK c \in Token : c = s.ckey[k] /\ Done(c, k)
        BY <1>3 DEF ReaderOK
    <2>2. Done(c, k)' /\ (<<c, k>> \notin store => <<c, k>> \notin store')
        BY <1>1, <2>1 DEF ReadersKeep
    <2>3. j \in Job /\ ckey[j][k] # c => ckey'[j][k] # c
        BY <1>1, <2>1 DEF ReadersKeep
    <2>4. QED
        BY <2>1, <2>2, <2>3 DEF Done, Uploaded
<1>4. ASSUME NEW k \in Index, j \in Job, LateOn(j, k) PROVE LateOn(j, k)'
    BY <1>4, LateStays DEF StreamInv
<1>5. p = "completed" => i = N + 1 \/ LateOn(j, i)'
    <2>1. i = N + 1 \/ i \in Index
        BY NAssumption DEF Index
    <2>2. QED
        BY <1>4, <2>1 DEF ReaderOK
<1>6. QED
    BY <1>2, <1>3, <1>4, <1>5 DEF ReaderOK

\* A step of the engine, for all readers.
LEMMA EngineStepStream ==
    ASSUME StreamInv, [Next]_vars, UNCHANGED readVars
    PROVE  StreamInv'
<1>1. IInv' /\ ReadTypeOK'
    BY InvStep DEF StreamInv, readVars, ReadTypeOK
<1>2. ASSUME NEW r \in Reader PROVE ReaderOK(r, rpc[r], rjob[r], index[r], seen[r])'
    <2>1. PICK p : p = rpc[r]
        OBVIOUS
    <2>2. PICK j \in Job \cup {None} : j = rjob[r]
        BY DEF StreamInv, ReadTypeOK
    <2>3. PICK i \in 1 .. N + 1 : i = index[r]
        BY DEF StreamInv, ReadTypeOK
    <2>4. PICK s \in Snapshot : s = seen[r]
        BY DEF StreamInv, ReadTypeOK
    <2>5. ReaderOK(r, p, j, i, s)'
        BY <2>1, <2>2, <2>3, <2>4, EngineStepReader DEF StreamInv, readVars
    <2>6. p = rpc'[r] /\ j = rjob'[r] /\ i = index'[r] /\ s = seen'[r]
        BY <2>1, <2>2, <2>3, <2>4 DEF readVars
    <2>7. QED
        BY <2>5, <2>6 DEF ReaderOK
<1>3. QED
    BY <1>1, <1>2 DEF StreamInv

\* Reader r alone moves, to p with job j, chunk i and snapshot s.
ReaderMoves(r, p, j, i, s) ==
    /\ rpc' = [rpc EXCEPT ![r] = p]
    /\ rjob' = [rjob EXCEPT ![r] = j]
    /\ index' = [index EXCEPT ![r] = i]
    /\ seen' = [seen EXCEPT ![r] = s]
    /\ outage' \in {outage, outage \cup {r}}
    /\ UNCHANGED vars

\* The places of a reader.
Places == {"off", "polling", "rows", "emitting", "lost", "lostRows", "error",
           "completed", "failed", "stopped"}

\* What the engine has, and what the other readers rely on, stays.
LEMMA ReaderMovesStream ==
    ASSUME StreamInv, NEW r \in Reader, NEW p \in Places, NEW j \in Job \cup {None},
           NEW i \in 1 .. N + 1, NEW s \in Snapshot, ReaderMoves(r, p, j, i, s), ReaderOK(r, p, j, i, s)'
    PROVE  StreamInv'
<1>1. UNCHANGED <<status, final, ckey, late, store, pc, jobOf, task>> /\ UNCHANGED vars
    BY DEF ReaderMoves, vars, jobVars, chunkVars, workVars, storeVars
<1>2. IInv'
    BY <1>1, InvStep DEF StreamInv
<1>4. ReadTypeOK'
    BY DEF ReaderMoves, StreamInv, ReadTypeOK, Places
<1>5. ASSUME NEW q \in Reader PROVE ReaderOK(q, rpc[q], rjob[q], index[q], seen[q])'
    <2>1. CASE q = r
        <3>1. rpc'[r] = p /\ rjob'[r] = j /\ index'[r] = i /\ seen'[r] = s
            BY DEF ReaderMoves, StreamInv, ReadTypeOK
        <3>2. QED
            BY <2>1, <3>1 DEF ReaderOK
    <2>2. CASE q # r
        <3>1. PICK x : x = <<rpc[q], rjob[q], index[q], seen[q]>>
            OBVIOUS
        <3>2. rpc'[q] = x[1] /\ rjob'[q] = x[2] /\ index'[q] = x[3] /\ seen'[q] = x[4]
            BY <2>2, <3>1 DEF ReaderMoves, StreamInv, ReadTypeOK
        <3>3. ReaderOK(q, x[1], x[2], x[3], x[4])
            BY <3>1 DEF StreamInv
        <3>4. q \in outage' <=> q \in outage
            BY <2>2 DEF ReaderMoves
        <3>5. ReaderOK(q, x[1], x[2], x[3], x[4])'
            BY <1>1, <3>3, <3>4 DEF ReaderOK, Done, Uploaded, LateOn
        <3>6. QED
            BY <3>2, <3>5 DEF ReaderOK
    <2>3. QED
        BY <2>1, <2>2
<1>6. QED
    BY <1>2, <1>4, <1>5 DEF StreamInv

\* What a reader is before it moves.
LEMMA ReaderIs ==
    ASSUME StreamInv, NEW r \in Reader
    PROVE  /\ rpc[r] \in Places /\ rjob[r] \in Job \cup {None} /\ index[r] \in 1 .. N + 1
           /\ seen[r] \in Snapshot /\ ReaderOK(r, rpc[r], rjob[r], index[r], seen[r])
           /\ rpc = [rpc EXCEPT ![r] = rpc[r]] /\ rjob = [rjob EXCEPT ![r] = rjob[r]]
           /\ index = [index EXCEPT ![r] = index[r]] /\ seen = [seen EXCEPT ![r] = seen[r]]
BY DEF StreamInv, ReadTypeOK, Places

\* The rows of the chunks, as they are when they are read.
LEMMA RowsRead ==
    ASSUME StreamInv, NEW j \in Job, NEW old \in Snapshot, NEW s, s = ChunkRows(j, old)
    PROVE  /\ s \in Snapshot /\ s.status = old.status /\ s.final = old.final
           /\ \A k \in Index : s.cstatus[k] = "completed" => s.ckey[k] \in Token /\ Done(s.ckey[k], k)
           /\ status[j] = "completed" => \A k \in Index : s.cstatus[k] = "completed" \/ LateOn(j, k)
<1>1. /\ s \in Snapshot /\ s.status = old.status /\ s.final = old.final
      /\ s.cstatus = cstatus[j] /\ s.ckey = ckey[j]
    BY DEF ChunkRows, Snapshot, StreamInv, IInv, TypeOK
<1>2. ASSUME NEW k \in Index, cstatus[j][k] = "completed"
      PROVE  ckey[j][k] \in Token /\ Done(ckey[j][k], k)
    <2>1. PICK c : c = ckey[j][k]
        OBVIOUS
    <2>2. c \in Token
        <3>1. ckey[j][k] # None
            BY <1>2 DEF StreamInv, IInv, CheckpointInv
        <3>2. ckey[j][k] \in TokenOrNone
            BY DEF StreamInv, IInv, TypeOK
        <3>3. QED
            BY <2>1, <3>1, <3>2 DEF TokenOrNone
    <2>3. Done(c, k)
        BY <2>1, <2>2, NoneAssumption DEF StreamInv, IInv, KeyInv
    <2>4. QED
        BY <2>1, <2>2, <2>3 DEF Done
<1>3. status[j] = "completed" => \A k \in Index : cstatus[j][k] = "completed" \/ LateOn(j, k)
    BY DEF StreamInv, IInv, CompletedIsWhole
<1>4. QED
    BY <1>1, <1>2, <1>3

\* A client listens.
LEMMA ListenStream ==
    ASSUME StreamInv, NEW r \in Reader, NEW j \in Job, NEW after \in 1 .. N + 1, Listen(r, j, after),
           UNCHANGED vars
    PROVE  StreamInv'
<1>1. PICK s \in Snapshot : s = seen[r]
    BY ReaderIs
<1>2. ReaderOK(r, "off", rjob[r], index[r], s)
    BY <1>1, ReaderIs DEF Listen
<1>3. ReaderMoves(r, "polling", j, after, s)
    BY <1>1, ReaderIs DEF Listen, Goes, ReaderMoves
<1>4. ReaderOK(r, "polling", j, after, s)
    BY <1>2 DEF ReaderOK
<1>5. ReaderOK(r, "polling", j, after, s)'
    BY <1>4 DEF ReaderOK, Done, Uploaded, LateOn, vars, jobVars, chunkVars, workVars
<1>6. QED
    BY <1>3, <1>5, ReaderMovesStream DEF Places

\* The job is read: if a lost chunk belongs to a job that is not completed, it was written
\* again since.
LEMMA ReadJobStream ==
    ASSUME StreamInv, NEW r \in Reader, ReadJob(r), UNCHANGED vars
    PROVE  StreamInv'
<1>1. PICK p \in {"polling", "lost"}, i \in 1 .. N + 1, old \in Snapshot :
          p = rpc[r] /\ i = index[r] /\ old = seen[r]
    BY ReaderIs DEF ReadJob
<1>2. PICK j : j = rjob[r]
    OBVIOUS
<1>3. ReaderOK(r, p, j, i, old) /\ j \in Job
    <2>1. ReaderOK(r, p, j, i, old)
        BY <1>1, <1>2, ReaderIs
    <2>2. QED
        BY <2>1 DEF ReaderOK
<1>4. PICK s : s = JobRow(j, old)
    OBVIOUS
<1>5. /\ s \in Snapshot /\ s.status = status[j] /\ s.final = final[j]
      /\ s.cstatus = old.cstatus /\ s.ckey = old.ckey
    BY <1>3, <1>4 DEF JobRow, Snapshot, StreamInv, IInv, TypeOK
<1>6. PICK to \in {"rows", "lostRows"} : to = IF p = "polling" THEN "rows" ELSE "lostRows"
    OBVIOUS
<1>7. ReaderMoves(r, to, j, i, s)
    BY <1>1, <1>2, <1>4, <1>6, ReaderIs DEF ReadJob, Goes, Query, ReaderMoves
<1>8. ReaderOK(r, to, j, i, s)
    <2>1. ASSUME to = "lostRows", s.status # "completed", r \notin outage PROVE ckey[j][i] # s.ckey[i]
        <3>1. i \in Index /\ old.ckey[i] \in Token /\ <<old.ckey[i], i>> \notin store
            BY <1>1, <1>3, <1>6, <2>1 DEF ReaderOK
        <3>2. status[j] # "completed"
            BY <1>5, <2>1
        <3>3. QED
            BY <1>3, <1>5, <3>1, <3>2, NoneAssumption DEF StreamInv, IInv, CheckpointInv
    <2>2. QED
        BY <1>1, <1>3, <1>5, <1>6, <2>1 DEF ReaderOK
<1>9. ReaderOK(r, to, j, i, s)'
    BY <1>8 DEF ReadJob, ReaderOK, Done, Uploaded, LateOn, vars, jobVars, chunkVars, workVars, storeVars
<1>10. QED
    BY <1>3, <1>5, <1>7, <1>9, ReaderMovesStream DEF Places

\* The chunks are read after the job.
LEMMA ReadRowsStream ==
    ASSUME StreamInv, NEW r \in Reader, ReadRows(r), UNCHANGED vars
    PROVE  StreamInv'
<1>1. PICK i \in 1 .. N + 1, old \in Snapshot : rpc[r] = "rows" /\ i = index[r] /\ old = seen[r]
    BY ReaderIs DEF ReadRows
<1>2. PICK j : j = rjob[r]
    OBVIOUS
<1>3. ReaderOK(r, "rows", j, i, old) /\ j \in Job
    <2>1. ReaderOK(r, "rows", j, i, old)
        BY <1>1, <1>2, ReaderIs
    <2>2. QED
        BY <2>1 DEF ReaderOK
<1>4. PICK s : s = ChunkRows(j, old)
    OBVIOUS
<1>5. /\ s \in Snapshot /\ s.status = old.status /\ s.final = old.final
      /\ \A k \in Index : s.cstatus[k] = "completed" => s.ckey[k] \in Token /\ Done(s.ckey[k], k)
      /\ status[j] = "completed" => \A k \in Index : s.cstatus[k] = "completed" \/ LateOn(j, k)
    BY <1>3, <1>4, RowsRead
<1>6. ReaderMoves(r, "emitting", j, i, s)
    BY <1>1, <1>2, <1>4, ReaderIs DEF ReadRows, Goes, Query, ReaderMoves
<1>7. ReaderOK(r, "emitting", j, i, s)
    BY <1>3, <1>5 DEF ReaderOK
<1>8. ReaderOK(r, "emitting", j, i, s)'
    BY <1>7 DEF ReaderOK, Done, Uploaded, LateOn, vars, jobVars, chunkVars, workVars
<1>9. QED
    BY <1>3, <1>5, <1>6, <1>8, ReaderMovesStream DEF Places

\* A chunk that was seen completed is emitted, or is not found.
LEMMA EmittingStream ==
    ASSUME StreamInv, NEW r \in Reader, EmitChunk(r) \/ MissChunk(r) \/ EndOrPoll(r), UNCHANGED vars
    PROVE  StreamInv'
<1>1. PICK i \in 1 .. N + 1, s \in Snapshot : rpc[r] = "emitting" /\ i = index[r] /\ s = seen[r]
    BY ReaderIs DEF EmitChunk, MissChunk, EndOrPoll
<1>2. PICK j : j = rjob[r]
    OBVIOUS
<1>3. ReaderOK(r, "emitting", j, i, s) /\ j \in Job
    <2>1. ReaderOK(r, "emitting", j, i, s)
        BY <1>1, <1>2, ReaderIs
    <2>2. QED
        BY <2>1 DEF ReaderOK
<1>4. Ready(r) <=> i \in Index /\ s.cstatus[i] = "completed"
    BY <1>1, NAssumption DEF Ready, Index
<1>5. CASE EmitChunk(r)
    <2>1. i + 1 \in 1 .. N + 1
        BY <1>4, <1>5, NAssumption DEF EmitChunk, Index
    <2>2. ReaderMoves(r, "emitting", j, i + 1, s)
        BY <1>1, <1>2, <1>5, ReaderIs DEF EmitChunk, Emit, ReaderMoves
    <2>3. ReaderOK(r, "emitting", j, i + 1, s)
        BY <1>3 DEF ReaderOK
    <2>4. ReaderOK(r, "emitting", j, i + 1, s)'
        BY <1>5, <2>3 DEF ReaderOK, Done, Uploaded, LateOn, vars, jobVars, chunkVars, workVars
    <2>5. QED
        BY <1>3, <2>1, <2>2, <2>4, ReaderMovesStream DEF Places
<1>6. CASE MissChunk(r)
    <2>1. i \in Index /\ s.cstatus[i] = "completed"
        BY <1>4, <1>6 DEF MissChunk
    <2>2. ReaderMoves(r, "lost", j, i, s)
        BY <1>1, <1>2, <1>6, ReaderIs DEF MissChunk, Goes, ReaderMoves
    <2>3. outage' = IF <<s.ckey[i], i>> \in store THEN outage \cup {r} ELSE outage
        BY <1>1, <1>6 DEF MissChunk
    <2>4. UNCHANGED <<status, final, ckey, late, store, pc, jobOf, task>>
        BY DEF vars, jobVars, chunkVars, workVars, storeVars
    <2>5. ReaderOK(r, "lost", j, i, s)'
        BY <1>3, <2>1, <2>3, <2>4 DEF ReaderOK, Done, Uploaded, LateOn
    <2>6. QED
        BY <1>3, <2>2, <2>5, ReaderMovesStream DEF Places
<1>7. CASE EndOrPoll(r)
    <2>1. PICK p \in {"completed", "failed", "stopped", "polling"} :
              /\ rpc' = [rpc EXCEPT ![r] = p]
              /\ p = "completed" => s.status = "completed"
        BY <1>1, <1>7 DEF EndOrPoll, Goes, Terminal
    <2>2. ReaderMoves(r, p, j, i, s)
        BY <1>1, <1>2, <1>7, <2>1, ReaderIs DEF EndOrPoll, ReaderMoves
    <2>3. p = "completed" => i = N + 1 \/ LateOn(j, i)
        <3>1. p = "completed" => i \notin Index \/ LateOn(j, i)
            BY <1>3, <1>4, <1>7, <2>1 DEF EndOrPoll, ReaderOK
        <3>2. QED
            BY <3>1, NAssumption DEF Index
    <2>4. ReaderOK(r, p, j, i, s)
        BY <1>3, <2>3 DEF ReaderOK
    <2>5. ReaderOK(r, p, j, i, s)'
        BY <1>7, <2>4 DEF ReaderOK, Done, Uploaded, LateOn, vars, jobVars, chunkVars, workVars
    <2>6. QED
        BY <1>3, <2>1, <2>2, <2>5, ReaderMovesStream DEF Places
<1>8. QED
    BY <1>5, <1>6, <1>7

\* The chunk is cut from the merged audio, or the stream ends without it.
LEMMA LostStream ==
    ASSUME StreamInv, NEW r \in Reader, FallBack(r) \/ GiveUp(r), UNCHANGED vars
    PROVE  StreamInv'
<1>1. PICK i \in 1 .. N + 1, old \in Snapshot : rpc[r] = "lostRows" /\ i = index[r] /\ old = seen[r]
    BY ReaderIs DEF FallBack, GiveUp
<1>2. PICK j : j = rjob[r]
    OBVIOUS
<1>3. ReaderOK(r, "lostRows", j, i, old) /\ j \in Job /\ i \in Index
    <2>1. ReaderOK(r, "lostRows", j, i, old)
        BY <1>1, <1>2, ReaderIs
    <2>2. QED
        BY <2>1 DEF ReaderOK
<1>4. CASE FallBack(r)
    <2>1. PICK s : s = ChunkRows(j, old)
        OBVIOUS
    <2>2. /\ s \in Snapshot /\ s.status = old.status /\ s.final = old.final
          /\ \A k \in Index : s.cstatus[k] = "completed" => s.ckey[k] \in Token /\ Done(s.ckey[k], k)
          /\ status[j] = "completed" => \A k \in Index : s.cstatus[k] = "completed" \/ LateOn(j, k)
        BY <1>3, <2>1, RowsRead
    <2>3. i + 1 \in 1 .. N + 1
        BY <1>3, NAssumption DEF Index
    <2>4. ReaderMoves(r, "emitting", j, i + 1, s)
        BY <1>1, <1>2, <1>4, <2>1, ReaderIs DEF FallBack, Goes, Emit, Query, ReaderMoves
    <2>5. ReaderOK(r, "emitting", j, i + 1, s)
        BY <1>3, <2>2 DEF ReaderOK
    <2>6. ReaderOK(r, "emitting", j, i + 1, s)'
        BY <1>4, <2>5 DEF ReaderOK, Done, Uploaded, LateOn, vars, jobVars, chunkVars, workVars
    <2>7. QED
        BY <1>3, <2>2, <2>3, <2>4, <2>6, ReaderMovesStream DEF Places
<1>5. CASE GiveUp(r)
    <2>1. ReaderMoves(r, "error", j, i, old)
        BY <1>1, <1>2, <1>5, ReaderIs DEF GiveUp, Goes, ReaderMoves
    <2>2. outage' = IF old.status = "completed" /\ old.final \in finals THEN outage \cup {r} ELSE outage
        BY <1>1, <1>5 DEF GiveUp
    <2>3. old.status = "completed" => old.final \in finals
        BY <1>3 DEF ReaderOK, StreamInv, IInv, CompletedIsWhole
    <2>4. r \in outage' \/ ckey[j][i] # old.ckey[i]
        BY <1>3, <2>2, <2>3 DEF ReaderOK
    <2>5. UNCHANGED <<status, final, ckey, late, store, pc, jobOf, task>>
        BY DEF vars, jobVars, chunkVars, workVars, storeVars
    <2>6. ReaderOK(r, "error", j, i, old)'
        BY <1>3, <2>4, <2>5 DEF ReaderOK, Done, Uploaded, LateOn
    <2>7. QED
        BY <1>3, <2>1, <2>6, ReaderMovesStream DEF Places
<1>6. QED
    BY <1>4, <1>5

\* One step per action of a reader, and the engine.
LEMMA StreamInvStep == StreamInv /\ [StreamNext]_allVars => StreamInv'
<1> SUFFICES ASSUME StreamInv, [StreamNext]_allVars PROVE StreamInv'
    OBVIOUS
<1>1. CASE Next /\ UNCHANGED readVars
    BY <1>1, EngineStepStream
<1>2. ASSUME NEW r \in Reader, NEW j \in Job, NEW after \in 1 .. N + 1, Listen(r, j, after), UNCHANGED vars
      PROVE  StreamInv'
    BY <1>2, ListenStream
<1>3. ASSUME NEW r \in Reader, ReaderStep(r), UNCHANGED vars PROVE StreamInv'
    BY <1>3, ReadJobStream, ReadRowsStream, EmittingStream, LostStream DEF ReaderStep
<1>4. CASE UNCHANGED allVars
    BY <1>4, EngineStepStream DEF allVars
<1>5. QED
    BY ONLY [StreamNext]_allVars, <1>1, <1>2, <1>3, <1>4 DEF StreamNext

\* The inductive invariant of the engine and its readers.
THEOREM StreamInvariance == StreamSpec => []StreamInv
BY StreamInvInit, StreamInvStep, PTL DEF StreamSpec

\* A stream that ends as completed has emitted every chunk, but for one written late,
\* although the rows of its snapshot are read at different instants (stream_chunks).
THEOREM StreamsAreWhole == StreamSpec => []StreamIsWhole
<1>1. StreamInv => StreamIsWhole
    BY DEF StreamInv, ReaderOK, StreamIsWhole
<1>2. QED
    BY <1>1, StreamInvariance, PTL

\* A reader that loses a chunk to the cleanup gets it from the merged audio, unless the
\* object store fails or the chunk was written again (stream_chunks).
THEOREM FallingBackWorks == StreamSpec => []FallBackWorks
<1>1. StreamInv => FallBackWorks
    BY DEF StreamInv, ReaderOK, FallBackWorks
<1>2. QED
    BY <1>1, StreamInvariance, PTL
=============================================================================
