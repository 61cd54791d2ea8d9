----------------------------- MODULE TTSJobsInv ----------------------------
(***************************************************************************)
(* The inductive invariant behind the safety properties of TTSJobs.        *)
(***************************************************************************)
EXTENDS TTSJobs

\* A job that is processing has one owner, an issued token of that job; no
\* other job has an owner.
OwnerInv ==
    \A j \in Job :
        /\ status[j] = "processing" =>
               owner[j] \in Token /\ pc[owner[j]] # "free" /\ jobOf[owner[j]] = j
        /\ status[j] # "processing" => owner[j] = None
        /\ status[j] = "absent" =>
               \A i \in Index : ckey[j][i] = None /\ cstatus[j][i] # "completed"

\* What a worker has depends on how far it is.
WorkerInv ==
    \A t \in Token :
        /\ pc[t] # "free" => jobOf[t] \in Job /\ status[jobOf[t]] # "absent"
        /\ pc[t] = "uploaded" => t \in finals
        /\ \A i \in Index :
              /\ task[t][i] # "over" => pc[t] \in {"running", "failing", "stopping"}
              /\ task[t][i] \in {"stored", "saving"} => <<t, i>> \in store
        /\ t \in finals => pc[t] # "free"

\* An object, or a plan to delete it, exists only once its task has uploaded it.
Uploaded(k) ==
    /\ pc[k[1]] \notin {"free", "claimed", "starting"}
    /\ task[k[1]][k[2]] \notin {"waiting", "beginning", "generating"}

\* Worker c has nothing left to upload or to commit for chunk i.
Done(c, i) == Uploaded(<<c, i>>) /\ task[c][i] \notin {"stored", "saving"}

\* The key of a checkpoint belongs to a worker of that job, and that worker's
\* task has nothing left to commit.
KeyInv ==
    /\ \A k \in store : Uploaded(k)
    /\ \A j \in Job, i \in Index : ckey[j][i] # None =>
          /\ jobOf[ckey[j][i]] = j
          /\ Done(ckey[j][i], i)

\* Completed chunks have a key, and the audio of every key of a job that is not
\* completed is there, whatever the status of the chunk has become.
CheckpointInv ==
    \A j \in Job, i \in Index :
        /\ cstatus[j][i] = "completed" => ckey[j][i] # None
        /\ ckey[j][i] # None /\ status[j] # "completed" => <<ckey[j][i], i>> \in store

\* A write of worker t to chunk i has been executed and waits for its commit.
Open(t, i) ==
    \/ task[t][i] \in {"beginning", "saving", "marking"}
    \/ pc[t] = "spoiling" /\ next[t] = i

\* A write was committed late only by a worker that has lost its job, and was its
\* last to that chunk.
LateInv ==
    \A t \in Token, i \in Index : late[t][i] # 0 =>
        /\ late[t][i] = 1
        /\ pc[t] # "free" /\ ~Owns(t, jobOf[t])
        /\ ~Open(t, i)

\* While a worker owns its job only late writes change the chunks under it: those it
\* still has to start are not completed but by a late checkpoint, those it merges
\* are the ones it collected but for late writes.
OwnedInv ==
    \A t \in Token, j \in Job : Owns(t, j) =>
        /\ \A i \in Index :
              task[t][i] \in {"waiting", "beginning"} /\ cstatus[j][i] = "completed"
                  => late[ckey[j][i]][i] > 0
        /\ pc[t] \in {"fetching", "spoiling", "merged", "uploaded"} =>
              \A i \in Index :
                  /\ cstatus[j][i] = "completed" \/ LateOn(j, i)
                  /\ keys[t][i] = ckey[j][i] \/ late[ckey[j][i]][i] > 0

\* A worker merges, and deletes, temporary audio of checkpoints of its own job, and
\* deletes it when that job is completed.
MergeInv ==
    \A t \in Token :
        /\ pc[t] \in {"fetching", "spoiling", "merged", "uploaded", "cleaning"} =>
              \A i \in Index :
                  /\ ckey[jobOf[t]][i] # None
                  /\ keys[t][i] # None
                  /\ jobOf[keys[t][i]] = jobOf[t]
                  /\ Done(keys[t][i], i)
        /\ pc[t] = "cleaning" => status[jobOf[t]] = "completed"

\* What a sweep is about to delete has nothing left to commit, and once the
\* first query is read no job that is not completed refers to it.
SweepInv ==
    \A s \in Sweeper : \A k \in doomed[s] :
        /\ Done(k[1], k[2])
        /\ spc[s] \in {"keyed", "deleting"} =>
              \A j \in Job : status[j] # "completed" => ckey[j][k[2]] # k[1]

IInv ==
    /\ TypeOK
    /\ OwnerInv
    /\ WorkerInv
    /\ KeyInv
    /\ CheckpointInv
    /\ LateInv
    /\ OwnedInv
    /\ MergeInv
    /\ SweepInv
    /\ CompletedIsWhole

=============================================================================
