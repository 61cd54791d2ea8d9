--------------------------- MODULE TTSJobContract --------------------------
(***************************************************************************)
(* What the TTS job engine promises for a job, without workers, leases or  *)
(* storage: one owner at a time, every owner new, progress kept for ever,  *)
(* whoever made it, and a result only from the owner and only when every   *)
(* chunk has been saved.                                                   *)
(* Read from the fences of app/services/tts/jobs.py: claim_retry,          *)
(* _job_update and _chunk_update.                                          *)
(***************************************************************************)
CONSTANTS Job, Token, Index, None

VARIABLES
    status,   \* of each job
    owner,    \* the token in charge, while processing
    used,     \* tokens ever put in charge of a job
    saved,    \* the chunks of each job whose audio was checkpointed
    result    \* the token whose audio is the result of a completed job

vars == <<status, owner, used, saved, result>>

Init ==
    /\ status = [j \in Job |-> "absent"]
    /\ owner = [j \in Job |-> None]
    /\ used = {}
    /\ saved = [j \in Job |-> {}]
    /\ result = [j \in Job |-> None]

\* A submission, a retry or a recovery puts a token in charge that never was
\* before; what is saved stays saved.
PutInCharge(j, t) ==
    /\ status[j] # "completed"
    /\ t \notin used
    /\ status' = [status EXCEPT ![j] = "processing"]
    /\ owner' = [owner EXCEPT ![j] = t]
    /\ used' = used \cup {t}
    /\ UNCHANGED <<saved, result>>

Processing(j) == status[j] = "processing" /\ owner[j] \in used

\* A chunk is checkpointed, by the owner or by a worker that was in charge before:
\* the write of a superseded worker may come late.
Save(j, i) ==
    /\ status[j] # "absent"
    /\ saved' = [saved EXCEPT ![j] = @ \cup {i}]
    /\ UNCHANGED <<status, owner, used, result>>

\* The owner gives up.
Fail(j) ==
    /\ Processing(j)
    /\ status' = [status EXCEPT ![j] = "failed"]
    /\ owner' = [owner EXCEPT ![j] = None]
    /\ UNCHANGED <<used, saved, result>>

\* The owner publishes its result: every chunk has been saved.
Complete(j) ==
    /\ Processing(j)
    /\ saved[j] = Index
    /\ status' = [status EXCEPT ![j] = "completed"]
    /\ owner' = [owner EXCEPT ![j] = None]
    /\ result' = [result EXCEPT ![j] = owner[j]]
    /\ UNCHANGED <<used, saved>>

Next ==
    \E j \in Job :
        \/ \E t \in Token : PutInCharge(j, t)
        \/ \E i \in Index : Save(j, i)
        \/ Fail(j)
        \/ Complete(j)

Spec == Init /\ [][Next]_vars

=============================================================================
