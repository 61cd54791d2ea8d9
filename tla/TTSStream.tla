----------------------------- MODULE TTSStream -----------------------------
(***************************************************************************)
(* Readers of the preview stream (app/services/tts/streaming.py) composed  *)
(* with the TTS job engine: a reader polls the rows, emits the chunks in   *)
(* order while they become ready, and falls back to the merged audio when  *)
(* the cleanup of a completed job has taken a checkpoint from under it.    *)
(***************************************************************************)
EXTENDS TTSJobs

CONSTANT Reader   \* streams of the stream endpoint, one job each

VARIABLES
    rpc,     \* where a reader is
    rjob,    \* the job it listens to
    index,   \* the next chunk to emit
    seen,    \* its snapshot of the rows
    merged,  \* readers that have read the merged audio
    outage   \* readers for which the object store failed (not a variable of the code)

readVars == <<rpc, rjob, index, seen, merged, outage>>
allVars == <<vars, readVars>>

\* A reader that has read the job row reads the chunk rows in a second query,
\* first when it polls ("polling", "rows") and again when the audio of a chunk
\* was gone ("lost", "lostRows").
JobRow(j, old) == [old EXCEPT !.status = status[j], !.lease = lease[j], !.final = final[j]]
ChunkRows(j, old) == [old EXCEPT !.cstatus = cstatus[j], !.ckey = ckey[j]]

QuerySwapped(n, j, old) == IF n = 2 THEN JobRow(j, old) ELSE ChunkRows(j, old)   \* mutant

\* The n-th query of snapshot, applied to what the reader has seen so far.
Query(n, j, old) == IF n = 1 THEN JobRow(j, old) ELSE ChunkRows(j, old)

NoSnapshot == [status |-> "absent", lease |-> "none", final |-> None,
               cstatus |-> [i \in Index |-> "pending"], ckey |-> [i \in Index |-> None]]

ReadInit ==
    /\ rpc = [r \in Reader |-> "off"]
    /\ rjob = [r \in Reader |-> None]
    /\ index = [r \in Reader |-> 1]
    /\ seen = [r \in Reader |-> NoSnapshot]
    /\ merged = {}
    /\ outage = {}

Goes(r, p) == rpc' = [rpc EXCEPT ![r] = p]

\* stream_tts_endpoint: a client listens from the start, or resumes.
Listen(r, j, after) ==
    /\ rpc[r] = "off"
    /\ status[j] # "absent"
    /\ Goes(r, "polling")
    /\ rjob' = [rjob EXCEPT ![r] = j]
    /\ index' = [index EXCEPT ![r] = after]
    /\ UNCHANGED <<seen, merged, outage>>

\* Mutant: a reader that lost a chunk keeps the job row it has.
ReadJobOnce(r) ==
    /\ rpc[r] \in {"polling", "lost"}
    /\ seen' = IF rpc[r] = "lost" THEN seen
               ELSE [seen EXCEPT ![r] = Query(1, rjob[r], @)]
    /\ Goes(r, IF rpc[r] = "polling" THEN "rows" ELSE "lostRows")
    /\ UNCHANGED <<rjob, index, merged, outage>>

\* The first query of snapshot, and the second.
ReadJob(r) ==
    /\ rpc[r] \in {"polling", "lost"}
    /\ seen' = [seen EXCEPT ![r] = Query(1, rjob[r], @)]
    /\ Goes(r, IF rpc[r] = "polling" THEN "rows" ELSE "lostRows")
    /\ UNCHANGED <<rjob, index, merged, outage>>

ReadRows(r) ==
    /\ rpc[r] = "rows"
    /\ seen' = [seen EXCEPT ![r] = Query(2, rjob[r], @)]
    /\ Goes(r, "emitting")
    /\ UNCHANGED <<rjob, index, merged, outage>>

\* The next chunk is completed in the snapshot.
Ready(r) == index[r] <= N /\ seen[r].cstatus[index[r]] = "completed"

Emit(r) == index' = [index EXCEPT ![r] = @ + 1]

\* It is emitted, from its checkpoint or cut from the merged audio.
EmitChunk(r) ==
    /\ rpc[r] = "emitting"
    /\ Ready(r)
    /\ r \in merged \/ <<seen[r].ckey[index[r]], index[r]>> \in store
    /\ Emit(r)
    /\ UNCHANGED <<rpc, rjob, seen, merged, outage>>

\* Its checkpoint is gone or cannot be read: the rows are read again.
MissChunk(r) ==
    /\ rpc[r] = "emitting"
    /\ Ready(r)
    /\ r \notin merged
    /\ outage' = IF <<seen[r].ckey[index[r]], index[r]>> \in store
                 THEN outage \cup {r} ELSE outage
    /\ Goes(r, "lost")
    /\ UNCHANGED <<rjob, index, seen, merged>>

\* The job is completed meanwhile: the chunk is cut from the merged audio.
FallBack(r) ==
    /\ rpc[r] = "lostRows"
    /\ seen[r].status = "completed"
    /\ seen[r].final \in finals
    /\ seen' = [seen EXCEPT ![r] = Query(2, rjob[r], @)]
    /\ merged' = merged \cup {r}
    /\ Goes(r, "emitting")
    /\ Emit(r)
    /\ UNCHANGED <<rjob, outage>>

\* The job is not completed, or its merged audio cannot be read either.
GiveUp(r) ==
    /\ rpc[r] = "lostRows"
    /\ outage' = IF seen[r].status = "completed" /\ seen[r].final \in finals
                 THEN outage \cup {r} ELSE outage
    /\ Goes(r, "error")
    /\ UNCHANGED <<rjob, index, seen, merged>>

Terminal == {"completed", "failed"}

\* Mutant: the lease is not looked at.
EndOrPollOnly(r) ==
    /\ rpc[r] = "emitting"
    /\ ~Ready(r)
    /\ Goes(r, IF seen[r].status \in Terminal THEN seen[r].status ELSE "polling")
    /\ UNCHANGED <<rjob, index, seen, merged, outage>>

\* Nothing more is ready: the stream ends with the job, or with its lease, which
\* may have passed since it was read; otherwise the reader polls again.
EndOrPoll(r) ==
    /\ rpc[r] = "emitting"
    /\ ~Ready(r)
    /\ \/ seen[r].status \in Terminal /\ Goes(r, seen[r].status)
       \/ /\ seen[r].status \notin Terminal
          /\ \/ seen[r].lease # "none" /\ Goes(r, "stopped")
             \/ seen[r].lease # "expired" /\ Goes(r, "polling")
    /\ UNCHANGED <<rjob, index, seen, merged, outage>>

ReaderStep(r) ==
    \/ ReadJob(r) \/ ReadRows(r) \/ EmitChunk(r) \/ MissChunk(r) \/ FallBack(r)
    \/ GiveUp(r) \/ EndOrPoll(r)

StreamInit == Init /\ ReadInit

StreamNext ==
    \/ Next /\ UNCHANGED readVars
    \/ /\ \E r \in Reader :
             \/ \E j \in Job, after \in 1 .. N + 1 : Listen(r, j, after)
             \/ ReaderStep(r)
       /\ UNCHANGED vars

StreamSpec == StreamInit /\ [][StreamNext]_allVars

\* A reader is a coroutine whose awaits have timeouts; a client that goes away
\* ends its stream, so nothing is claimed of a reader that may stop for ever.
StreamFairSpec ==
    /\ StreamSpec
    /\ \A t \in Token : WF_allVars(WorkerStep(t) /\ UNCHANGED readVars)
    /\ \A j \in Job :
          WF_allVars(Abandoned(j) /\ LeaseExpires(j) /\ UNCHANGED readVars)
    /\ \A r \in Reader : WF_allVars(ReaderStep(r) /\ UNCHANGED vars)

-----------------------------------------------------------------------------
\* A stream ends with the event "completed" only after every chunk, although the
\* job row and the chunk rows of a snapshot are read at different instants and
\* the audio of the chunks is deleted meanwhile (stream_chunks); it stops short only
\* at a chunk that a superseded worker has written late.
StreamIsWhole ==
    \A r \in Reader : rpc[r] = "completed" =>
        index[r] = N + 1 \/ LateOn(rjob[r], index[r])

\* A reader that finds the audio of a completed chunk gone still gets it, from
\* the merged audio: it ends with an error only when the object store fails, or
\* when the chunk has been written again since it was read.
FallBackWorks ==
    \A r \in Reader : rpc[r] = "error" =>
        r \in outage \/ ckey[rjob[r]][index[r]] # seen[r].ckey[index[r]]

\* A stream ends, whatever becomes of the job: a reader does not poll for ever
\* a job whose worker is gone.
StreamEnds ==
    \A r \in Reader :
        rpc[r] = "polling" ~> rpc[r] \in {"completed", "failed", "stopped", "error"}

=============================================================================
