-------------------------- MODULE MediaGeneration --------------------------
(***************************************************************************)
(* Generation of images and videos and the account that is kept of every   *)
(* call to a provider (app/api/v1/image/router.py, its twin for videos,    *)
(* app/services/media_gen_service.py, app/services/generation_telemetry.py)*)
(*                                                                         *)
(* The handler commits a pending row, generates, and settles the row.      *)
(* Replicate is asked for one output at a time, by tasks that run side by  *)
(* side; the other providers are asked once.  Each of these operations     *)
(* commits an attempt to the row before its call and the outcome after it, *)
(* in transactions of its own.  The keys of the calls are those of KeyPool.*)
(***************************************************************************)
EXTENDS Naturals

CONSTANTS
    MaxOutputs,  \* outputs of a request to Replicate
    MaxMishaps   \* lost transactions and crashes in a run

ASSUME MaxOutputsAssumption == MaxOutputs \in Nat \ {0}
ASSUME MaxMishapsAssumption == MaxMishaps \in Nat

VARIABLES
    media,      \* the row: status, attempt of each operation, attempts_complete
    operation,  \* what the task of each operation does
    called,     \* operations whose call was sent
    handler,    \* what the handler does
    mishaps

mediaVars == <<media, operation, called, handler, mishaps>>

Operation == 1..MaxOutputs
Outcome == {"completed", "failed", "timeout", "cancelled"}

MediaInit ==
    /\ media = [status |-> "none", attempts |-> [i \in Operation |-> "none"], complete |-> FALSE]
    /\ operation = [i \in Operation |-> [at |-> "ended", outcome |-> "completed"]]
    /\ called = {}
    /\ handler = [at |-> "off", fan |-> FALSE, cancelled |-> FALSE]
    /\ mishaps = 0

At(i, place) == operation[i].at = place
Running == {i \in Operation : ~At(i, "ended")}
Proceeds(i, place, outcome) == operation' = [operation EXCEPT ![i] = [at |-> place, outcome |-> outcome]]
Mishap == mishaps < MaxMishaps /\ mishaps' = mishaps + 1

\* The tasks of a handler live until the process crashes.
Alive == handler.at \in {"generating", "done"}

-----------------------------------------------------------------------------
\* attempt_summary: attempts_complete.
Complete(attempts) == \A i \in Operation : attempts[i] # "processing"

\* persist_attempt: append or replace, with the summary, under the lock of the row.
Persisted(i, status) ==
    LET attempts == [media.attempts EXCEPT ![i] = status]
    IN [media EXCEPT !.attempts = attempts, !.complete = Complete(attempts)]

\* A failed transaction may have been committed.
PersistFails(i, status) == Mishap /\ media' \in {media, Persisted(i, status)}

\* The handler commits the pending row and starts the operations.
BeginMedia(n, fan) ==
    /\ handler.at = "off"
    /\ fan \/ n = 1
    /\ handler' = [handler EXCEPT !.at = "generating", !.fan = fan]
    /\ media' = [media EXCEPT !.status = "pending"]
    /\ operation' = [i \in Operation |-> IF i <= n THEN [at |-> "preparing", outcome |-> "completed"]
                                         ELSE operation[i]]
    /\ UNCHANGED <<called, mishaps>>

\* No key, no credential: nothing is sent and nothing is recorded.
GiveUpOperation(i) ==
    /\ Alive /\ ~handler.cancelled
    /\ At(i, "preparing")
    /\ Proceeds(i, "ended", "failed")
    /\ UNCHANGED <<media, called, handler, mishaps>>

\* begin_attempt: what it cannot commit it does not send.
BeginAttempt(i) ==
    /\ Alive /\ ~handler.cancelled
    /\ At(i, "preparing")
    /\ \/ Proceeds(i, "begun", "completed") /\ media' = Persisted(i, "processing") /\ UNCHANGED mishaps
       \/ Proceeds(i, "ended", "failed") /\ PersistFails(i, "processing")
    /\ UNCHANGED <<called, handler>>

SendCall(i) ==
    /\ Alive /\ ~handler.cancelled
    /\ At(i, "begun")
    /\ called' = called \cup {i}
    /\ Proceeds(i, "called", "completed")
    /\ UNCHANGED <<media, handler, mishaps>>

\* The answer and the polls that follow it, or the end of the patience.
ReceiveAnswer(i, outcome) ==
    /\ Alive /\ ~handler.cancelled
    /\ At(i, "called")
    /\ Proceeds(i, "closing", outcome)
    /\ UNCHANGED <<media, called, handler, mishaps>>

\* The status that provider_attempt gives an attempt.
StatusOf(outcome) == IF outcome = "timeout" THEN "failed" ELSE outcome

\* provider_attempt ends: an error of the transaction replaces the outcome.
CloseAttempt(i) ==
    /\ Alive
    /\ At(i, "closing")
    /\ LET outcome == operation[i].outcome
       IN \/ /\ Proceeds(i, "ended", outcome)
             /\ media' = Persisted(i, StatusOf(outcome))
             /\ UNCHANGED mishaps
          \/ Proceeds(i, "ended", "failed") /\ PersistFails(i, StatusOf(outcome))
    /\ UNCHANGED <<called, handler>>

-----------------------------------------------------------------------------
\* The process shuts down: the request is cancelled.
CancelMedia ==
    /\ handler.at = "generating"
    /\ Running # {}
    /\ handler' = [handler EXCEPT !.cancelled = TRUE]
    /\ UNCHANGED <<media, operation, called, mishaps>>

\* A task learns of it where it waits; a transaction that it waits for may have
\* been committed.
Abort(i) ==
    /\ Alive /\ handler.cancelled
    /\ \/ /\ At(i, "preparing")
          /\ Proceeds(i, "ended", "cancelled")
          /\ media' \in {media, Persisted(i, "processing")}
       \/ /\ operation[i].at \in {"begun", "called"}
          /\ Proceeds(i, "closing", "cancelled")
          /\ UNCHANGED media
    /\ UNCHANGED <<called, handler, mishaps>>

\* The shield of provider_attempt holds in the task of the handler.  The tasks of
\* gather are cancelled by gather, and again while they record the outcome.
Interrupt(i) ==
    /\ Alive /\ handler.cancelled /\ handler.fan
    /\ At(i, "closing")
    /\ Proceeds(i, "ended", "cancelled")
    /\ media' \in {media, Persisted(i, StatusOf(operation[i].outcome))}
    /\ UNCHANGED <<called, handler, mishaps>>

\* Mutant: gather without return_exceptions.
FirstFailure == Running = {} \/ \E i \in Operation : At(i, "ended") /\ operation[i].outcome # "completed"

\* gather with return_exceptions: every sibling has ended.
Gathered == Running = {}

\* What the handler makes of the outcomes: the first failure counts.
Verdict ==
    LET failed == {i \in Operation : operation[i].outcome # "completed"}
        first == CHOOSE i \in failed : \A j \in failed : i <= j
    IN IF handler.fan /\ handler.cancelled THEN "cancelled"
       ELSE IF failed = {} THEN "success" ELSE operation[first].outcome

\* finalize_media: the verdict is flushed, the attempts are read again, and the
\* summary is committed with both.  Until then the request may still be cancelled.
Settle ==
    /\ handler.at = "generating"
    /\ Gathered
    /\ handler' = [handler EXCEPT !.at = "done"]
    /\ \E status \in {Verdict, "cancelled"} :
          LET settled == [media EXCEPT !.status = status, !.complete = Complete(media.attempts)]
          IN \/ media' = settled /\ UNCHANGED mishaps
             \/ media' \in {media, settled} /\ Mishap
    /\ UNCHANGED <<operation, called>>

\* The row stays as it is; nothing looks for it again.
CrashMedia ==
    /\ Alive
    /\ Mishap
    /\ handler' = [handler EXCEPT !.at = "dead"]
    /\ UNCHANGED <<media, operation, called>>

OperationStep(i) ==
    \/ GiveUpOperation(i) \/ BeginAttempt(i) \/ SendCall(i) \/ CloseAttempt(i) \/ Abort(i) \/ Interrupt(i)
    \/ \E outcome \in {"completed", "failed", "timeout"} : ReceiveAnswer(i, outcome)

MediaNext ==
    \/ \E n \in Operation, fan \in BOOLEAN : BeginMedia(n, fan)
    \/ \E i \in Operation : OperationStep(i)
    \/ CancelMedia \/ Settle \/ CrashMedia

MediaSpec == MediaInit /\ [][MediaNext]_mediaVars

-----------------------------------------------------------------------------
MediaTypeOK ==
    /\ media \in [status : {"none", "pending", "success", "failed", "timeout", "cancelled"},
                  attempts : [Operation -> {"none", "processing", "completed", "failed", "cancelled"}],
                  complete : BOOLEAN]
    /\ operation \in [Operation -> [at : {"preparing", "begun", "called", "closing", "ended"},
                                    outcome : Outcome]]
    /\ called \subseteq Operation
    /\ handler \in [at : {"off", "generating", "done", "dead"}, fan : BOOLEAN, cancelled : BOOLEAN]
    /\ mishaps \in 0..MaxMishaps

\* Every call that was sent is on the row, whatever failed or crashed since.
CallsAreRecorded == \A i \in called : media.attempts[i] # "none"

Settled == media.status \notin {"none", "pending"}

(***************************************************************************)
(* The account of a request: every call is on its row from before it was   *)
(* sent, and a row that is settled is final.  No operation of it is still  *)
(* under way, success means that all of them completed and say so, and     *)
(* attempts_complete says whether the outcome of each is known.            *)
(***************************************************************************)
AccountIsKept ==
    /\ CallsAreRecorded
    /\ Settled => /\ Running = {}
                  /\ media.complete = Complete(media.attempts)
                  /\ media.status = "success" =>
                        called # {} /\ \A i \in called : media.attempts[i] = "completed"
=============================================================================
