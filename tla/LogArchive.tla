---------------------------- MODULE LogArchive ----------------------------
(***************************************************************************)
(* The log of the gateway and its way to the archive                       *)
(* (app/core/logging_config.py).  The handler appends records to one file, *)
(* moves the file to the pending batches when it is full, and goes on in a *)
(* new one.  A loop of the same process uploads pending batches and then   *)
(* removes them.  A process that starts splits what the last one left into *)
(* batches, before its own loop and its own file begin.  There is one      *)
(* process at a time; a batch is named after what it holds.                *)
(*                                                                         *)
(* A record is a number, and what is written of it is one line, except     *)
(* that a record may have a character in its text that the formatter does  *)
(* not escape and str.splitlines() takes for the end of a line (U+0085,    *)
(* U+2028, U+2029): such a record is ragged, and its two pieces stand for  *)
(* it.  A file that is only moved keeps them together; a file that is      *)
(* recovered is read by lines, and gets a substitute for each of them.     *)
(***************************************************************************)
EXTENDS Naturals, Sequences

CONSTANTS
    MaxEntries,  \* records of a batch
    MaxRecords,  \* records logged in a run
    MaxTroubles  \* crashes, failed renames and failed uploads in a run

ASSUME MaxEntriesAssumption == MaxEntries \in Nat \ {0}
ASSUME LogBoundsAssumption == MaxRecords \in Nat /\ MaxTroubles \in Nat

VARIABLES
    gateway,     \* gateway.jsonl
    recovering,  \* gateway.recovering
    pending,     \* batches in pending/
    bucket,      \* batches in the archive
    logger,      \* what the handler does, and its count
    round,       \* what the upload loop does
    logged,      \* records that were written and flushed
    ragged,      \* those of them with a separator in their text
    troubles

logVars == <<gateway, recovering, pending, bucket, logger, round, logged, ragged, troubles>>

NoLog == [there |-> FALSE, lines |-> <<>>]
Log(lines) == [there |-> TRUE, lines |-> lines]
NoRound == [at |-> "sleep", files |-> {}, file |-> <<>>]

\* A process that has just started over an empty directory.
LogInit ==
    /\ gateway = Log(<<>>)
    /\ recovering = NoLog
    /\ pending = {}
    /\ bucket = {}
    /\ logger = [at |-> "open", count |-> 0]
    /\ round = NoRound
    /\ logged = 0
    /\ ragged = {}
    /\ troubles = 0

RecordsOf(lines) == {lines[i] : i \in DOMAIN lines}
HasRecord(batches, n) == \E b \in batches : n \in RecordsOf(b)
Trouble == troubles < MaxTroubles /\ troubles' = troubles + 1
Serving == logger.at \in {"open", "shut", "seal", "reopen"}

-----------------------------------------------------------------------------
\* emit: the record is flushed before it is counted; a stream that is closed is
\* opened again.
Emit ==
    /\ logger.at \in {"open", "shut"}
    /\ logged < MaxRecords
    /\ logged' = logged + 1
    /\ \/ gateway' = Log(Append(gateway.lines, logged')) /\ UNCHANGED ragged
       \/ gateway' = Log(Append(Append(gateway.lines, logged'), logged')) /\ ragged' = ragged \cup {logged'}
    /\ logger' = [at |-> IF logger.count + 1 >= MaxEntries THEN "seal" ELSE "open",
                  count |-> logger.count + 1]
    /\ UNCHANGED <<recovering, pending, bucket, round, troubles>>

\* close, also called by servers that configure their own logging.
CloseLog ==
    /\ logger.at = "open"
    /\ logger.count > 0
    /\ logger' = [logger EXCEPT !.at = "seal"]
    /\ UNCHANGED <<gateway, recovering, pending, bucket, round, logged, ragged, troubles>>

\* Mutant: the batch is a copy, and the handler appends to the same file.
CopyActive ==
    /\ logger.at = "seal"
    /\ pending' = pending \cup {gateway.lines}
    /\ logger' = [logger EXCEPT !.at = "reopen"]
    /\ UNCHANGED <<gateway, recovering, bucket, round, logged, ragged, troubles>>

\* _seal: the file becomes a batch.
MoveActive ==
    /\ logger.at = "seal"
    /\ pending' = pending \cup {gateway.lines}
    /\ gateway' = NoLog
    /\ logger' = [logger EXCEPT !.at = "reopen"]
    /\ UNCHANGED <<recovering, bucket, round, logged, ragged, troubles>>

Reopen ==
    /\ logger.at = "reopen"
    /\ gateway' = Log(gateway.lines)
    /\ logger' = [at |-> "open", count |-> 0]
    /\ UNCHANGED <<recovering, pending, bucket, round, logged, ragged, troubles>>

\* The stream is closed and the count stays.
SealFails ==
    /\ logger.at \in {"seal", "reopen"}
    /\ Trouble
    /\ logger' = [logger EXCEPT !.at = "shut"]
    /\ UNCHANGED <<gateway, recovering, pending, bucket, round, logged, ragged>>

-----------------------------------------------------------------------------
\* upload_log_batches lists the batches.
BeginRound ==
    /\ Serving
    /\ round.at = "sleep"
    /\ pending # {}
    /\ round' = [at |-> "put", files |-> pending, file |-> <<>>]
    /\ UNCHANGED <<gateway, recovering, pending, bucket, logger, logged, ragged, troubles>>

\* The time in a line: a substitute has that of the last write of its file.
Time(line) == IF line > MaxRecords THEN line - MaxRecords ELSE line

\* The names sort by the time of the first line; what is put is removed next.
NextFile(b) ==
    /\ b \in round.files
    /\ IF round.at = "unlink" THEN b = round.file
       ELSE \A c \in round.files : Time(b[1]) <= Time(c[1])

Put(b) ==
    /\ Serving
    /\ round.at = "put"
    /\ NextFile(b)
    /\ bucket' = bucket \cup {b}
    /\ round' = [round EXCEPT !.at = "unlink", !.file = b]
    /\ UNCHANGED <<gateway, recovering, pending, logger, logged, ragged, troubles>>

Unlink(b) ==
    /\ Serving
    /\ round.at = "unlink"
    /\ NextFile(b)
    /\ pending' = pending \ {b}
    /\ round' = IF round.files = {b} THEN NoRound
                ELSE [at |-> "put", files |-> round.files \ {b}, file |-> <<>>]
    /\ UNCHANGED <<gateway, recovering, bucket, logger, logged, ragged, troubles>>

\* Mutant: the file goes before the upload is known to have succeeded.
DropFailed(b) ==
    /\ round.at # "sleep"
    /\ NextFile(b)
    /\ Trouble
    /\ pending' = pending \ {b}
    /\ round' = NoRound
    /\ UNCHANGED <<gateway, recovering, bucket, logger, logged, ragged>>

\* The upload, which may have been stored, or the removal fails; the others wait
\* for the next round as well.
RoundFails(b) ==
    /\ Serving
    /\ round.at # "sleep"
    /\ NextFile(b)
    /\ Trouble
    /\ round' = NoRound
    /\ bucket' \in {bucket, bucket \cup {b}}
    /\ UNCHANGED <<gateway, recovering, pending, logger, logged, ragged>>

-----------------------------------------------------------------------------
\* The process ends; its files remain.
StopLogger ==
    /\ Trouble
    /\ logger' = [at |-> "claim", count |-> 0]
    /\ round' = NoRound
    /\ UNCHANGED <<gateway, recovering, pending, bucket, logged, ragged>>

\* The next one claims the file that was active, if there is one.
ClaimLog ==
    /\ logger.at = "claim"
    /\ IF gateway.there THEN recovering' = gateway /\ gateway' = NoLog
                       ELSE UNCHANGED <<gateway, recovering>>
    /\ logger' = [logger EXCEPT !.at = "split"]
    /\ UNCHANGED <<pending, bucket, round, logged, ragged, troubles>>

\* "Recovered malformed log record", dated by the last write of the file.
Substitute == MaxRecords + recovering.lines[Len(recovering.lines)]

\* The lines of a file that is recovered: a piece of a record is not a record.
Restored ==
    [i \in DOMAIN recovering.lines |->
        IF recovering.lines[i] \in ragged THEN Substitute ELSE recovering.lines[i]]

\* The batch that begins after the first n of them.
Part(n) ==
    SubSeq(Restored, n + 1, IF n + MaxEntries < Len(Restored) THEN n + MaxEntries ELSE Len(Restored))

\* The next batch, written aside and renamed.  (logger.count: lines that are done.)
Split ==
    /\ logger.at = "split"
    /\ logger.count < Len(recovering.lines)
    /\ pending' = pending \cup {Part(logger.count)}
    /\ logger' = [logger EXCEPT !.count = @ + Len(Part(@))]
    /\ UNCHANGED <<gateway, recovering, bucket, round, logged, ragged, troubles>>

Recovered == logger.at = "split" /\ logger.count = Len(recovering.lines)

OpenLog ==
    /\ Recovered
    /\ recovering' = NoLog
    /\ gateway' = Log(<<>>)
    /\ logger' = [at |-> "open", count |-> 0]
    /\ UNCHANGED <<pending, bucket, round, logged, ragged, troubles>>

UploadStep == BeginRound \/ \E b \in pending : Put(b) \/ Unlink(b)
RestartStep == ClaimLog \/ Split \/ OpenLog
LogNext ==
    \/ Emit \/ CloseLog \/ MoveActive \/ Reopen \/ SealFails
    \/ UploadStep \/ \E b \in pending : RoundFails(b)
    \/ StopLogger \/ RestartStep

\* The loop runs as long as its process does, and a process that ends is started
\* again.  Nothing has to be logged, and nothing has to fill a batch.
LogFairness == WF_logVars(UploadStep) /\ WF_logVars(RestartStep)

LogSpec == LogInit /\ [][LogNext]_logVars /\ LogFairness

-----------------------------------------------------------------------------
Lines == Seq(1..MaxRecords)
Batch == Seq(1..2 * MaxRecords)
LogFile == [there : BOOLEAN, lines : Lines]

LogTypeOK ==
    /\ gateway \in LogFile /\ recovering \in LogFile
    /\ pending \subseteq Batch /\ bucket \subseteq Batch
    /\ logger \in [at : {"open", "shut", "seal", "reopen", "claim", "split"}, count : Nat]
    /\ round \in [at : {"sleep", "put", "unlink"}, files : SUBSET Batch, file : Batch]
    /\ logged \in 0..MaxRecords
    /\ ragged \subseteq 1..logged
    /\ troubles \in 0..MaxTroubles

Kept(n) ==
    \/ n \in RecordsOf(gateway.lines) \/ n \in RecordsOf(recovering.lines)
    \/ HasRecord(pending, n) \/ HasRecord(bucket, n)

(***************************************************************************)
(* No record that was flushed is lost, wherever a process ended or a       *)
(* rename or an upload failed, and what is uploaded or recovered again     *)
(* does not leave the archive with a second copy of it.  The exception is  *)
(* a ragged record of a file that was recovered: only substitutes tell     *)
(* that there was one.                                                     *)
(***************************************************************************)
RecordsKept ==
    \A n \in 1..logged :
        /\ \/ Kept(n)
           \/ n \in ragged /\ \E m \in 1..MaxRecords : HasRecord(pending \cup bucket, MaxRecords + m)
        /\ \A b, c \in bucket : n \in RecordsOf(b) \cap RecordsOf(c) => b = c

(***************************************************************************)
(* What waits to be uploaded, or to be recovered in one piece, gets to the *)
(* archive.                                                                *)
(***************************************************************************)
BatchesArrive ==
    \A n \in 1..MaxRecords :
        (HasRecord(pending, n) \/ (n \in RecordsOf(recovering.lines) \ ragged)) ~> HasRecord(bucket, n)
=============================================================================
