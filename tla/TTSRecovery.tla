---------------------------- MODULE TTSRecovery ----------------------------
(***************************************************************************)
(* The recovery side of the TTS maintenance service: every gateway process *)
(* keeps a pool of at most two recovered workers, selects expired jobs     *)
(* oldest first with a LIMIT, refuses some of them, claims the others one  *)
(* by one and starts them (maintenance_loop and recover_expired in         *)
(* app/services/tts/maintenance.py).  The run of a worker is one step      *)
(* here; TTSJobs has it in full, with the fence between two workers.       *)
(*                                                                         *)
(* A job is its position by created_at.  A lease is numbered by the claim  *)
(* that installed it, so <<j, n>> is the worker of the n-th claim of j.    *)
(***************************************************************************)
EXTENDS Naturals, FiniteSets

CONSTANTS
    J,          \* number of jobs
    Hidden,     \* jobs excluded by the query: app or owner not active
    Refused,    \* jobs the query returns but the loop refuses: creation grant
                \* revoked, project suspended, local model, invalid snapshot
    Gateway,    \* gateway processes running maintenance_loop
    MaxFaults   \* bound on crashes, database failures and lost workers

ASSUME JAssumption == J \in Nat
ASSUME MaxFaultsAssumption == MaxFaults \in Nat
ASSUME ClassAssumption == Hidden \subseteq 1 .. J /\ Refused \subseteq 1 .. J \ Hidden

Job == 1 .. J
Worker == Job \X Nat

VARIABLES
    row,      \* "leased" and "expired": processing; "settled": completed or failed
    claim,    \* number of the claim that installed the current lease
    rows,     \* selected jobs still to be looked at, oldest first
    claimed,  \* claims of the pass under way, not started
    workers,  \* recovered workers that are not done
    pc,       \* "idle" or, in recover_expired, "passing"
    faults    \* faults so far (bounds the model)

vars == <<row, claim, rows, claimed, workers, pc, faults>>

TypeOK ==
    /\ row \in [Job -> {"leased", "expired", "settled"}]
    /\ claim \in [Job -> Nat]
    /\ rows \in [Gateway -> SUBSET Job]
    /\ claimed \in [Gateway -> SUBSET Worker]
    /\ workers \in [Gateway -> SUBSET Worker]
    /\ pc \in [Gateway -> {"idle", "passing"}]
    /\ faults \in 0 .. MaxFaults
    /\ \A g \in Gateway : pc[g] = "idle" => rows[g] = {} /\ claimed[g] = {}

\* The gateways start over a database in any state.
Init ==
    /\ row \in [Job -> {"leased", "expired", "settled"}]
    /\ claim = [j \in Job |-> 0]
    /\ rows = [g \in Gateway |-> {}]
    /\ claimed = [g \in Gateway |-> {}]
    /\ workers = [g \in Gateway |-> {}]
    /\ pc = [g \in Gateway |-> "idle"]
    /\ faults = 0

Fault == faults < MaxFaults /\ faults' = faults + 1

\* Some process still runs the worker that holds the lease of j.
Served(j) == \E g \in Gateway : <<j, claim[j]>> \in workers[g] \cup claimed[g]

-----------------------------------------------------------------------------
CapacityTwo(g) == 2    \* mutant: every pass takes two

\* The argument of recover_expired, after the workers that are done are dropped.
Capacity(g) == 2 - Cardinality(workers[g])

\* The rows of the query: expired and not hidden.
Candidates == {j \in Job \ Hidden : row[j] = "expired"}

\* S is what ORDER BY created_at LIMIT n leaves of the candidates.
OldestOf(S, n) ==
    /\ S \subseteq Candidates
    /\ Cardinality(S) <= n
    /\ Cardinality(S) = n \/ S = Candidates
    /\ \A j \in S, k \in Candidates \ S : j < k

\* A pass begins.
Select(g) ==
    /\ pc[g] = "idle"
    /\ Cardinality(workers[g]) < 2
    /\ pc' = [pc EXCEPT ![g] = "passing"]
    /\ \E S \in SUBSET Job :
          OldestOf(S, Capacity(g)) /\ rows' = [rows EXCEPT ![g] = S]
    /\ UNCHANGED <<row, claim, claimed, workers, faults>>

\* The next row of the pass.
NextRow(g, j) == j \in rows[g] /\ \A k \in rows[g] : j <= k

\* Mutant: the pass ends at the first refused row.
RefuseAll(g, j) ==
    /\ NextRow(g, j)
    /\ j \in Refused
    /\ rows' = [rows EXCEPT ![g] = {}]
    /\ UNCHANGED <<row, claim, claimed, workers, pc, faults>>

\* A row is refused and skipped.
Refuse(g, j) ==
    /\ NextRow(g, j)
    /\ j \in Refused
    /\ rows' = [rows EXCEPT ![g] = @ \ {j}]
    /\ UNCHANGED <<row, claim, claimed, workers, pc, faults>>

\* Mutant: the row is claimed as it was selected, without looking again.
TakeAnyRow(g, j) ==
    /\ NextRow(g, j)
    /\ j \notin Refused
    /\ rows' = [rows EXCEPT ![g] = @ \ {j}]
    /\ row' = [row EXCEPT ![j] = "leased"]
    /\ claimed' = [claimed EXCEPT ![g] = @ \cup {<<j, claim[j]>>}]
    /\ UNCHANGED <<claim, workers, pc, faults>>

\* claim_retry(expired_only=True); a row no longer expired is left alone.
TakeRow(g, j) ==
    /\ NextRow(g, j)
    /\ j \notin Refused
    /\ rows' = [rows EXCEPT ![g] = @ \ {j}]
    /\ \/ /\ row[j] = "expired"
          /\ row' = [row EXCEPT ![j] = "leased"]
          /\ claim' = [claim EXCEPT ![j] = @ + 1]
          /\ claimed' = [claimed EXCEPT ![g] = @ \cup {<<j, claim[j] + 1>>}]
       \/ row[j] # "expired" /\ UNCHANGED <<row, claim, claimed>>
    /\ UNCHANGED <<workers, pc, faults>>

\* recover_expired returns: a task is created for every claim.
Start(g) ==
    /\ pc[g] = "passing"
    /\ rows[g] = {}
    /\ workers' = [workers EXCEPT ![g] = @ \cup claimed[g]]
    /\ claimed' = [claimed EXCEPT ![g] = {}]
    /\ pc' = [pc EXCEPT ![g] = "idle"]
    /\ UNCHANGED <<row, claim, rows, faults>>

\* A query fails: the claims made so far are dropped with the exception.
PassFails(g) ==
    /\ pc[g] = "passing"
    /\ Fault
    /\ rows' = [rows EXCEPT ![g] = {}]
    /\ claimed' = [claimed EXCEPT ![g] = {}]
    /\ pc' = [pc EXCEPT ![g] = "idle"]
    /\ UNCHANGED <<row, claim, workers>>

\* The process crashes and is started again.
Crash(g) ==
    /\ Fault
    /\ rows' = [rows EXCEPT ![g] = {}]
    /\ claimed' = [claimed EXCEPT ![g] = {}]
    /\ workers' = [workers EXCEPT ![g] = {}]
    /\ pc' = [pc EXCEPT ![g] = "idle"]
    /\ UNCHANGED <<row, claim>>

\* process_tts_job ends: its fenced write settles the job it still owns.
Finish(g, w) ==
    /\ w \in workers[g]
    /\ workers' = [workers EXCEPT ![g] = @ \ {w}]
    /\ row' = IF claim[w[1]] = w[2] /\ row[w[1]] # "settled"
              THEN [row EXCEPT ![w[1]] = "settled"] ELSE row
    /\ UNCHANGED <<claim, rows, claimed, pc, faults>>

\* process_tts_job ends and could write nothing: the job stays as it is.
Vanish(g, w) ==
    /\ w \in workers[g]
    /\ Fault
    /\ workers' = [workers EXCEPT ![g] = @ \ {w}]
    /\ UNCHANGED <<row, claim, rows, claimed, pc>>

\* The lease passes: its worker is gone, or is alive but could not renew it.
Expire(j) ==
    /\ row[j] = "leased"
    /\ \/ ~Served(j) /\ UNCHANGED faults
       \/ Served(j) /\ Fault
    /\ row' = [row EXCEPT ![j] = "expired"]
    /\ UNCHANGED <<claim, rows, claimed, workers, pc>>

\* A job leased outside the pools (a submission or a retry) settles.
SettleElsewhere(j) ==
    /\ row[j] = "leased"
    /\ ~Served(j)
    /\ row' = [row EXCEPT ![j] = "settled"]
    /\ UNCHANGED <<claim, rows, claimed, workers, pc, faults>>

\* retry_tts_endpoint claims an expired job; its worker is outside the pools.
\* Bounded as a fault: it is the client that retries.
RetryElsewhere(j) ==
    /\ row[j] = "expired"
    /\ Fault
    /\ row' = [row EXCEPT ![j] = "leased"]
    /\ claim' = [claim EXCEPT ![j] = @ + 1]
    /\ UNCHANGED <<rows, claimed, workers, pc>>

PassStep(g) ==
    \/ Select(g) \/ Start(g)
    \/ \E j \in rows[g] : Refuse(g, j) \/ TakeRow(g, j)

Next ==
    \/ \E g \in Gateway :
          \/ PassStep(g) \/ PassFails(g) \/ Crash(g)
          \/ \E w \in workers[g] : Finish(g, w) \/ Vanish(g, w)
    \/ \E j \in Job : Expire(j) \/ SettleElsewhere(j) \/ RetryElsewhere(j)

Spec == Init /\ [][Next]_vars

\* The loop passes again and again, workers end, and the clock passes the lease
\* of a job that nobody serves.
Fairness ==
    /\ \A g \in Gateway :
          /\ WF_vars(PassStep(g))
          /\ \A j \in Job : WF_vars(\E n \in 0 .. claim[j] : Finish(g, <<j, n>>))
    /\ \A j \in Job : WF_vars(~Served(j) /\ Expire(j))

FairSpec == Spec /\ Fairness

-----------------------------------------------------------------------------
\* "At most two recovery workers run at once" in a process, although a pass
\* counts the workers before its query and starts them after the last claim.
PoolBounded ==
    \A g \in Gateway :
        Cardinality(workers[g]) + Cardinality(claimed[g]) + Cardinality(rows[g]) <= 2

\* No claim is served twice, although two processes may select the same expired
\* job and a process may select again a job whose worker it still runs.
ServedOnce ==
    /\ \A g, h \in Gateway :
          g # h => (workers[g] \cup claimed[g]) \cap (workers[h] \cup claimed[h]) = {}
    /\ \A g \in Gateway : workers[g] \cap claimed[g] = {}

\* Expired processing jobs that may be recovered are claimed (or are settled by
\* the worker they had), in spite of faults and of jobs that are refused.
Recovered ==
    \A j \in Job \ (Hidden \cup Refused) : row[j] = "expired" ~> row[j] # "expired"

=============================================================================
