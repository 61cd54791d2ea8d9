-------------------------- MODULE QueryAccounting --------------------------
(***************************************************************************)
(* Query rows from submission to accounting: the two endpoints that run a  *)
(* generation (app/api/v1/query/router.py, app/api/v1/generate.py), the    *)
(* maintenance pass that every gateway process repeats and the accounting  *)
(* both share (app/services/query_maintenance.py).                         *)
(*                                                                         *)
(* A row is what the code compares and overwrites as a whole, its          *)
(* meta_fields.  A write fenced by Query.meta_fields == ... is applied     *)
(* only to the row that was read.  Queries are numbered by their ids.      *)
(***************************************************************************)
EXTENDS Naturals, FiniteSets

CONSTANTS
    Q,          \* number of queries
    Generate,   \* those of the generate endpoint; the others are of query
    Bad,        \* those whose usage can never be recorded: no app, bad metadata
    Gateway,    \* gateway processes running query_maintenance_loop
    Limit,      \* LIMIT of the queries of a pass (100)
    MaxFaults   \* bound on the failures of passes

ASSUME QAssumption == Q \in Nat
ASSUME KindAssumption == Generate \subseteq 1 .. Q /\ Bad \subseteq 1 .. Q
ASSUME GatewayAssumption == IsFiniteSet(Gateway)
ASSUME BoundAssumption == Limit \in Nat /\ MaxFaults \in Nat

Query == 1 .. Q

VARIABLES
    row,      \* the query rows
    final,    \* the final response of a query
    counted,  \* how often the usage of a query was added to the daily usage
    old,      \* rows created more than STALE_SECONDS ago
    pc,       \* where the request of a query is
    mine,     \* the row its account_query has read
    gpc,      \* where the pass of a gateway is
    todo,     \* rows of the current page it has not come to
    cur,      \* the row it accounts or defers, or 0
    seen,     \* the rows it has read
    now,      \* when the pass began, or 0
    faults    \* failures so far (bounds the model)

requestVars == <<pc, mine>>
gatewayVars == <<gpc, todo, cur, seen, now>>
vars == <<row, final, counted, old, requestVars, gatewayVars, faults>>

-----------------------------------------------------------------------------
\* "failed" stands for cancelled too, usage "none" for not_applicable.  A row
\* without usage_accounting_attempted_at was attempted at 0.
Row == [status : {"absent", "processing", "completed", "failed"},
        usage : {"none", "pending", "recorded"}, attempted : Nat]

NoRow == [status |-> "absent", usage |-> "none", attempted |-> 0]
Processing == [NoRow EXCEPT !.status = "processing"]

\* A "completed" response has a completed provider attempt; a "cached" one (a
\* cache hit, a rule) has none.
Final == {"none", "completed", "cached", "failed"}

\* "saved": the final response is committed and the row is not.
RequestPC == {"idle", "running", "saved", "failing", "accounting", "claiming", "over"}
Unfinished == {"running", "saved", "failing"}

\* "claiming" and "deferring": a row is read and its fenced write to come.
PassPC == {"idle", "recovering", "accounting", "claiming", "marking", "deferring"}

TypeOK ==
    /\ row \in [Query -> Row]
    /\ final \in [Query -> Final]
    /\ counted \in [Query -> Nat]
    /\ old \subseteq Query
    /\ pc \in [Query -> RequestPC]
    /\ mine \in [Query -> Row]
    /\ gpc \in [Gateway -> PassPC]
    /\ todo \in [Gateway -> SUBSET Query]
    /\ cur \in [Gateway -> Query \cup {0}]
    /\ seen \in [Gateway -> [Query -> Row]]
    /\ now \in [Gateway -> Nat]
    /\ faults \in 0 .. MaxFaults
    /\ \A g \in Gateway :
          /\ gpc[g] \in {"claiming", "marking", "deferring"} <=> cur[g] # 0
          /\ gpc[g] = "idle" => todo[g] = {} /\ now[g] = 0

Init ==
    /\ row = [q \in Query |-> NoRow]
    /\ final = [q \in Query |-> "none"]
    /\ counted = [q \in Query |-> 0]
    /\ old = {}
    /\ pc = [q \in Query |-> "idle"]
    /\ mine = [q \in Query |-> NoRow]
    /\ gpc = [g \in Gateway |-> "idle"]
    /\ todo = [g \in Gateway |-> {}]
    /\ cur = [g \in Gateway |-> 0]
    /\ seen = [g \in Gateway |-> [q \in Query |-> NoRow]]
    /\ now = [g \in Gateway |-> 0]
    /\ faults = 0

Fault == faults < MaxFaults /\ faults' = faults + 1

Goes(q, p) == pc' = [pc EXCEPT ![q] = p]
Writes(q, s, u) == row' = [row EXCEPT ![q].status = s, ![q].usage = u]
Answers(q, f) == final' = [final EXCEPT ![q] = f]

\* What account_query looks at before its compare-and-set.
CanAccount(q) ==
    /\ row[q].status = "completed"
    /\ row[q].usage = "pending"
    /\ final[q] = "completed"
    /\ q \notin Bad

\* The marker and record_model_usage, in one transaction.
Record(q) ==
    /\ row' = [row EXCEPT ![q].usage = "recorded"]
    /\ counted' = [counted EXCEPT ![q] = @ + 1]

-----------------------------------------------------------------------------
\* The requests.

Submit(q) ==
    /\ pc[q] = "idle"
    /\ row' = [row EXCEPT ![q] = Processing]
    /\ Goes(q, "running")
    /\ UNCHANGED <<final, counted, old, mine, gatewayVars, faults>>

\* process_query commits the final response: _persist_final.
SaveFinal(q) ==
    /\ q \notin Generate
    /\ pc[q] = "running"
    /\ \/ \E f \in {"completed", "cached"} : Answers(q, f) /\ Goes(q, "saved")
       \/ Answers(q, "failed") /\ Goes(q, "failing")
    /\ UNCHANGED <<row, counted, old, mine, gatewayVars, faults>>

\* An exception, a timeout or a cancellation, in process_query or generate_text.
Abort(q) ==
    /\ pc[q] \in {"running", "saved"}
    /\ Goes(q, "failing")
    /\ UNCHANGED <<row, final, counted, old, mine, gatewayVars, faults>>

\* The finally block of the query endpoint, after process_query returned.
Finish(q) ==
    /\ pc[q] = "saved"
    /\ \/ /\ final[q] = "completed"
          /\ Writes(q, "completed", "pending")
          /\ Goes(q, "accounting")
       \/ /\ final[q] = "cached"
          /\ Writes(q, "completed", "none")
          /\ Goes(q, "over")
    /\ UNCHANGED <<final, counted, old, mine, gatewayVars, faults>>

\* The finally block of the generate endpoint: row and response in one commit.
FinishGenerate(q) ==
    /\ q \in Generate
    /\ pc[q] = "running"
    /\ Answers(q, "completed")
    /\ Writes(q, "completed", "pending")
    /\ Goes(q, "over")
    /\ UNCHANGED <<counted, old, mine, gatewayVars, faults>>

\* Mutant: a response saved before the failure is left as it is.
FinishFailedOnly(q) ==
    /\ pc[q] = "failing"
    /\ IF final[q] = "none" THEN Answers(q, "failed") ELSE UNCHANGED final
    /\ Writes(q, "failed", "none")
    /\ Goes(q, "over")
    /\ UNCHANGED <<counted, old, mine, gatewayVars, faults>>

\* The finally block of either endpoint after a failure.
FinishFailed(q) ==
    /\ pc[q] = "failing"
    /\ Answers(q, "failed")
    /\ Writes(q, "failed", "none")
    /\ Goes(q, "over")
    /\ UNCHANGED <<counted, old, mine, gatewayVars, faults>>

\* account_query of the query endpoint: it reads, then claims and records.
Account(q) ==
    /\ pc[q] = "accounting"
    /\ \/ CanAccount(q) /\ mine' = [mine EXCEPT ![q] = row[q]] /\ Goes(q, "claiming")
       \/ ~CanAccount(q) /\ Goes(q, "over") /\ UNCHANGED mine
    /\ UNCHANGED <<row, final, counted, old, gatewayVars, faults>>

Claim(q) ==
    /\ pc[q] = "claiming"
    /\ \/ row[q] = mine[q] /\ Record(q)
       \/ row[q] # mine[q] /\ UNCHANGED <<row, counted>>
    /\ Goes(q, "over")
    /\ mine' = [mine EXCEPT ![q] = NoRow]
    /\ UNCHANGED <<final, old, gatewayVars, faults>>

\* The process dies, or a commit of the endpoint fails.
Crash(q) ==
    /\ pc[q] \notin {"idle", "over"}
    /\ Goes(q, "over")
    /\ mine' = [mine EXCEPT ![q] = NoRow]
    /\ UNCHANGED <<row, final, counted, old, gatewayVars, faults>>

\* Mutant: a row may be stale before its request has timed out.
AgeEarly(q) ==
    /\ pc[q] # "idle"
    /\ old' = old \cup {q}
    /\ UNCHANGED <<row, final, counted, requestVars, gatewayVars, faults>>

\* Time passes.  STALE_SECONDS (600) is more than QUERY_TIMEOUT_SECONDS (180)
\* and the final write, so that an unfinished request is younger.
Age(q) ==
    /\ pc[q] \notin Unfinished \cup {"idle"}
    /\ old' = old \cup {q}
    /\ UNCHANGED <<row, final, counted, requestVars, gatewayVars, faults>>

-----------------------------------------------------------------------------
\* The passes of maintain_queries.

StaleAny == {q \in old : row[q].status # "absent"}   \* mutant
Stale == {q \in old : row[q].status = "processing"}
Pending == {q \in Query : row[q].status = "completed" /\ row[q].usage = "pending"}

\* ORDER BY usage_accounting_attempted_at, id; a processing row has no attempt.
Before(p, q) ==
    \/ row[p].attempted < row[q].attempted
    \/ row[p].attempted = row[q].attempted /\ p < q

\* What ORDER BY ... LIMIT leaves of S.
Page(S) == {q \in S : Cardinality({p \in S : Before(p, q)}) < Limit}

\* Times matter by their order only: when a pass begins they are replaced by
\* their ranks, which keeps them finite, and the pass is the latest.
Times ==
    ({row[q].attempted : q \in Query} \cup {now[g] : g \in Gateway}
       \cup {mine[q].attempted : q \in Query}
       \cup UNION {{seen[g][q].attempted : q \in Query} : g \in Gateway}) \ {0}
Rank(t) == Cardinality({u \in Times : u <= t})
Ranked(r) == [r EXCEPT !.attempted = Rank(@)]

GoesOn(g, p) == gpc' = [gpc EXCEPT ![g] = p]

\* The first query of a pass.
BeginPass(g) ==
    /\ gpc[g] = "idle"
    /\ GoesOn(g, "recovering")
    /\ todo' = [todo EXCEPT ![g] = Page(Stale)]
    /\ row' = [q \in Query |-> Ranked(row[q])]
    /\ mine' = [q \in Query |-> Ranked(mine[q])]
    /\ seen' = [h \in Gateway |-> [q \in Query |->
          IF h # g THEN Ranked(seen[h][q])
          ELSE IF q \in Page(Stale) THEN Ranked(row[q]) ELSE NoRow]]
    /\ now' = [h \in Gateway |-> IF h = g THEN Cardinality(Times) + 1 ELSE Rank(now[h])]
    /\ UNCHANGED <<final, counted, old, pc, cur, faults>>

\* Mutant: only a query with a final response is recovered.
RecoverAnswered(g, q) ==
    /\ gpc[g] = "recovering"
    /\ q \in todo[g]
    /\ todo' = [todo EXCEPT ![g] = @ \ {q}]
    /\ \/ /\ row[q] = seen[g][q] /\ final[q] # "none"
          /\ Writes(q, "failed", "none")
          /\ Answers(q, "failed")
       \/ /\ row[q] # seen[g][q] \/ final[q] = "none"
          /\ UNCHANGED <<row, final>>
    /\ seen' = [seen EXCEPT ![g][q] = NoRow]
    /\ UNCHANGED <<counted, old, requestVars, gpc, cur, now, faults>>

\* A stale row is marked failed, with its response, unless it changed.
Recover(g, q) ==
    /\ gpc[g] = "recovering"
    /\ q \in todo[g]
    /\ todo' = [todo EXCEPT ![g] = @ \ {q}]
    /\ \/ /\ row[q] = seen[g][q]
          /\ Writes(q, "failed", "none")
          /\ Answers(q, "failed")
       \/ row[q] # seen[g][q] /\ UNCHANGED <<row, final>>
    /\ seen' = [seen EXCEPT ![g][q] = NoRow]
    /\ UNCHANGED <<counted, old, requestVars, gpc, cur, now, faults>>

\* The second query of a pass.
SelectPending(g) ==
    /\ gpc[g] = "recovering"
    /\ todo[g] = {}
    /\ GoesOn(g, "accounting")
    /\ todo' = [todo EXCEPT ![g] = Page(Pending)]
    /\ UNCHANGED <<row, final, counted, old, requestVars, cur, seen, now, faults>>

\* account_query reads the next row, and is done with it if there is nothing to
\* record, or cannot read it.
PassAccount(g, q) ==
    /\ gpc[g] = "accounting"
    /\ q \in todo[g]
    /\ todo' = [todo EXCEPT ![g] = @ \ {q}]
    /\ cur' = [cur EXCEPT ![g] = q]
    /\ \/ /\ CanAccount(q)
          /\ seen' = [seen EXCEPT ![g][q] = row[q]]
          /\ GoesOn(g, "claiming")
          /\ UNCHANGED faults
       \/ /\ ~CanAccount(q)
          /\ GoesOn(g, "marking")
          /\ UNCHANGED <<seen, faults>>
       \/ Fault /\ GoesOn(g, "marking") /\ UNCHANGED seen
    /\ UNCHANGED <<row, final, counted, old, requestVars, now>>

\* It records the row it read; False, and an exception, send it to be deferred.
\* A commit whose answer is lost has recorded and raises.
PassClaim(g) ==
    /\ gpc[g] = "claiming"
    /\ LET q == cur[g] IN
          /\ \/ /\ row[q] = seen[g][q]
                /\ Record(q)
                /\ \/ /\ GoesOn(g, "accounting")
                      /\ cur' = [cur EXCEPT ![g] = 0]
                      /\ UNCHANGED faults
                   \/ Fault /\ GoesOn(g, "marking") /\ UNCHANGED cur
             \/ /\ (row[q] # seen[g][q] /\ UNCHANGED faults) \/ Fault
                /\ GoesOn(g, "marking")
                /\ UNCHANGED <<row, counted, cur>>
          /\ seen' = [seen EXCEPT ![g][q] = NoRow]
    /\ UNCHANGED <<final, old, requestVars, todo, now>>

\* A row that is still pending is to be deferred.
Mark(g) ==
    /\ gpc[g] = "marking"
    /\ LET q == cur[g] IN
          \/ /\ row[q].usage = "pending"
             /\ seen' = [seen EXCEPT ![g][q] = row[q]]
             /\ GoesOn(g, "deferring")
             /\ UNCHANGED cur
          \/ /\ row[q].usage # "pending"
             /\ GoesOn(g, "accounting")
             /\ cur' = [cur EXCEPT ![g] = 0]
             /\ UNCHANGED seen
    /\ UNCHANGED <<row, final, counted, old, requestVars, todo, now, faults>>

\* Mutant: the write is not fenced.
DeferUnfenced(g) ==
    /\ gpc[g] = "deferring"
    /\ LET q == cur[g] IN
          /\ row' = [row EXCEPT ![q] = [seen[g][q] EXCEPT !.attempted = now[g]]]
          /\ seen' = [seen EXCEPT ![g][q] = NoRow]
    /\ GoesOn(g, "accounting")
    /\ cur' = [cur EXCEPT ![g] = 0]
    /\ UNCHANGED <<final, counted, old, requestVars, todo, now, faults>>

\* Mutant: the attempt is not noted.
DeferInPlace(g) ==
    /\ gpc[g] = "deferring"
    /\ GoesOn(g, "accounting")
    /\ cur' = [cur EXCEPT ![g] = 0]
    /\ seen' = [seen EXCEPT ![g][cur[g]] = NoRow]
    /\ UNCHANGED <<row, final, counted, old, requestVars, todo, now, faults>>

\* It goes behind the rows attempted less recently, unless it changed.
Defer(g) ==
    /\ gpc[g] = "deferring"
    /\ LET q == cur[g] IN
          /\ \/ /\ row[q] = seen[g][q]
                /\ row' = [row EXCEPT ![q].attempted = now[g]]
             \/ row[q] # seen[g][q] /\ UNCHANGED row
          /\ seen' = [seen EXCEPT ![g][q] = NoRow]
    /\ GoesOn(g, "accounting")
    /\ cur' = [cur EXCEPT ![g] = 0]
    /\ UNCHANGED <<final, counted, old, requestVars, todo, now, faults>>

EndPass(g) ==
    /\ gpc[g] = "accounting"
    /\ todo[g] = {}
    /\ GoesOn(g, "idle")
    /\ now' = [now EXCEPT ![g] = 0]
    /\ UNCHANGED <<row, final, counted, old, requestVars, todo, cur, seen, faults>>

\* An exception reaches the loop, or the process dies and is started again.
PassFails(g) ==
    /\ gpc[g] # "idle"
    /\ Fault
    /\ GoesOn(g, "idle")
    /\ todo' = [todo EXCEPT ![g] = {}]
    /\ cur' = [cur EXCEPT ![g] = 0]
    /\ seen' = [seen EXCEPT ![g] = [q \in Query |-> NoRow]]
    /\ now' = [now EXCEPT ![g] = 0]
    /\ UNCHANGED <<row, final, counted, old, requestVars>>

-----------------------------------------------------------------------------
RequestStep(q) ==
    \/ SaveFinal(q) \/ Abort(q) \/ Finish(q) \/ FinishGenerate(q)
    \/ FinishFailed(q) \/ Account(q) \/ Claim(q) \/ Crash(q)

PassStep(g) ==
    \/ BeginPass(g) \/ SelectPending(g) \/ PassClaim(g) \/ Mark(g) \/ Defer(g)
    \/ EndPass(g)
    \/ \E q \in todo[g] : Recover(g, q) \/ PassAccount(g, q)

Next ==
    \/ \E q \in Query : Submit(q) \/ RequestStep(q) \/ Age(q)
    \/ \E g \in Gateway : PassStep(g) \/ PassFails(g)

Spec == Init /\ [][Next]_vars

\* Requests end, by their timeouts at the latest; time passes; the loop repeats
\* its passes.
FairSpec ==
    /\ Spec
    /\ \A q \in Query : WF_vars(RequestStep(q)) /\ WF_vars(Age(q))
    /\ \A g \in Gateway : WF_vars(PassStep(g))

-----------------------------------------------------------------------------
\* "Transactionally idempotent daily accounting": the usage of a query is added
\* once and exactly when its row says so, whoever accounts it, however often,
\* and whatever fails (account_query).
CountedOnce ==
    \A q \in Query : counted[q] = IF row[q].usage = "recorded" THEN 1 ELSE 0

\* "Only a completed generation may contribute to user token totals": never a
\* cached answer or one whose request failed after it was saved.
CompletedIsCounted ==
    \A q \in Query :
        counted[q] > 0 => row[q].status = "completed" /\ final[q] = "completed"

\* The row of a settled query and its final response agree, although the
\* endpoint commits one before the other and the pass may finish for it.
AnswerAgrees ==
    \A q \in Query :
        /\ row[q].status = "completed" => final[q] \in {"completed", "cached"}
        /\ row[q].status = "failed" => final[q] = "failed"

\* A settled query stays as it is: the pass does not fail what completed, and a
\* request does not complete what the pass gave up.
SettledIsFinal ==
    [][\A q \in Query : row[q].status \in {"completed", "failed"} =>
          row'[q].status = row[q].status]_vars

\* No query is left processing, whatever crashes.
Settles == \A q \in Query : row[q].status = "processing" ~> row[q].status # "processing"

\* The row that a pass is about to record is not any more what it has read.
Disturbed == \E g \in Gateway : gpc[g] = "claiming" /\ row[cur[g]] # seen[g][cur[g]]

\* "One bad record cannot starve the queue": a completed generation is accounted
\* in the end, although the page of a pass may be full of others that cannot be,
\* if the passes of two processes do not disturb each other for ever.
Accounted ==
    <>[]~Disturbed =>
        \A q \in Query \ Bad : row[q].usage = "pending" ~> row[q].usage = "recorded"

=============================================================================
