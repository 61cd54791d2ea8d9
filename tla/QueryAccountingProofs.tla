----------------------- MODULE QueryAccountingProofs -----------------------
(***************************************************************************)
(* Proofs about QueryAccounting: the inductive invariant and, from it, the *)
(* safety properties for any number of queries and gateway processes.      *)
(***************************************************************************)
EXTENDS QueryAccounting, FiniteSetTheorems, TLAPS

\* A request that has not written its outcome finds the row as it inserted it:
\* the row is too young for a pass.
RequestInv ==
    \A q \in Query :
        /\ pc[q] = "idle" => row[q].status = "absent" /\ q \notin old
        /\ pc[q] \in Unfinished => row[q].status = "processing" /\ q \notin old
        /\ pc[q] = "saved" => final[q] \in {"completed", "cached"}

\* Only what a completed attempt answered is, or was, pending.
UsageInv ==
    \A q \in Query : row[q].usage # "none" =>
        row[q].status = "completed" /\ final[q] = "completed"

\* What the fenced writes expect of the row they read: it is enough that status
\* and usage are those of the row when the fence holds.
ReadInv ==
    /\ \A q \in Query : pc[q] = "claiming" => mine[q].usage = "pending"
    /\ \A g \in Gateway :
          /\ gpc[g] = "recovering" =>
             \A q \in todo[g] : q \in old /\ seen[g][q].status = "processing"
          /\ gpc[g] = "claiming" => seen[g][cur[g]].usage = "pending"
          /\ gpc[g] = "deferring" => seen[g][cur[g]].usage = "pending"

\* The inductive invariant.
IInv ==
    /\ TypeOK /\ RequestInv /\ UsageInv /\ ReadInv
    /\ CountedOnce /\ CompletedIsCounted /\ AnswerAgrees

-----------------------------------------------------------------------------
\* Ranks are numbers, because only finitely many times are in use.
LEMMA ImageFinite ==
    ASSUME NEW S, IsFiniteSet(S), NEW f
    PROVE  IsFiniteSet({f[x] : x \in S})
<1> DEFINE T == {f[x] : x \in S}
           h == [x \in S |-> f[x]]
<1>1. h \in Surjection(S, T)
    BY DEF Surjection
<1> QED
    BY <1>1, FS_Surjection

\* Every query and every process mentions finitely many times.
LEMMA TimesFinite == IsFiniteSet(Times)
<1> DEFINE A == {[p \in Query |-> row[p].attempted][q] : q \in Query}
           B == {now[g] : g \in Gateway}
           C(g) == {[p \in Query |-> seen[g][p].attempted][q] : q \in Query}
           F == [g \in Gateway |-> C(g)]
           U == {F[g] : g \in Gateway}
           D == {[p \in Query |-> mine[p].attempted][q] : q \in Query}
<1>1. IsFiniteSet(Query)
    BY FS_Interval, QAssumption DEF Query
<1>2. IsFiniteSet(A)
    BY <1>1, ImageFinite
<1>3. IsFiniteSet(B)
    BY GatewayAssumption, ImageFinite
<1>4. \A g \in Gateway : IsFiniteSet(C(g))
    BY <1>1, ImageFinite
<1>5. IsFiniteSet(U)
    BY GatewayAssumption, ImageFinite
<1>6. IsFiniteSet(UNION U)
    BY <1>4, <1>5, FS_UNION
<1>7. IsFiniteSet(D)
    BY <1>1, ImageFinite
<1> DEFINE V == A \cup B \cup D \cup UNION U
<1>8. IsFiniteSet(A \cup B)
    BY <1>2, <1>3, FS_Union
<1>9. IsFiniteSet(A \cup B \cup D)
    BY <1>7, <1>8, FS_Union
<1>10. IsFiniteSet(V)
    BY <1>6, <1>9, FS_Union
<1>11. A = {row[q].attempted : q \in Query}
    OBVIOUS
<1>12. U = {{seen[g][q].attempted : q \in Query} : g \in Gateway}
    <2>1. \A g \in Gateway : C(g) = {seen[g][q].attempted : q \in Query}
        OBVIOUS
    <2> HIDE DEF C
    <2> QED
        BY <2>1
<1>13. D = {mine[q].attempted : q \in Query}
    OBVIOUS
<1> HIDE DEF A, B, C, F, U, D
<1>14. Times = V \ {0}
    BY <1>11, <1>12, <1>13 DEF Times, B
<1> HIDE DEF V
<1> QED
    BY <1>10, <1>14, FS_Difference

\* So that the rank of a time is a number.
LEMMA RankType == \A t : Rank(t) \in Nat
<1> TAKE t
<1>1. {u \in Times : u <= t} \subseteq Times
    OBVIOUS
<1>2. IsFiniteSet({u \in Times : u <= t})
    BY <1>1, TimesFinite, FS_Subset
<1> QED
    BY <1>2, FS_CardinalityType DEF Rank

\* A row with its time replaced by the rank is a row.
LEMMA RankedType ==
    ASSUME NEW r \in Row
    PROVE  /\ Ranked(r) \in Row
           /\ Ranked(r).status = r.status
           /\ Ranked(r).usage = r.usage
BY RankType DEF Ranked, Row

-----------------------------------------------------------------------------
\* Nothing is submitted yet.
LEMMA InitIInv == Init => IInv
<1> SUFFICES ASSUME Init PROVE IInv
    OBVIOUS
<1>1. TypeOK
    BY BoundAssumption DEF Init, TypeOK, Row, NoRow, Final, RequestPC, PassPC
<1>2. RequestInv /\ UsageInv /\ ReadInv
    BY DEF Init, NoRow, RequestInv, UsageInv, ReadInv, Unfinished
<1>3. CountedOnce /\ CompletedIsCounted /\ AnswerAgrees
    BY DEF Init, NoRow, CountedOnce, CompletedIsCounted, AnswerAgrees
<1> QED
    BY <1>1, <1>2, <1>3 DEF IInv

-----------------------------------------------------------------------------
\* The two halves of the type invariant: rows and requests, and passes.
RowTypes ==
    /\ row \in [Query -> Row]
    /\ final \in [Query -> Final]
    /\ counted \in [Query -> Nat]
    /\ old \subseteq Query
    /\ pc \in [Query -> RequestPC]
    /\ mine \in [Query -> Row]

\* A pass has a current row while it works on one, and nothing when it is idle.
PassShape ==
    \A g \in Gateway :
        /\ gpc[g] \in {"claiming", "marking", "deferring"} <=> cur[g] # 0
        /\ gpc[g] = "idle" => todo[g] = {} /\ now[g] = 0

\* The types of the passes.
PassTypes ==
    /\ gpc \in [Gateway -> PassPC]
    /\ todo \in [Gateway -> SUBSET Query]
    /\ cur \in [Gateway -> Query \cup {0}]
    /\ seen \in [Gateway -> [Query -> Row]]
    /\ now \in [Gateway -> Nat]
    /\ faults \in 0 .. MaxFaults
    /\ PassShape

\* The type invariant is that of the rows with that of the passes.
LEMMA TypeParts == TypeOK <=> RowTypes /\ PassTypes
BY DEF TypeOK, RowTypes, PassTypes, PassShape

\* What a request writes is a row.
LEMMA WritesType ==
    ASSUME row \in [Query -> Row], NEW q \in Query, NEW s \in {"completed", "failed"},
           NEW u \in {"none", "pending"}, Writes(q, s, u)
    PROVE  row' \in [Query -> Row]
BY DEF Writes, Row

\* What record_usage writes is a row.
LEMMA RecordType ==
    ASSUME row \in [Query -> Row], counted \in [Query -> Nat], NEW q \in Query, Record(q)
    PROVE  row' \in [Query -> Row] /\ counted' \in [Query -> Nat]
BY DEF Record, Row

\* The first values are rows.
LEMMA NoRowType == NoRow \in Row /\ Processing \in Row
BY DEF NoRow, Processing, Row

\* A row that a pass reads again.
LEMMA SeenType ==
    ASSUME seen \in [Gateway -> [Query -> Row]],
           NEW g \in Gateway, NEW q \in Query, NEW r \in Row
    PROVE  [seen EXCEPT ![g][q] = r] \in [Gateway -> [Query -> Row]]
OBVIOUS

\* 0 stands for no query.
LEMMA NumberType == 0 \notin Query
BY QAssumption DEF Query

\* A step of a request, one step per action.
LEMMA RequestTypes ==
    ASSUME TypeOK, NEW q \in Query, Submit(q) \/ RequestStep(q) \/ Age(q)
    PROVE  TypeOK'
<1> USE DEF Goes, Answers, Final, RequestPC
<1>0. TypeOK' <=> RowTypes' /\ PassTypes'
    BY DEF TypeOK, RowTypes, PassTypes, PassShape
<1>1. RowTypes /\ PassTypes
    BY TypeParts
<1>2. PassTypes'
    BY <1>1 DEF PassTypes, PassShape, gatewayVars, Submit, RequestStep, Age, SaveFinal, Abort, Finish,
                FinishGenerate, FinishFailed, Account, Claim, Crash
<1>3. ASSUME Submit(q) PROVE RowTypes'
    BY <1>1, <1>3, NoRowType DEF RowTypes, Submit
<1>4. ASSUME SaveFinal(q) PROVE RowTypes'
    BY <1>1, <1>4 DEF RowTypes, SaveFinal
<1>5. ASSUME Abort(q) PROVE RowTypes'
    BY <1>1, <1>5 DEF RowTypes, Abort
<1>6. ASSUME Finish(q) PROVE RowTypes'
    <2>1. row' \in [Query -> Row]
        BY <1>1, <1>6, WritesType DEF RowTypes, Finish
    <2> QED
        BY <1>1, <1>6, <2>1 DEF RowTypes, Finish
<1>7. ASSUME FinishGenerate(q) PROVE RowTypes'
    <2>1. row' \in [Query -> Row]
        BY <1>1, <1>7, WritesType DEF RowTypes, FinishGenerate
    <2> QED
        BY <1>1, <1>7, <2>1 DEF RowTypes, FinishGenerate
<1>8. ASSUME FinishFailed(q) PROVE RowTypes'
    <2>1. row' \in [Query -> Row]
        BY <1>1, <1>8, WritesType DEF RowTypes, FinishFailed
    <2> QED
        BY <1>1, <1>8, <2>1 DEF RowTypes, FinishFailed
<1>9. ASSUME Account(q) PROVE RowTypes'
    BY <1>1, <1>9 DEF RowTypes, Account
<1>10. ASSUME Claim(q) PROVE RowTypes'
    <2>1. row' \in [Query -> Row] /\ counted' \in [Query -> Nat]
        BY <1>1, <1>10, RecordType DEF RowTypes, Claim
    <2> QED
        BY <1>1, <1>10, <2>1, NoRowType DEF RowTypes, Claim
<1>11. ASSUME Crash(q) PROVE RowTypes'
    BY <1>1, <1>11, NoRowType DEF RowTypes, Crash
<1>12. ASSUME Age(q) PROVE RowTypes'
    BY <1>1, <1>12 DEF RowTypes, Age, requestVars
<1> QED
    BY <1>0, <1>2, <1>3, <1>4, <1>5, <1>6, <1>7, <1>8, <1>9, <1>10, <1>11, <1>12 DEF RequestStep

\* The beginning of a pass gives every time its rank.
LEMMA BeginPassTypes ==
    ASSUME TypeOK, NEW g \in Gateway, BeginPass(g)
    PROVE  TypeOK'
<1>0. TypeOK' <=> RowTypes' /\ PassTypes'
    BY DEF TypeOK, RowTypes, PassTypes, PassShape
<1>1. RowTypes /\ PassTypes
    BY TypeParts
<1>2. Page(Stale) \subseteq Query
    BY <1>1 DEF RowTypes, Page, Stale
<1>3. Cardinality(Times) + 1 \in Nat
    BY TimesFinite, FS_CardinalityType
<1>4. RowTypes'
    BY <1>1, RankedType DEF RowTypes, BeginPass
<1>5. seen' \in [Gateway -> [Query -> Row]]
    <2>1. \A h \in Gateway, q \in Query : Ranked(seen[h][q]) \in Row /\ Ranked(row[q]) \in Row
        BY <1>1, RankedType DEF RowTypes, PassTypes
    <2> QED
        BY <2>1, NoRowType DEF BeginPass
<1>6. now' \in [Gateway -> Nat]
    BY <1>3, RankType DEF BeginPass
<1>7. Rank(0) = 0
    <2>1. Times \subseteq Nat \ {0}
        <3>1. \A q \in Query : row[q].attempted \in Nat /\ mine[q].attempted \in Nat
            BY <1>1 DEF RowTypes, Row
        <3>2. \A h \in Gateway : now[h] \in Nat /\ \A q \in Query : seen[h][q].attempted \in Nat
            BY <1>1 DEF PassTypes, PassShape, Row
        <3> SUFFICES ASSUME NEW u \in Times PROVE u \in Nat /\ u # 0
            OBVIOUS
        <3>3. u # 0
            BY DEF Times
        <3>4. CASE u \in UNION {{seen[h][q].attempted : q \in Query} : h \in Gateway}
            <4>1. PICK h \in Gateway : u \in {seen[h][q].attempted : q \in Query}
                BY <3>4
            <4> QED
                BY <3>2, <3>3, <4>1
        <3>5. CASE u \notin UNION {{seen[h][q].attempted : q \in Query} : h \in Gateway}
            <4>1. \/ \E q \in Query : u = row[q].attempted
                  \/ \E q \in Query : u = mine[q].attempted
                  \/ \E h \in Gateway : u = now[h]
                BY <3>5 DEF Times
            <4>2. ASSUME NEW q \in Query, u = row[q].attempted PROVE u \in Nat
                BY <3>1, <4>2
            <4>3. ASSUME NEW q \in Query, u = mine[q].attempted PROVE u \in Nat
                BY <3>1, <4>3
            <4>4. ASSUME NEW h \in Gateway, u = now[h] PROVE u \in Nat
                BY <3>2, <4>4
            <4> QED
                BY <3>3, <4>1, <4>2, <4>3, <4>4
        <3> QED
            BY <3>4, <3>5
    <2>2. \A u \in Times : ~(u <= 0)
        BY <2>1
    <2>3. {u \in Times : u <= 0} = {}
        BY <2>2
    <2> QED
        BY <2>3, FS_EmptySet DEF Rank
<1>8. \A h \in Gateway : h # g => gpc'[h] = gpc[h] /\ todo'[h] = todo[h] /\ now'[h] = Rank(now[h])
    BY <1>1 DEF PassTypes, PassShape, BeginPass, GoesOn
<1>9. \A h \in Gateway : gpc'[h] = "idle" => todo'[h] = {} /\ now'[h] = 0
    BY <1>1, <1>7, <1>8 DEF PassTypes, PassShape, BeginPass, GoesOn
<1>10. \A h \in Gateway : gpc'[h] \in {"claiming", "marking", "deferring"} <=> cur'[h] # 0
    BY <1>1 DEF PassTypes, PassShape, BeginPass, GoesOn
<1>11. /\ gpc' \in [Gateway -> PassPC]
       /\ todo' \in [Gateway -> SUBSET Query]
       /\ cur' \in [Gateway -> Query \cup {0}]
       /\ faults' \in 0 .. MaxFaults
    BY <1>1, <1>2 DEF PassTypes, PassShape, BeginPass, GoesOn, PassPC
<1>12. PassTypes'
    BY <1>5, <1>6, <1>9, <1>10, <1>11 DEF PassTypes, PassShape
<1> QED
    BY <1>0, <1>4, <1>12

\* The other steps of a pass, one step per action.
LEMMA PassTypesKept ==
    ASSUME TypeOK, NEW g \in Gateway, PassStep(g) \/ PassFails(g)
    PROVE  TypeOK'
<1> USE DEF GoesOn, PassPC, requestVars
<1>0. TypeOK' <=> RowTypes' /\ PassTypes'
    BY DEF TypeOK, RowTypes, PassTypes, PassShape
<1>1. RowTypes /\ PassTypes
    BY TypeParts
<1>2. CASE BeginPass(g)
    BY <1>2, BeginPassTypes
<1>3. CASE SelectPending(g)
    <2>1. Page(Pending) \subseteq Query
        BY DEF Page, Pending
    <2>2. RowTypes'
        BY <1>1, <1>3 DEF RowTypes, SelectPending, requestVars
    <2>3. PassTypes'
        BY <1>1, <1>3, <2>1 DEF PassTypes, PassShape, SelectPending
    <2> QED
        BY <1>0, <2>2, <2>3
<1>4. ASSUME NEW q \in todo[g], Recover(g, q) PROVE TypeOK'
    <2>1. q \in Query
        BY <1>1 DEF PassTypes, PassShape
    <2>2. row' \in [Query -> Row]
        BY <1>1, <1>4, <2>1, WritesType DEF RowTypes, Recover
    <2>3. RowTypes'
        BY <1>1, <1>4, <2>1, <2>2 DEF RowTypes, Recover, Answers, Final, requestVars
    <2>4. PassTypes'
        BY <1>1, <1>4, <2>1, NoRowType DEF PassTypes, PassShape, Recover
    <2> QED
        BY <1>0, <2>3, <2>4
<1>5. ASSUME NEW q \in todo[g], PassAccount(g, q) PROVE TypeOK'
    <2>1. q \in Query /\ q # 0
        BY <1>1, NumberType DEF PassTypes, PassShape
    <2>2. RowTypes'
        BY <1>1, <1>5 DEF RowTypes, PassAccount, requestVars
    <2>3. row[q] \in Row
        BY <1>1, <2>1 DEF RowTypes
    <2>4. /\ seen' \in [Gateway -> [Query -> Row]]
          /\ faults' \in 0 .. MaxFaults
        <3>1. seen' = seen \/ seen' = [seen EXCEPT ![g][q] = row[q]]
            BY <1>5 DEF PassAccount
        <3>2. faults' \in 0 .. MaxFaults
            BY <1>1, <1>5, BoundAssumption DEF PassTypes, PassAccount, Fault
        <3>3. [seen EXCEPT ![g][q] = row[q]] \in [Gateway -> [Query -> Row]]
            BY <1>1, <2>1, <2>3, SeenType DEF PassTypes
        <3> QED
            BY <1>1, <3>1, <3>2, <3>3 DEF PassTypes
    <2>5. /\ gpc' \in [Gateway -> PassPC]
          /\ todo' \in [Gateway -> SUBSET Query]
          /\ cur' \in [Gateway -> Query \cup {0}]
          /\ now' \in [Gateway -> Nat]
        BY <1>1, <1>5, <2>1 DEF PassTypes, PassShape, PassAccount
    <2>6. PassShape'
        BY <1>1, <1>5, <2>1 DEF PassTypes, PassShape, PassAccount
    <2>7. PassTypes'
        BY <2>4, <2>5, <2>6 DEF PassTypes, PassShape
    <2> QED
        BY <1>0, <2>2, <2>7
<1>6. CASE PassClaim(g)
    <2>1. cur[g] \in Query
        BY <1>1, <1>6 DEF PassTypes, PassShape, PassClaim
    <2>2. row' \in [Query -> Row] /\ counted' \in [Query -> Nat]
        BY <1>1, <1>6, <2>1, RecordType DEF RowTypes, PassClaim
    <2>3. RowTypes'
        BY <1>1, <1>6, <2>2 DEF RowTypes, PassClaim, requestVars
    <2>4. /\ seen' \in [Gateway -> [Query -> Row]]
          /\ faults' \in 0 .. MaxFaults
        BY <1>1, <1>6, <2>1, NoRowType, BoundAssumption DEF PassTypes, PassShape, PassClaim, Fault
    <2>5. /\ gpc' \in [Gateway -> PassPC]
          /\ todo' \in [Gateway -> SUBSET Query]
          /\ cur' \in [Gateway -> Query \cup {0}]
          /\ now' \in [Gateway -> Nat]
        BY <1>1, <1>6, <2>1 DEF PassTypes, PassShape, PassClaim
    <2>6. PassShape'
        BY <1>1, <1>6, <2>1 DEF PassTypes, PassShape, PassClaim
    <2>7. PassTypes'
        BY <2>4, <2>5, <2>6 DEF PassTypes, PassShape
    <2> QED
        BY <1>0, <2>3, <2>7
<1>7. CASE Mark(g)
    <2>1. cur[g] \in Query
        BY <1>1, <1>7 DEF PassTypes, PassShape, Mark
    <2>2. RowTypes'
        BY <1>1, <1>7 DEF RowTypes, Mark, requestVars
    <2>3. row[cur[g]] \in Row
        BY <1>1, <2>1 DEF RowTypes
    <2>4. seen' \in [Gateway -> [Query -> Row]]
        <3>1. seen' = seen \/ seen' = [seen EXCEPT ![g][cur[g]] = row[cur[g]]]
            BY <1>7 DEF Mark
        <3>2. [seen EXCEPT ![g][cur[g]] = row[cur[g]]] \in [Gateway -> [Query -> Row]]
            BY <1>1, <2>1, <2>3, SeenType DEF PassTypes
        <3> QED
            BY <1>1, <3>1, <3>2 DEF PassTypes
    <2>5. /\ gpc' \in [Gateway -> PassPC]
          /\ todo' \in [Gateway -> SUBSET Query]
          /\ cur' \in [Gateway -> Query \cup {0}]
          /\ now' \in [Gateway -> Nat]
          /\ faults' \in 0 .. MaxFaults
        BY <1>1, <1>7, <2>1 DEF PassTypes, PassShape, Mark
    <2>6. PassShape'
        BY <1>1, <1>7, <2>1 DEF PassTypes, PassShape, Mark
    <2>7. PassTypes'
        BY <2>4, <2>5, <2>6 DEF PassTypes, PassShape
    <2> QED
        BY <1>0, <2>2, <2>7
<1>8. CASE Defer(g)
    <2>1. cur[g] \in Query
        BY <1>1, <1>8 DEF PassTypes, PassShape, Defer
    <2>2. now[g] \in Nat
        BY <1>1 DEF PassTypes, PassShape
    <2>3. row' \in [Query -> Row]
        <3>1. CASE row' = [row EXCEPT ![cur[g]].attempted = now[g]]
            <4>1. row[cur[g]] \in Row
                BY <1>1, <2>1 DEF RowTypes
            <4>2. PICK r : r = [row[cur[g]] EXCEPT !.attempted = now[g]]
                OBVIOUS
            <4>3. r \in Row
                BY <2>2, <4>1, <4>2 DEF Row
            <4>4. row' = [row EXCEPT ![cur[g]] = r]
                BY <3>1, <4>2
            <4> QED
                BY <1>1, <2>1, <4>3, <4>4 DEF RowTypes
        <3>2. CASE row' = row
            BY <1>1, <3>2 DEF RowTypes
        <3> QED
            BY <1>8, <3>1, <3>2 DEF Defer
    <2>4. RowTypes'
        BY <1>1, <1>8, <2>3 DEF RowTypes, Defer, requestVars
    <2>5. PassTypes'
        BY <1>1, <1>8, <2>1, NoRowType DEF PassTypes, PassShape, Defer
    <2> QED
        BY <1>0, <2>4, <2>5
<1>9. CASE EndPass(g)
    <2>1. RowTypes'
        BY <1>1, <1>9 DEF RowTypes, EndPass, requestVars
    <2>2. PassTypes'
        BY <1>1, <1>9 DEF PassTypes, PassShape, EndPass
    <2> QED
        BY <1>0, <2>1, <2>2
<1>10. CASE PassFails(g)
    <2>1. RowTypes'
        BY <1>1, <1>10 DEF RowTypes, PassFails, requestVars
    <2>2. PassTypes'
        BY <1>1, <1>10, NoRowType, BoundAssumption DEF PassTypes, PassShape, PassFails, Fault
    <2> QED
        BY <1>0, <2>1, <2>2
<1> QED
    BY <1>2, <1>3, <1>4, <1>5, <1>6, <1>7, <1>8, <1>9, <1>10 DEF PassStep

\* Every step keeps the types.
LEMMA TypeStep == TypeOK /\ [Next]_vars => TypeOK'
<1> SUFFICES ASSUME TypeOK, [Next]_vars PROVE TypeOK'
    OBVIOUS
<1>1. CASE UNCHANGED vars
    BY <1>1 DEF vars, requestVars, gatewayVars, TypeOK
<1>2. CASE Next
    BY <1>2, RequestTypes, PassTypesKept DEF Next
<1> QED
    BY <1>1, <1>2

-----------------------------------------------------------------------------
\* The invariant without its types.
SafeInv ==
    RequestInv /\ UsageInv /\ ReadInv /\ CountedOnce /\ CompletedIsCounted /\ AnswerAgrees

\* What the invariant says of one query, and of one pass.
QueryInv(q) ==
    /\ pc[q] = "idle" => row[q].status = "absent" /\ q \notin old
    /\ pc[q] \in Unfinished => row[q].status = "processing" /\ q \notin old
    /\ pc[q] = "saved" => final[q] \in {"completed", "cached"}
    /\ row[q].usage # "none" => row[q].status = "completed" /\ final[q] = "completed"
    /\ pc[q] = "claiming" => mine[q].usage = "pending"
    /\ counted[q] = IF row[q].usage = "recorded" THEN 1 ELSE 0
    /\ row[q].status = "completed" => final[q] \in {"completed", "cached"}
    /\ row[q].status = "failed" => final[q] = "failed"

\* What it says of one pass.
PassInv(g) ==
    /\ gpc[g] = "recovering" =>
          \A q \in todo[g] : q \in old /\ seen[g][q].status = "processing"
    /\ gpc[g] = "claiming" => seen[g][cur[g]].usage = "pending"
    /\ gpc[g] = "deferring" => seen[g][cur[g]].usage = "pending"

\* The invariant speaks of each query and of each pass.
LEMMA SafeParts ==
    SafeInv <=> (\A q \in Query : QueryInv(q)) /\ (\A g \in Gateway : PassInv(g))
BY DEF SafeInv, RequestInv, UsageInv, ReadInv, CountedOnce, CompletedIsCounted,
       AnswerAgrees, QueryInv, PassInv

\* The same, of the next state.
LEMMA SafePartsNext ==
    SafeInv' <=> (\A q \in Query : QueryInv(q)') /\ (\A g \in Gateway : PassInv(g)')
BY DEF SafeInv, RequestInv, UsageInv, ReadInv, CountedOnce, CompletedIsCounted,
       AnswerAgrees, QueryInv, PassInv

\* A query no step touches.
LEMMA QueryKept ==
    ASSUME NEW p \in Query, QueryInv(p),
           /\ pc'[p] = pc[p] /\ final'[p] = final[p] /\ counted'[p] = counted[p]
           /\ row'[p].status = row[p].status /\ row'[p].usage = row[p].usage
           /\ mine'[p].usage = mine[p].usage
           /\ p \in old' <=> p \in old
    PROVE  QueryInv(p)'
BY DEF QueryInv

\* A request writes its own row only, and no pass has claimed it.
LEMMA RequestSafe ==
    ASSUME TypeOK, SafeInv, NEW q \in Query, Submit(q) \/ RequestStep(q) \/ Age(q)
    PROVE  SafeInv'
<1>0. RowTypes
    BY TypeParts
<1>1. \A p \in Query : QueryInv(p)
    BY SafeParts
<1>2. \A g \in Gateway : PassInv(g)'
    <2>1. UNCHANGED gatewayVars
        BY DEF Submit, RequestStep, Age, SaveFinal, Abort, Finish, FinishGenerate,
               FinishFailed, Account, Claim, Crash
    <2>2. old \subseteq old'
        BY DEF Submit, RequestStep, Age, SaveFinal, Abort, Finish, FinishGenerate,
               FinishFailed, Account, Claim, Crash
    <2> QED
        BY <2>1, <2>2, SafeParts DEF PassInv, gatewayVars
<1>3. ASSUME NEW p \in Query, p # q PROVE QueryInv(p)'
    <2>1. /\ pc'[p] = pc[p] /\ final'[p] = final[p] /\ counted'[p] = counted[p]
          /\ row'[p] = row[p] /\ mine'[p] = mine[p] /\ (p \in old' <=> p \in old)
        BY <1>0, <1>3 DEF RowTypes, Submit, RequestStep, Age, SaveFinal, Abort, Finish,
           FinishGenerate, FinishFailed, Account, Claim, Crash, requestVars, Goes, Writes,
           Answers, Record
    <2> QED
        BY <1>1, <2>1, QueryKept
<1> USE DEF Goes, Writes, Answers, Unfinished
<1>4. ASSUME Submit(q) PROVE QueryInv(q)'
    BY <1>0, <1>1, <1>4 DEF QueryInv, RowTypes, Submit, Processing, NoRow
<1>5. ASSUME SaveFinal(q) PROVE QueryInv(q)'
    BY <1>0, <1>1, <1>5 DEF QueryInv, RowTypes, Row, SaveFinal
<1>6. ASSUME Abort(q) PROVE QueryInv(q)'
    BY <1>0, <1>1, <1>6 DEF QueryInv, RowTypes, Row, Abort
<1>7. ASSUME Finish(q) PROVE QueryInv(q)'
    BY <1>0, <1>1, <1>7 DEF QueryInv, RowTypes, Row, Finish
<1>8. ASSUME FinishGenerate(q) PROVE QueryInv(q)'
    BY <1>0, <1>1, <1>8 DEF QueryInv, RowTypes, Row, FinishGenerate
<1>9. ASSUME FinishFailed(q) PROVE QueryInv(q)'
    BY <1>0, <1>1, <1>9 DEF QueryInv, RowTypes, Row, FinishFailed
<1>10. ASSUME Account(q) PROVE QueryInv(q)'
    BY <1>0, <1>1, <1>10 DEF QueryInv, RowTypes, Row, Account, CanAccount
<1>11. ASSUME Claim(q) PROVE QueryInv(q)'
    BY <1>0, <1>1, <1>11 DEF QueryInv, RowTypes, Row, Claim, Record
<1>12. ASSUME Crash(q) PROVE QueryInv(q)'
    BY <1>0, <1>1, <1>12 DEF QueryInv, RowTypes, Row, Crash
<1>13. ASSUME Age(q) PROVE QueryInv(q)'
    BY <1>0, <1>1, <1>13 DEF QueryInv, RowTypes, Row, Age, requestVars
<1>14. QueryInv(q)'
    BY <1>4, <1>5, <1>6, <1>7, <1>8, <1>9, <1>10, <1>11, <1>12, <1>13 DEF RequestStep
<1> QED
    BY <1>2, <1>3, <1>14, SafePartsNext

\* A pass begins with a snapshot of the rows.
LEMMA BeginPassSafe ==
    ASSUME TypeOK, SafeInv, NEW g \in Gateway, BeginPass(g)
    PROVE  SafeInv'
<1>0. RowTypes /\ PassTypes
    BY TypeParts
<1>1. ASSUME NEW q \in Query PROVE QueryInv(q)'
    <2>1. row[q] \in Row /\ mine[q] \in Row
        BY <1>0 DEF RowTypes
    <2>2. row'[q] = Ranked(row[q]) /\ mine'[q] = Ranked(mine[q])
        BY DEF BeginPass
    <2>3. QueryInv(q)
        BY SafeParts
    <2>4. pc' = pc /\ final' = final /\ counted' = counted /\ old' = old
        BY DEF BeginPass
    <2> QED
        BY <2>1, <2>2, <2>3, <2>4, RankedType, QueryKept
<1>2. ASSUME NEW h \in Gateway, h # g PROVE PassInv(h)'
    <2>1. PassInv(h)
        BY SafeParts
    <2>2. gpc'[h] = gpc[h] /\ todo'[h] = todo[h] /\ cur'[h] = cur[h]
        BY <1>0, <1>2 DEF PassTypes, BeginPass, GoesOn
    <2>3. \A q \in Query : seen[h][q] \in Row /\ seen'[h][q] = Ranked(seen[h][q])
        BY <1>0, <1>2 DEF PassTypes, BeginPass
    <2>4. \A q \in Query : seen'[h][q].status = seen[h][q].status /\ seen'[h][q].usage = seen[h][q].usage
        BY <2>3, RankedType
    <2>5. todo[h] \subseteq Query
        BY <1>0 DEF PassTypes
    <2>6. gpc[h] \in {"claiming", "deferring"} => cur[h] \in Query
        BY <1>0 DEF PassTypes, PassShape
    <2>7. old' = old
        BY DEF BeginPass
    <2> QED
        BY <2>1, <2>2, <2>4, <2>5, <2>6, <2>7 DEF PassInv
<1>3. PassInv(g)'
    <2>1. gpc'[g] = "recovering" /\ todo'[g] = Page(Stale)
        BY <1>0 DEF PassTypes, BeginPass, GoesOn
    <2>2. ASSUME NEW q \in todo'[g] PROVE q \in old' /\ seen'[g][q].status = "processing"
        <3>1. q \in Query /\ q \in Page(Stale) /\ q \in old /\ row[q].status = "processing"
            BY <1>0, <2>1, <2>2 DEF Page, Stale, RowTypes
        <3>2. row[q] \in Row
            BY <1>0, <3>1 DEF RowTypes
        <3>3. seen'[g][q] = Ranked(row[q]) /\ old' = old
            BY <3>1 DEF BeginPass
        <3> QED
            BY <3>1, <3>2, <3>3, RankedType
    <2> QED
        BY <2>1, <2>2 DEF PassInv
<1> QED
    BY <1>1, <1>2, <1>3, SafePartsNext

\* The other steps of a pass write at most one row.
LEMMA PassSafe ==
    ASSUME TypeOK, SafeInv, NEW g \in Gateway, PassStep(g) \/ PassFails(g)
    PROVE  SafeInv'
<1>0. RowTypes /\ PassTypes
    BY TypeParts
<1>1. (\A p \in Query : QueryInv(p)) /\ (\A h \in Gateway : PassInv(h))
    BY SafeParts
<1> USE DEF GoesOn, PassPC
<1>2. CASE BeginPass(g)
    BY <1>2, BeginPassSafe
<1>3. ASSUME NEW h \in Gateway, h # g, ~BeginPass(g) PROVE PassInv(h)'
    <2>1. /\ gpc'[h] = gpc[h] /\ todo'[h] = todo[h] /\ cur'[h] = cur[h] /\ seen'[h] = seen[h]
          /\ old' = old
        BY <1>0, <1>3 DEF PassTypes, PassStep, PassFails, SelectPending, PassClaim, Mark, Defer,
           EndPass, Recover, PassAccount
    <2> QED
        BY <1>1, <2>1 DEF PassInv
<1>4. ASSUME UNCHANGED <<row, final, counted, old, requestVars>> PROVE \A p \in Query : QueryInv(p)'
    BY <1>1, <1>4 DEF QueryInv, requestVars
<1>5. CASE SelectPending(g)
    <2>1. PassInv(g)'
        BY <1>0, <1>5 DEF PassTypes, PassInv, SelectPending
    <2> QED
        BY <1>3, <1>4, <1>5, <2>1, <1>2, SafePartsNext DEF SelectPending
<1>6. ASSUME NEW q \in todo[g], Recover(g, q) PROVE SafeInv'
    <2>1. q \in Query
        BY <1>0 DEF PassTypes
    <2>2. seen[g][q].status = "processing" /\ q \in old /\ PassInv(g) /\ QueryInv(q)
        BY <1>1, <1>6, <2>1 DEF PassInv, Recover
    <2>3. PassInv(g)'
        BY <1>0, <1>6, <2>1, <2>2 DEF PassTypes, PassInv, Recover
    <2>4. ASSUME NEW p \in Query, p # q PROVE QueryInv(p)'
        <3>1. row'[p] = row[p] /\ final'[p] = final[p] /\ counted' = counted /\ old' = old
              /\ pc' = pc /\ mine' = mine
            BY <1>0, <1>6, <2>4 DEF RowTypes, Recover, Writes, Answers, requestVars
        <3> QED
            BY <1>1, <3>1, QueryKept
    <2>5. counted' = counted /\ old' = old /\ pc' = pc /\ mine' = mine
        BY <1>6 DEF Recover, requestVars
    <2>6. ASSUME row[q] = seen[g][q] PROVE QueryInv(q)'
        <3>1. row[q].status = "processing" /\ row[q].usage = "none"
            BY <1>0, <2>1, <2>2, <2>6 DEF QueryInv, RowTypes, Row
        <3>2. pc[q] \notin Unfinished /\ pc[q] # "idle" /\ counted[q] = 0
            BY <2>2, <3>1 DEF QueryInv
        <3>3. Writes(q, "failed", "none") /\ Answers(q, "failed")
            BY <1>6, <2>6 DEF Recover
        <3>4. row'[q].status = "failed" /\ row'[q].usage = "none"
            BY <1>0, <2>1, <3>3 DEF RowTypes, Row, Writes
        <3>5. final'[q] = "failed"
            BY <1>0, <2>1, <3>3 DEF RowTypes, Answers
        <3> QED
            BY <2>2, <2>5, <3>2, <3>4, <3>5 DEF QueryInv, Unfinished
    <2>7. QueryInv(q)'
        <3>1. CASE row' = row /\ final' = final
            BY <1>1, <2>1, <2>5, <3>1, QueryKept
        <3> QED
            BY <1>6, <2>6, <3>1 DEF Recover
    <2> QED
        BY <1>2, <1>3, <2>3, <2>4, <2>7, SafePartsNext
<1>7. ASSUME NEW q \in todo[g], PassAccount(g, q) PROVE SafeInv'
    <2>1. q \in Query
        BY <1>0 DEF PassTypes
    <2>2. PassInv(g)'
        BY <1>0, <1>7, <2>1 DEF PassTypes, PassInv, PassAccount, CanAccount
    <2> QED
        BY <1>2, <1>3, <1>4, <1>7, <2>2, SafePartsNext DEF PassAccount
<1>8. CASE PassClaim(g)
    <2>0. PICK q \in Query : q = cur[g]
        BY <1>0, <1>8 DEF PassTypes, PassShape, PassClaim
    <2>1. seen[g][q].usage = "pending" /\ QueryInv(q)
        BY <1>0, <1>1, <1>8, <2>0 DEF PassTypes, PassShape, PassInv, PassClaim
    <2>2. PassInv(g)'
        BY <1>0, <1>8 DEF PassTypes, PassInv, PassClaim
    <2>3. CASE UNCHANGED <<row, counted>>
        BY <1>2, <1>3, <1>4, <1>8, <2>2, <2>3, SafePartsNext DEF PassClaim
    <2>4. CASE row[q] = seen[g][q] /\ Record(q)
        <3>1. final' = final /\ old' = old /\ pc' = pc /\ mine' = mine
            BY <1>8 DEF PassClaim, requestVars
        <3>2. QueryInv(q)'
            <4>1. /\ row[q].usage = "pending" /\ row[q].status = "completed"
                  /\ counted[q] = 0
                BY <2>1, <2>4 DEF QueryInv
            <4>2. /\ row'[q].usage = "recorded" /\ row'[q].status = "completed"
                  /\ counted'[q] = 1
                BY <1>0, <2>1, <2>4, <4>1 DEF RowTypes, Row, Record
            <4> QED
                BY <2>1, <3>1, <4>1, <4>2 DEF QueryInv, Unfinished
        <3>3. ASSUME NEW p \in Query, p # q PROVE QueryInv(p)'
            <4>1. row'[p] = row[p] /\ counted'[p] = counted[p]
                BY <1>0, <2>4, <3>3 DEF RowTypes, Record
            <4> QED
                BY <1>1, <3>1, <4>1, QueryKept
        <3> QED
            BY <1>2, <1>3, <2>2, <3>2, <3>3, SafePartsNext
    <2> QED
        BY <1>8, <2>0, <2>3, <2>4 DEF PassClaim
<1>9. CASE Mark(g)
    <2>1. cur[g] \in Query
        BY <1>0, <1>9 DEF PassTypes, PassShape, Mark
    <2>2. PassInv(g)'
        BY <1>0, <1>9, <2>1 DEF PassTypes, PassInv, Mark
    <2> QED
        BY <1>2, <1>3, <1>4, <1>9, <2>2, SafePartsNext DEF Mark
<1>10. CASE Defer(g)
    <2>1. cur[g] \in Query
        BY <1>0, <1>10 DEF PassTypes, PassShape, Defer
    <2>2. PassInv(g)'
        BY <1>0, <1>10 DEF PassTypes, PassInv, Defer
    <2>3. ASSUME NEW p \in Query PROVE QueryInv(p)'
        <3>1. row'[p].status = row[p].status /\ row'[p].usage = row[p].usage
            <4>1. CASE row' = [row EXCEPT ![cur[g]].attempted = now[g]]
                BY <1>0, <2>1, <4>1 DEF RowTypes, Row
            <4>2. CASE row' = row
                BY <4>2
            <4> QED
                BY <1>10, <4>1, <4>2 DEF Defer
        <3> QED
            BY <1>1, <1>10, <3>1, QueryKept DEF Defer, requestVars
    <2> QED
        BY <1>2, <1>3, <2>2, <2>3, SafePartsNext
<1>11. CASE EndPass(g)
    <2>1. PassInv(g)'
        BY <1>0, <1>11 DEF PassTypes, PassInv, EndPass
    <2> QED
        BY <1>2, <1>3, <1>4, <1>11, <2>1, SafePartsNext DEF EndPass
<1>12. CASE PassFails(g)
    <2>1. PassInv(g)'
        BY <1>0, <1>12 DEF PassTypes, PassInv, PassFails
    <2> QED
        BY <1>2, <1>3, <1>4, <1>12, <2>1, SafePartsNext DEF PassFails
<1> QED
    BY <1>2, <1>5, <1>6, <1>7, <1>8, <1>9, <1>10, <1>11, <1>12 DEF PassStep

-----------------------------------------------------------------------------
\* Every step preserves the invariant.
LEMMA InvStep == IInv /\ [Next]_vars => IInv'
<1> SUFFICES ASSUME IInv, [Next]_vars PROVE IInv'
    OBVIOUS
<1>1. TypeOK /\ SafeInv
    BY DEF IInv, SafeInv
<1>2. TypeOK'
    BY <1>1, TypeStep
<1>3. ASSUME UNCHANGED vars PROVE SafeInv'
    <2>1. \A q \in Query : QueryInv(q)'
        BY <1>1, <1>3, SafeParts DEF vars, requestVars, QueryInv
    <2>2. \A g \in Gateway : PassInv(g)'
        BY <1>1, <1>3, SafeParts DEF vars, gatewayVars, PassInv
    <2> QED
        BY <2>1, <2>2, SafePartsNext
<1>4. ASSUME Next PROVE SafeInv'
    BY <1>1, <1>4, RequestSafe, PassSafe DEF Next
<1>5. SafeInv'
    BY <1>3, <1>4
<1> QED
    BY <1>2, <1>5 DEF IInv, SafeInv

\* The invariant holds in every reachable state (the whole of QueryAccounting).
THEOREM Invariance == Spec => []IInv
BY InitIInv, InvStep, PTL DEF Spec

\* Every variable keeps its type.
THEOREM TypeCorrect == Spec => []TypeOK
<1>1. IInv => TypeOK
    BY DEF IInv
<1> QED
    BY <1>1, Invariance, PTL

\* The usage of a query is added to the totals once and exactly when its row is
\* marked, whichever of the requests and passes account it (account_query).
THEOREM UsageIsCountedOnce == Spec => []CountedOnce
<1>1. IInv => CountedOnce
    BY DEF IInv
<1> QED
    BY <1>1, Invariance, PTL

\* Only completed generations are counted, whatever is recovered as failed.
THEOREM OnlyCompletedIsCounted == Spec => []CompletedIsCounted
<1>1. IInv => CompletedIsCounted
    BY DEF IInv
<1> QED
    BY <1>1, Invariance, PTL

\* Row and final response of a settled query agree (maintain_queries and the
\* finally blocks of the endpoints).
THEOREM AnswersAgree == Spec => []AnswerAgrees
<1>1. IInv => AnswerAgrees
    BY DEF IInv
<1> QED
    BY <1>1, Invariance, PTL

-----------------------------------------------------------------------------
\* A query whose outcome is written.
Settled(q) == row[q].status \in {"completed", "failed"}

\* The outcome of a query is written once.
LEMMA StatusKept ==
    ASSUME IInv, [Next]_vars, NEW q \in Query, Settled(q)
    PROVE  row'[q].status = row[q].status
<1>0. RowTypes /\ PassTypes /\ row[q] \in Row
    BY TypeParts DEF IInv, RowTypes
<1>1. (\A p \in Query : QueryInv(p)) /\ (\A g \in Gateway : PassInv(g))
    BY SafeParts DEF IInv, SafeInv
<1>2. pc[q] \notin Unfinished /\ pc[q] # "idle"
    BY <1>1 DEF QueryInv, Settled
<1>3. ASSUME NEW p \in Query, Submit(p) \/ RequestStep(p) \/ Age(p)
      PROVE  row'[q].status = row[q].status
    <2>1. CASE p # q
        BY <1>0, <1>3, <2>1 DEF RowTypes, Submit, RequestStep, Age, SaveFinal, Abort, Finish,
           FinishGenerate, FinishFailed, Account, Claim, Crash, Writes, Record
    <2>2. CASE p = q
        <3>1. Account(q) \/ Claim(q) \/ Crash(q) \/ Age(q)
            BY <1>2, <1>3, <2>2 DEF Unfinished, Submit, RequestStep, SaveFinal, Abort, Finish,
               FinishGenerate, FinishFailed
        <3> QED
            BY <1>0, <3>1 DEF RowTypes, Row, Account, Claim, Crash, Age, Record
    <2> QED
        BY <2>1, <2>2
<1>4. ASSUME NEW g \in Gateway, PassStep(g) \/ PassFails(g)
      PROVE  row'[q].status = row[q].status
    <2>1. CASE BeginPass(g)
        BY <1>0, <2>1, RankedType DEF BeginPass
    <2>2. ASSUME NEW p \in todo[g], Recover(g, p) PROVE row'[q].status = row[q].status
        <3>1. seen[g][p].status = "processing"
            BY <1>1, <2>2 DEF PassInv, Recover
        <3>2. CASE row' = row
            BY <3>2
        <3>3. CASE row[p] = seen[g][p] /\ Writes(p, "failed", "none")
            <4>1. p # q
                BY <3>1, <3>3 DEF Settled
            <4> QED
                BY <1>0, <3>3, <4>1 DEF RowTypes, Writes
        <3> QED
            BY <2>2, <3>2, <3>3 DEF Recover
    <2>3. CASE PassClaim(g)
        BY <1>0, <2>3 DEF RowTypes, Row, PassClaim, Record
    <2>4. CASE Defer(g)
        <3>1. CASE row' = [row EXCEPT ![cur[g]].attempted = now[g]]
            BY <1>0, <3>1 DEF RowTypes, Row
        <3>2. CASE row' = row
            BY <3>2
        <3> QED
            BY <2>4, <3>1, <3>2 DEF Defer
    <2>5. CASE \/ SelectPending(g) \/ Mark(g) \/ EndPass(g) \/ PassFails(g)
               \/ \E p \in todo[g] : PassAccount(g, p)
        BY <2>5 DEF SelectPending, Mark, EndPass, PassFails, PassAccount
    <2> QED
        BY <1>4, <2>1, <2>2, <2>3, <2>4, <2>5 DEF PassStep
<1>5. CASE UNCHANGED vars
    BY <1>5 DEF vars
<1> QED
    BY <1>3, <1>4, <1>5 DEF Next

\* What a query ended as, it stays: no pass fails what a request completed, no
\* request completes what a pass gave up (maintain_queries, the finally blocks).
THEOREM SettledStaysSettled == Spec => SettledIsFinal
<1> DEFINE Kept == \A q \in Query : row[q].status \in {"completed", "failed"} =>
                      row'[q].status = row[q].status
<1>1. IInv /\ [Next]_vars => Kept
    BY StatusKept DEF Settled
<1>2. IInv /\ [Next]_vars => [Kept]_vars
    BY <1>1
<1> QED
    BY <1>2, Invariance, PTL DEF Spec, SettledIsFinal

=============================================================================
