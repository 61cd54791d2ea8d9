-------------------------- MODULE MaintenanceProofs -------------------------
(***************************************************************************)
(* Proofs about what must be kept in agreement: jobs and their workers     *)
(* (TTSRecovery), objects and rows of the blog (BlogMedia) and of the      *)
(* stock media (MediaLibrary), for any constants.                          *)
(***************************************************************************)
EXTENDS TTSRecovery, BlogMedia, MediaLibrary, FiniteSetTheorems, SequenceTheorems, TLAPS

\* The sets of a process are finite and within the pool's bound.
PoolInv ==
    \A g \in Gateway :
        /\ IsFiniteSet(workers[g]) /\ IsFiniteSet(claimed[g]) /\ IsFiniteSet(rows[g])
        /\ Cardinality(workers[g]) + Cardinality(claimed[g]) + Cardinality(rows[g]) <= 2

\* A worker serves a claim that was made.
ClaimInv ==
    \A g \in Gateway : \A w \in workers[g] \cup claimed[g] : w[2] <= claim[w[1]]

\* The inductive invariant of the recovery.
RecoveryInv == TypeOK /\ PoolInv /\ ClaimInv /\ ServedOnce

-----------------------------------------------------------------------------
\* The initial states satisfy the invariant (maintenance_loop starts empty).
LEMMA RecoveryInitInv == Init => RecoveryInv
BY FS_EmptySet, MaxFaultsAssumption
   DEF Init, RecoveryInv, TypeOK, PoolInv, ClaimInv, ServedOnce

\* Types are preserved, and a process outside a pass holds no claims and no rows.
LEMMA TypeStep == TypeOK /\ [Next]_vars => TypeOK'
<1> SUFFICES ASSUME TypeOK, [Next]_vars PROVE TypeOK'
  OBVIOUS
<1> USE DEF TypeOK, Worker
<1>1. ASSUME NEW g \in Gateway, PassStep(g) PROVE TypeOK'
  <2>1. CASE Select(g)
    BY <2>1 DEF Select
  <2>2. CASE Start(g)
    BY <2>2 DEF Start
  <2>3. ASSUME NEW j \in rows[g], Refuse(g, j) PROVE TypeOK'
    BY <2>3 DEF Refuse, NextRow
  <2>4. ASSUME NEW j \in rows[g], TakeRow(g, j) PROVE TypeOK'
    <3>1. j \in Job /\ claim[j] + 1 \in Nat
      OBVIOUS
    <3>2. CASE row[j] = "expired"
      BY <2>4, <3>1, <3>2 DEF TakeRow, NextRow
    <3>3. CASE row[j] # "expired"
      BY <2>4, <3>1, <3>3 DEF TakeRow, NextRow
    <3> QED BY <3>2, <3>3
  <2> QED BY <1>1, <2>1, <2>2, <2>3, <2>4 DEF PassStep
<1>2. ASSUME NEW g \in Gateway, PassFails(g) \/ Crash(g) PROVE TypeOK'
  BY <1>2, MaxFaultsAssumption DEF PassFails, Crash, Fault
<1>3. ASSUME NEW g \in Gateway, NEW w \in workers[g], Finish(g, w) \/ Vanish(g, w)
      PROVE TypeOK'
  BY <1>3, MaxFaultsAssumption DEF Finish, Vanish, Fault
<1>4. ASSUME NEW j \in Job, Expire(j) \/ SettleElsewhere(j) \/ RetryElsewhere(j)
      PROVE TypeOK'
  BY <1>4, MaxFaultsAssumption DEF Expire, SettleElsewhere, RetryElsewhere, Fault
<1>5. CASE UNCHANGED vars
  BY <1>5 DEF vars
<1> QED BY <1>1, <1>2, <1>3, <1>4, <1>5 DEF Next

-----------------------------------------------------------------------------
\* The bound of the pool survives every step: a pass selects no more rows than
\* there is room, a row becomes at most one claim, a claim one worker.
LEMMA PoolStep == TypeOK /\ PoolInv /\ [Next]_vars => PoolInv'
<1> SUFFICES ASSUME TypeOK, PoolInv, [Next]_vars PROVE PoolInv'
  OBVIOUS
<1> DEFINE Sets(W, C, R) ==
      /\ IsFiniteSet(W) /\ IsFiniteSet(C) /\ IsFiniteSet(R)
      /\ Cardinality(W) + Cardinality(C) + Cardinality(R) <= 2
<1>0. \A g \in Gateway : Sets(workers[g], claimed[g], rows[g])
  BY DEF PoolInv
<1>a. ASSUME \A g \in Gateway : Sets(workers'[g], claimed'[g], rows'[g])
      PROVE PoolInv'
  BY <1>a DEF PoolInv
<1>b. Cardinality({}) = 0 /\ IsFiniteSet({})
  BY FS_EmptySet
<1>c. \A S : IsFiniteSet(S) => Cardinality(S) \in Nat
  BY FS_CardinalityType
<1>d. ASSUME NEW W, NEW C, NEW R, NEW x, Sets(W, C, R)
      PROVE  /\ x \in W => Sets(W \ {x}, C, R)
             /\ Sets(W, C, R \ {x})
             /\ x \in R => \A y : Sets(W, C \cup {y}, R \ {x})
  <2>0. IsFiniteSet(W) /\ IsFiniteSet(C) /\ IsFiniteSet(R)
    BY <1>d
  <2>1. /\ IsFiniteSet(W \ {x})
        /\ x \in W => Cardinality(W \ {x}) = Cardinality(W) - 1
    BY <2>0, FS_RemoveElement
  <2>2. /\ IsFiniteSet(R \ {x})
        /\ x \in R => Cardinality(R \ {x}) = Cardinality(R) - 1
        /\ x \notin R => Cardinality(R \ {x}) = Cardinality(R)
    BY <2>0, FS_RemoveElement
  <2>3. ASSUME NEW y
        PROVE  /\ IsFiniteSet(C \cup {y})
               /\ \/ Cardinality(C \cup {y}) = Cardinality(C)
                  \/ Cardinality(C \cup {y}) = Cardinality(C) + 1
    BY <2>0, FS_AddElement
  <2>n. Cardinality(W) \in Nat /\ Cardinality(C) \in Nat /\ Cardinality(R) \in Nat
    BY <1>c, <2>0
  <2>b. Cardinality(W) + Cardinality(C) + Cardinality(R) <= 2
    BY <1>d
  <2>4. ASSUME x \in W PROVE Sets(W \ {x}, C, R)
    BY <2>0, <2>1, <2>n, <2>b, <2>4
  <2>5. Sets(W, C, R \ {x})
    BY <2>0, <2>2, <2>n, <2>b
  <2>6. ASSUME x \in R, NEW y PROVE Sets(W, C \cup {y}, R \ {x})
    <3>1. Cardinality(R \ {x}) = Cardinality(R) - 1
      BY <2>2, <2>6
    <3>c. Cardinality(C \cup {y}) = Cardinality(C)
          \/ Cardinality(C \cup {y}) = Cardinality(C) + 1
      BY <2>3
    <3>2. Cardinality(W) + Cardinality(C \cup {y}) + Cardinality(R \ {x}) <= 2
      BY <2>n, <2>b, <3>c, <3>1
    <3>3. IsFiniteSet(C \cup {y}) /\ IsFiniteSet(R \ {x})
      BY <2>2, <2>3
    <3> QED BY <2>0, <3>2, <3>3
  <2> QED BY <2>4, <2>5, <2>6
<1> HIDE DEF Sets
<1>1. ASSUME NEW g \in Gateway, Select(g) PROVE PoolInv'
  <2>1. PICK S \in SUBSET Job :
          OldestOf(S, Capacity(g)) /\ rows' = [rows EXCEPT ![g] = S]
    BY <1>1 DEF Select
  <2>2. IsFiniteSet(S)
    <3>1. IsFiniteSet(Job)
      BY FS_Interval, JAssumption DEF Job
    <3> QED BY <2>1, <3>1, FS_Subset
  <2>3. Cardinality(S) <= 2 - Cardinality(workers[g])
    BY <2>1 DEF OldestOf, Capacity
  <2>4. claimed[g] = {}
    BY <1>1 DEF Select, TypeOK
  <2>5. Sets(workers[g], {}, S)
    BY <1>0, <1>b, <1>c, <2>2, <2>3 DEF Sets
  <2>6. \A h \in Gateway : Sets(workers'[h], claimed'[h], rows'[h])
    BY <1>0, <1>1, <2>1, <2>4, <2>5 DEF Select, TypeOK
  <2> QED BY <1>a, <2>6
<1>2. ASSUME NEW g \in Gateway, Start(g) PROVE PoolInv'
  <2>1. /\ IsFiniteSet(workers[g] \cup claimed[g])
        /\ Cardinality(workers[g] \cup claimed[g]) <=
             Cardinality(workers[g]) + Cardinality(claimed[g])
    <3>1. IsFiniteSet(workers[g]) /\ IsFiniteSet(claimed[g])
      BY <1>0 DEF Sets
    <3>2. IsFiniteSet(workers[g] \cap claimed[g])
      BY <3>1, FS_Subset
    <3>3. Cardinality(workers[g] \cap claimed[g]) \in Nat
      BY <3>2, <1>c
    <3>4. /\ IsFiniteSet(workers[g] \cup claimed[g])
          /\ Cardinality(workers[g] \cup claimed[g]) =
               Cardinality(workers[g]) + Cardinality(claimed[g])
                 - Cardinality(workers[g] \cap claimed[g])
      BY <3>1, FS_Union
    <3>5. Cardinality(workers[g]) \in Nat /\ Cardinality(claimed[g]) \in Nat
      BY <3>1, <1>c
    <3> QED BY <3>3, <3>4, <3>5
  <2>2. Sets(workers[g] \cup claimed[g], {}, {})
    BY <1>0, <1>2, <1>b, <1>c, <2>1 DEF Sets, Start
  <2>3. \A h \in Gateway : Sets(workers'[h], claimed'[h], rows'[h])
    BY <1>0, <1>2, <2>2 DEF Start, TypeOK
  <2> QED BY <1>a, <2>3
<1>3. ASSUME NEW g \in Gateway, NEW j \in rows[g], Refuse(g, j) PROVE PoolInv'
  <2>1. Sets(workers[g], claimed[g], rows[g] \ {j})
    BY <1>0, <1>d
  <2>2. \A h \in Gateway : Sets(workers'[h], claimed'[h], rows'[h])
    BY <1>0, <1>3, <2>1 DEF Refuse, TypeOK
  <2> QED BY <1>a, <2>2
<1>4. ASSUME NEW g \in Gateway, NEW j \in rows[g], TakeRow(g, j) PROVE PoolInv'
  <2>1. Sets(workers[g], claimed[g], rows[g] \ {j})
    BY <1>0, <1>d
  <2>2. \A x : Sets(workers[g], claimed[g] \cup {x}, rows[g] \ {j})
    BY <1>0, <1>d
  <2>3. \A h \in Gateway : Sets(workers'[h], claimed'[h], rows'[h])
    <3>1. CASE row[j] = "expired"
      <4>1. /\ rows' = [rows EXCEPT ![g] = @ \ {j}]
            /\ claimed' = [claimed EXCEPT ![g] = @ \cup {<<j, claim[j] + 1>>}]
            /\ workers' = workers
        BY <1>4, <3>1 DEF TakeRow
      <4>2. Sets(workers'[g], claimed'[g], rows'[g])
        BY <2>2, <4>1 DEF TypeOK
      <4> QED BY <1>0, <4>1, <4>2 DEF TypeOK
    <3>2. CASE row[j] # "expired"
      BY <1>0, <1>4, <2>1, <3>2 DEF TakeRow, TypeOK
    <3> QED BY <3>1, <3>2
  <2> QED BY <1>a, <2>3
<1>5. ASSUME NEW g \in Gateway, PassFails(g) PROVE PoolInv'
  <2>1. Sets(workers[g], {}, {})
    BY <1>0, <1>b, <1>c DEF Sets
  <2>2. \A h \in Gateway : Sets(workers'[h], claimed'[h], rows'[h])
    BY <1>0, <1>5, <2>1 DEF PassFails, TypeOK
  <2> QED BY <1>a, <2>2
<1>6. ASSUME NEW g \in Gateway, Crash(g) PROVE PoolInv'
  <2>1. Sets({}, {}, {})
    BY <1>b DEF Sets
  <2>2. \A h \in Gateway : Sets(workers'[h], claimed'[h], rows'[h])
    BY <1>0, <1>6, <2>1 DEF Crash, TypeOK
  <2> QED BY <1>a, <2>2
<1>7. ASSUME NEW g \in Gateway, NEW w \in workers[g], Finish(g, w) \/ Vanish(g, w)
      PROVE PoolInv'
  <2>1. Sets(workers[g] \ {w}, claimed[g], rows[g])
    BY <1>0, <1>d
  <2>2. \A h \in Gateway : Sets(workers'[h], claimed'[h], rows'[h])
    BY <1>0, <1>7, <2>1 DEF Finish, Vanish, TypeOK
  <2> QED BY <1>a, <2>2
<1>8. ASSUME NEW j \in Job, Expire(j) \/ SettleElsewhere(j) \/ RetryElsewhere(j)
      PROVE PoolInv'
  BY <1>0, <1>8, <1>a DEF Expire, SettleElsewhere, RetryElsewhere
<1>9. CASE UNCHANGED vars
  BY <1>0, <1>9, <1>a DEF vars
<1> QED BY <1>1, <1>2, <1>3, <1>4, <1>5, <1>6, <1>7, <1>8, <1>9 DEF Next, PassStep

-----------------------------------------------------------------------------
\* A claim is numbered freshly by the update that installs it (claim_retry), so
\* it stays with the one process that made it.
LEMMA ClaimStep ==
  TypeOK /\ ClaimInv /\ ServedOnce /\ [Next]_vars => ClaimInv' /\ ServedOnce'
<1> SUFFICES ASSUME TypeOK, ClaimInv, ServedOnce, [Next]_vars
             PROVE ClaimInv' /\ ServedOnce'
  OBVIOUS
<1>0. \A g \in Gateway : \A w \in workers[g] \cup claimed[g] :
          w \in Worker /\ w[1] \in Job /\ w[2] \in Nat /\ claim[w[1]] \in Nat
  BY DEF TypeOK, Worker
<1> USE DEF ClaimInv, ServedOnce
<1>1. ASSUME NEW g \in Gateway, NEW j \in rows[g], TakeRow(g, j)
      PROVE ClaimInv' /\ ServedOnce'
  <2>1. CASE row[j] # "expired"
    BY <1>1, <2>1 DEF TakeRow
  <2>2. CASE row[j] = "expired"
    <3>1. j \in Job /\ claim[j] \in Nat
      BY DEF TypeOK
    <3>2. claim' = [claim EXCEPT ![j] = @ + 1] /\ workers' = workers
      BY <1>1, <2>2 DEF TakeRow
    <3>3. claimed' = [claimed EXCEPT ![g] = @ \cup {<<j, claim[j] + 1>>}]
      BY <1>1, <2>2 DEF TakeRow
    <3>4. \A k \in Job : claim[k] \in Nat /\ claim[k] <= claim'[k]
      BY <3>1, <3>2 DEF TypeOK
    <3>5. claim'[j] = claim[j] + 1
      BY <3>1, <3>2 DEF TypeOK
    <3>6. \A h \in Gateway : <<j, claim[j] + 1>> \notin workers[h] \cup claimed[h]
      BY <1>0, <3>1
    <3>7. \A h \in Gateway : claimed'[h] =
            IF h = g THEN claimed[g] \cup {<<j, claim[j] + 1>>} ELSE claimed[h]
      BY <3>3 DEF TypeOK
    <3>8. ClaimInv'
      BY <1>0, <3>1, <3>2, <3>4, <3>5, <3>7
    <3>9. ServedOnce'
      BY <3>2, <3>6, <3>7
    <3> QED BY <3>8, <3>9
  <2> QED BY <2>1, <2>2
<1>2. ASSUME NEW g \in Gateway, Start(g) PROVE ClaimInv' /\ ServedOnce'
  BY <1>2 DEF Start, TypeOK
<1>3. ASSUME NEW g \in Gateway, PassFails(g) \/ Crash(g) PROVE ClaimInv' /\ ServedOnce'
  BY <1>3 DEF PassFails, Crash, TypeOK
<1>4. ASSUME NEW g \in Gateway, NEW w \in workers[g], Finish(g, w) \/ Vanish(g, w)
      PROVE ClaimInv' /\ ServedOnce'
  BY <1>4 DEF Finish, Vanish, TypeOK
<1>5. ASSUME NEW j \in Job, RetryElsewhere(j) PROVE ClaimInv' /\ ServedOnce'
  <2>1. \A k \in Job : claim[k] \in Nat /\ claim[k] <= claim'[k]
    BY <1>5 DEF RetryElsewhere, TypeOK
  <2>2. workers' = workers /\ claimed' = claimed /\ claim' \in [Job -> Nat]
    BY <1>5 DEF RetryElsewhere, TypeOK
  <2> QED BY <1>0, <2>1, <2>2
<1>6. ASSUME NEW j \in Job, Expire(j) \/ SettleElsewhere(j)
      PROVE ClaimInv' /\ ServedOnce'
  BY <1>6 DEF Expire, SettleElsewhere
<1>7. ASSUME NEW g \in Gateway, \/ Select(g)
                                \/ \E j \in rows[g] : Refuse(g, j)
      PROVE ClaimInv' /\ ServedOnce'
  BY <1>7 DEF Select, Refuse
<1>8. CASE UNCHANGED vars
  BY <1>8 DEF vars
<1> QED BY <1>1, <1>2, <1>3, <1>4, <1>5, <1>6, <1>7, <1>8 DEF Next, PassStep

-----------------------------------------------------------------------------
\* The invariant holds in every reachable state.
THEOREM RecoveryInvariance == Spec => []RecoveryInv
<1>1. Init => RecoveryInv
  BY RecoveryInitInv
<1>2. RecoveryInv /\ [Next]_vars => RecoveryInv'
  BY TypeStep, PoolStep, ClaimStep DEF RecoveryInv
<1> QED BY <1>1, <1>2, PTL DEF Spec

\* Type correctness of the recovery loop.
THEOREM RecoveryTypeCorrect == Spec => []TypeOK
<1>1. RecoveryInv => TypeOK
  BY DEF RecoveryInv
<1> QED BY <1>1, RecoveryInvariance, PTL

\* "At most two recovery workers run at once" in every process (maintenance_loop).
THEOREM PoolsAreBounded == Spec => []PoolBounded
<1>1. RecoveryInv => PoolBounded
  BY DEF RecoveryInv, PoolInv, PoolBounded
<1> QED BY <1>1, RecoveryInvariance, PTL

\* No claim is served by two workers (recover_expired, claim_retry).
THEOREM ClaimsAreServedOnce == Spec => []ServedOnce
<1>1. RecoveryInv => ServedOnce
  BY DEF RecoveryInv
<1> QED BY <1>1, RecoveryInvariance, PTL

-----------------------------------------------------------------------------
(***************************************************************************)
(* BlogMedia.                                                              *)
(***************************************************************************)
\* Types of the state of uploads: what is in the bucket, and what an upload does.
Version == [id : Nat \ {0}, file : File, stale : BOOLEAN] \cup {Marker}

\* The places of an upload between its request and its answer.
Places == {"probe", "lock", "reuse", "put", "clean", "insert", "drop", "commit"}

\* An upload that works on an object.
Attempt == [at : Places, token : Token, file : File, id : Nat \ {0}, connected : BOOLEAN]

\* The types, with the shape of the bucket and of what works on it.
BlogMediaTypeOK ==
    /\ bucket \in [Token -> Seq(Version)]
    /\ asset \in [Token -> File \cup {NoFile}]
    /\ upload \in [Upload -> Attempt \cup {Gone, [at |-> "avatar"]}]
    /\ limbo \in [Token -> File \cup {NoFile}]
    /\ reconciler \in [token : Token, id : Nat \ {0}] \cup {Gone}
    /\ answers \subseteq [token : Token, file : File]
    /\ severed \subseteq Token
    /\ uploads \in 0 .. MaxUploads /\ losses \in 0 .. MaxLosses

\* The lock of a name, in whatever process, is held by one at most: an attempt under
\* the lock, a commit in limbo or the reconciliation.
Working == {u \in Upload : upload[u].at \in Places}

\* An upload holds the advisory lock of the name k.
Locking(u, k) == u \in Working /\ upload[u].at \in UnderLock /\ upload[u].token = k /\ upload[u].connected

\* The reconciler holds the lock of the name k.
Reconciling(k) == reconciler # Gone /\ reconciler.token = k

\* The advisory lock of a name has one holder: an upload, the reconciler, or the commit in doubt.
OneLockPerName ==
    \A k \in Token :
        /\ \A u, v \in Upload : Locking(u, k) /\ Locking(v, k) => u = v
        /\ limbo[k] # NoFile \/ Reconciling(k) => \A u \in Upload : ~Locking(u, k)
        /\ limbo[k] # NoFile => ~Reconciling(k)

\* Attempts and versions are numbered.
Numbered ==
    /\ \A u \in Working : upload[u].id <= uploads
    /\ \A u, v \in Working : u # v => upload[u].id # upload[v].id
    /\ \A k \in Token : \A i \in DOMAIN bucket[k] : bucket[k][i].id <= uploads

\* What is known under the lock of a name: whether it is registered, and once the
\* object has been put, that it is the newest version.
Puts(u, k) == u \in Working /\ upload[u].token = k /\ upload[u].at \in {"insert", "commit"} /\ upload[u].connected

\* What the holder of a lock has read of the row is still so.
UnderItsLock(k) ==
    /\ \A u \in Upload : Locking(u, k) => (asset[k] # NoFile <=> upload[u].at = "reuse")
    /\ limbo[k] # NoFile \/ Reconciling(k) => asset[k] = NoFile
    /\ \A u \in Working : upload[u].at \in {"reuse", "lock", "probe"} => upload[u].connected

\* An object that is, or may become, registered is not the version of an attempt
\* that still runs.
IsObject(k, f) == Visible(k) /\ Newest(k).file = f

\* No upload that runs wrote the newest version.
Settled(k) == \A u \in Working : upload[u].token = k => upload[u].id # Newest(k).id

\* What an upload, a commit in doubt or a row relies on is the newest version of its object.
ObjectOf(k) ==
    /\ \A u \in Upload : Puts(u, k) => IsObject(k, upload[u].file) /\ Newest(k).id = upload[u].id
    /\ limbo[k] # NoFile => IsObject(k, limbo[k]) /\ Settled(k)
    /\ asset[k] # NoFile => IsObject(k, asset[k]) /\ Settled(k)

\* The inductive invariant of the blog media.  Of a name whose lock was lost with its connection
\* nothing is promised but what its locks cover.
BlogMediaInv ==
    /\ BlogMediaTypeOK /\ OneLockPerName /\ Numbered
    /\ \A k \in Token : UnderItsLock(k)
    /\ \A k \in Token \ severed : ObjectOf(k)
    /\ AnsweredIsRegistered


\* A put makes the newest version of an object, and no other changes.
LEMMA Appended ==
    ASSUME BlogMediaTypeOK, NEW k \in Token, NEW v \in Version,
           bucket' = [bucket EXCEPT ![k] = Append(@, v)]
    PROVE  /\ bucket' \in [Token -> Seq(Version)]
           /\ Newest(k)' = v
           /\ \A j \in Token \ {k} : bucket'[j] = bucket[j] /\ Newest(j)' = Newest(j)
           /\ \A i \in DOMAIN bucket'[k] :
                   bucket'[k][i] = v \/ \E j \in DOMAIN bucket[k] : bucket'[k][i] = bucket[k][j]
<1>1. bucket[k] \in Seq(Version) /\ bucket'[k] = Append(bucket[k], v)
  BY DEF BlogMediaTypeOK
<1>2. bucket'[k] \in Seq(Version) /\ Len(bucket'[k]) = Len(bucket[k]) + 1 /\ bucket'[k][Len(bucket'[k])] = v
  BY <1>1, AppendProperties
<1>3. bucket'[k] # <<>>
  BY <1>1, AppendProperties
<1>4. \A i \in DOMAIN bucket'[k] :
          bucket'[k][i] = v \/ \E j \in DOMAIN bucket[k] : bucket'[k][i] = bucket[k][j]
  <2>1. \A i \in DOMAIN bucket'[k] : (i \in DOMAIN bucket[k] /\ bucket'[k][i] = bucket[k][i]) \/ bucket'[k][i] = v
    BY <1>1, <1>2, AppendProperties
  <2> QED BY <2>1
<1>5. \A j \in Token \ {k} : bucket'[j] = bucket[j]
  BY DEF BlogMediaTypeOK
<1>6. bucket' \in [Token -> Seq(Version)]
  BY <1>2 DEF BlogMediaTypeOK
<1> QED BY <1>2, <1>3, <1>4, <1>5, <1>6 DEF Newest

\* A sequence without its element at i.
LEMMA WithoutOne ==
    ASSUME NEW S, NEW s \in Seq(S), NEW i \in 1 .. Len(s)
    PROVE  LET t == SubSeq(s, 1, i - 1) \o SubSeq(s, i + 1, Len(s))
           IN /\ t \in Seq(S) /\ Len(t) = Len(s) - 1
              /\ \A n \in 1 .. Len(s) - 1 : t[n] = IF n < i THEN s[n] ELSE s[n + 1]
<1>1. Len(s) \in Nat /\ \A n \in 1 .. Len(s) : s[n] \in S
  OBVIOUS
<1>2. PICK p : p = SubSeq(s, 1, i - 1)
  OBVIOUS
<1>3. PICK q : q = SubSeq(s, i + 1, Len(s))
  OBVIOUS
<1>4. p \in Seq(S) /\ Len(p) = i - 1 /\ \A n \in 1 .. i - 1 : p[n] = s[n]
  BY <1>1, <1>2, SubSeqProperties
<1>5. q \in Seq(S) /\ Len(q) = Len(s) - i /\ \A n \in 1 .. Len(s) - i : q[n] = s[n + i]
  BY <1>1, <1>3, SubSeqProperties
<1>6. PICK t : t = p \o q
  OBVIOUS
<1>7. /\ t \in Seq(S) /\ Len(t) = Len(p) + Len(q)
      /\ \A n \in 1 .. Len(p) + Len(q) : t[n] = IF n <= Len(p) THEN p[n] ELSE q[n - Len(p)]
  BY <1>4, <1>5, <1>6, ConcatProperties
<1>8. Len(t) = Len(s) - 1
  BY <1>1, <1>4, <1>5, <1>7
<1>9. ASSUME NEW n \in 1 .. Len(s) - 1 PROVE t[n] = IF n < i THEN s[n] ELSE s[n + 1]
  <2>1. t[n] = IF n <= Len(p) THEN p[n] ELSE q[n - Len(p)]
    BY <1>1, <1>4, <1>5, <1>7
  <2>2. CASE n < i
    BY <1>1, <1>4, <2>1, <2>2
  <2>3. CASE n >= i
    <3>1. n - Len(p) \in 1 .. Len(s) - i /\ n - Len(p) + i = n + 1 /\ ~(n <= Len(p))
      BY <1>1, <1>4, <2>3
    <3> QED BY <1>1, <1>4, <1>5, <2>1, <2>3, <3>1
  <2> QED BY <1>1, <2>2, <2>3
<1> QED BY <1>2, <1>3, <1>6, <1>7, <1>8, <1>9

\* A delete that names another version than the newest leaves the newest.
LEMMA Removed ==
    ASSUME BlogMediaTypeOK, NEW k \in Token, NEW id \in Nat \ {0}, bucket' = Without(k, id)
    PROVE  /\ bucket' \in [Token -> Seq(Version)]
           /\ Newest(k).id # id => Newest(k)' = Newest(k)
           /\ \A j \in Token \ {k} : bucket'[j] = bucket[j] /\ Newest(j)' = Newest(j)
           /\ \A i \in DOMAIN bucket'[k] : \E j \in DOMAIN bucket[k] : bucket'[k][i] = bucket[k][j]
<1> DEFINE s == bucket[k]
<1>1. s \in Seq(Version)
  BY DEF BlogMediaTypeOK
<1>2. \A j \in Token \ {k} : bucket'[j] = bucket[j]
  BY DEF BlogMediaTypeOK, Without
<1>3. CASE ~\E i \in DOMAIN s : s[i].id = id
  <2>1. bucket' = [bucket EXCEPT ![k] = s]
    BY <1>3 DEF Without
  <2>2. bucket' = bucket
    BY <2>1 DEF BlogMediaTypeOK
  <2> QED BY <2>2 DEF BlogMediaTypeOK, Newest
<1>4. CASE \E i \in DOMAIN s : s[i].id = id
  <2>1. PICK i \in DOMAIN s : /\ s[i].id = id
                              /\ bucket'[k] = SubSeq(s, 1, i - 1) \o SubSeq(s, i + 1, Len(s))
    <3>1. PICK i : i = CHOOSE n \in DOMAIN s : s[n].id = id
      OBVIOUS
    <3>2. i \in DOMAIN s /\ s[i].id = id
      BY <1>4, <3>1
    <3>3. bucket'[k] = SubSeq(s, 1, i - 1) \o SubSeq(s, i + 1, Len(s))
      BY <1>4, <3>1 DEF Without, BlogMediaTypeOK
    <3> QED BY <3>2, <3>3
  <2> DEFINE t == SubSeq(s, 1, i - 1) \o SubSeq(s, i + 1, Len(s))
  <2>2. i \in 1 .. Len(s)
    <3>1. DOMAIN s = 1 .. Len(s)
      BY <1>1
    <3> QED BY <2>1, <3>1
  <2>3. /\ t \in Seq(Version) /\ Len(t) = Len(s) - 1
        /\ \A n \in 1 .. Len(s) - 1 : t[n] = IF n < i THEN s[n] ELSE s[n + 1]
    BY <1>1, <2>2, WithoutOne
  <2>4. bucket'[k] = t
    BY <2>1
  <2> HIDE DEF t
  <2>5. bucket' \in [Token -> Seq(Version)]
    <3>1. bucket' = [j \in Token |-> bucket'[j]]
      <4>1. DOMAIN bucket' = Token
        BY DEF Without, BlogMediaTypeOK
      <4> QED BY <4>1 DEF Without
    <3>2. \A j \in Token : bucket'[j] \in Seq(Version)
      BY <1>2, <2>3, <2>4 DEF BlogMediaTypeOK
    <3> QED BY <3>1, <3>2
  <2>6. \A n \in DOMAIN t : \E j \in DOMAIN s : t[n] = s[j]
    <3> SUFFICES ASSUME NEW n \in DOMAIN t PROVE \E j \in DOMAIN s : t[n] = s[j]
      OBVIOUS
    <3>1. n \in 1 .. Len(s) - 1
      BY <2>3
    <3>2. n \in DOMAIN s /\ n + 1 \in DOMAIN s
      BY <2>2, <3>1
    <3> QED BY <2>3, <3>1, <3>2
  <2>7. ASSUME Newest(k).id # id PROVE Newest(k)' = Newest(k)
    <3>1. Newest(k) = s[Len(s)]
      BY <2>2 DEF Newest
    <3>2. i < Len(s)
      BY <2>1, <2>2, <2>7, <3>1
    <3>3. Len(t) = Len(s) - 1 /\ Len(t) \in 1 .. Len(s) - 1 /\ t # <<>>
      BY <2>2, <2>3, <3>2
    <3>4. t[Len(t)] = s[Len(s)]
      BY <2>2, <2>3, <3>2, <3>3
    <3> QED BY <2>4, <3>1, <3>3, <3>4 DEF Newest
  <2> QED BY <1>2, <2>4, <2>5, <2>6, <2>7 DEF Newest
<1> QED BY <1>3, <1>4

\* A day changes no version's number or file.
LEMMA Aged ==
    ASSUME BlogMediaTypeOK, NEW k \in Token, Age(k)
    PROVE  /\ bucket' \in [Token -> Seq(Version)]
           /\ Newest(k)'.id = Newest(k).id /\ (Visible(k) <=> Visible(k)')
           /\ Visible(k) => Newest(k)'.file = Newest(k).file
           /\ \A j \in Token \ {k} : bucket'[j] = bucket[j] /\ Newest(j)' = Newest(j)
           /\ \A i \in DOMAIN bucket'[k] : i \in DOMAIN bucket[k] /\ bucket'[k][i].id = bucket[k][i].id
<1> DEFINE s == bucket[k]
           t == [i \in DOMAIN s |-> IF s[i] = Marker THEN s[i] ELSE [s[i] EXCEPT !.stale = TRUE]]
<1>1. s \in Seq(Version) /\ bucket' = [bucket EXCEPT ![k] = t]
  BY DEF BlogMediaTypeOK, Age
<1>2. \A j \in Token \ {k} : bucket'[j] = bucket[j]
  BY <1>1 DEF BlogMediaTypeOK
<1>3. ASSUME NEW i \in DOMAIN s
      PROVE  /\ t[i] \in Version /\ t[i].id = s[i].id /\ (t[i] = Marker <=> s[i] = Marker)
             /\ s[i] # Marker => t[i].file = s[i].file
  <2>1. s[i] \in Version
    BY <1>1
  <2>2. CASE s[i] = Marker
    BY <2>2 DEF Version
  <2>3. CASE s[i] # Marker
    <3>1. s[i] \in [id : Nat \ {0}, file : File, stale : BOOLEAN] /\ t[i] = [s[i] EXCEPT !.stale = TRUE]
      BY <2>1, <2>3 DEF Version
    <3>2. t[i] \in [id : Nat \ {0}, file : File, stale : BOOLEAN] /\ t[i].id = s[i].id /\ t[i].file = s[i].file
      BY <3>1
    <3>3. t[i] # Marker
      BY <3>2 DEF Marker
    <3> QED BY <2>3, <3>2, <3>3 DEF Version
  <2> QED BY <2>2, <2>3
<1>4. t \in Seq(Version) /\ Len(t) = Len(s) /\ DOMAIN t = DOMAIN s
  <2>1. DOMAIN s = 1 .. Len(s) /\ Len(s) \in Nat
    BY <1>1
  <2>2. t \in [1 .. Len(s) -> Version]
    BY <1>3, <2>1
  <2> QED BY <2>1, <2>2, SeqDef
<1>5. bucket'[k] = t /\ bucket' \in [Token -> Seq(Version)]
  BY <1>1, <1>4 DEF BlogMediaTypeOK
<1>6. s # <<>> /\ t # <<>> /\ Newest(k) = s[Len(s)] /\ Newest(k)' = t[Len(s)] /\ Len(s) \in DOMAIN s
  <2>1. s # <<>>
    BY DEF Age, Visible, Newest
  <2>2. Len(s) \in 1 .. Len(s)
    BY <1>1, <2>1, EmptySeq
  <2>3. t # <<>>
    BY <1>4, <2>2
  <2> QED BY <1>1, <1>4, <1>5, <2>1, <2>2, <2>3 DEF Newest
<1> QED BY <1>2, <1>3, <1>4, <1>5, <1>6 DEF Newest, Visible

\* What is at one of the places is an attempt, not a free slot or an avatar.
LEMMA AttemptPlaces ==
    \A w \in Attempt \cup {Gone, [at |-> "avatar"]} : w.at \in Places <=> w \in Attempt
BY DEF Attempt, Places, Gone

\* Uploads are counted.
LEMMA Counted == BlogMediaTypeOK => uploads \in Nat
BY BlogBoundsAssumption DEF BlogMediaTypeOK

\* The newest version is one of those stored, or a marker.
LEMMA NewestIs ==
    ASSUME BlogMediaTypeOK, NEW k \in Token
    PROVE  /\ Newest(k) \in Version
           /\ Newest(k) = Marker \/ \E i \in DOMAIN bucket[k] : Newest(k) = bucket[k][i]
<1>1. bucket[k] \in Seq(Version)
  BY DEF BlogMediaTypeOK
<1>2. CASE bucket[k] = <<>>
  BY <1>2 DEF Newest, Version
<1>3. CASE bucket[k] # <<>>
  <2>1. Len(bucket[k]) \in DOMAIN bucket[k]
    BY <1>1, <1>3, EmptySeq
  <2> QED BY <1>1, <1>3, <2>1 DEF Newest
<1> QED BY <1>2, <1>3

\* A step of one attempt that touches no object, row or lock but gives its own lock back.
LEMMA AttemptStep ==
    ASSUME BlogMediaInv, NEW u \in Upload, NEW w \in Attempt \cup {Gone, [at |-> "avatar"]},
           upload' = [upload EXCEPT ![u] = w], UNCHANGED <<bucket, asset, limbo, reconciler, uploads>>,
           severed' = severed, losses' \in 0 .. MaxLosses,
           answers' \subseteq [token : Token, file : File], AnsweredIsRegistered',
           w \in Attempt =>
               /\ u \in Working /\ w.token = upload[u].token /\ w.file = upload[u].file /\ w.id = upload[u].id
               /\ w.connected => upload[u].connected
               /\ w.at \in {"probe", "lock", "reuse"} => w.connected
               /\ w.at \in UnderLock /\ w.connected =>
                     Locking(u, w.token) /\ w.at # "reuse" /\ upload[u].at # "reuse"
               /\ w.at \in {"insert", "commit"} /\ w.connected => Puts(u, w.token)
    PROVE  BlogMediaInv'
<1>1. BlogMediaTypeOK /\ BlogMediaTypeOK'
  BY DEF BlogMediaInv, BlogMediaTypeOK
<1>2. \A v \in Upload : upload'[v] = IF v = u THEN w ELSE upload[v]
  BY <1>1 DEF BlogMediaTypeOK
<1>3. /\ \A v \in Upload : /\ v \in Working <=> upload[v] \in Attempt
                           /\ v \in Working' <=> upload'[v] \in Attempt
      /\ Working \subseteq Upload /\ Working' \subseteq Upload
  BY <1>1, AttemptPlaces DEF BlogMediaTypeOK, Working, Places
<1>4. \A k \in Token, v \in Upload : Locking(v, k)' => Locking(v, k) /\ (upload'[v].at = "reuse" <=> upload[v].at = "reuse")
  BY <1>2, <1>3 DEF Locking
<1>5. \A k \in Token, v \in Upload : Puts(v, k)' => Puts(v, k) /\ upload'[v].id = upload[v].id /\ upload'[v].file = upload[v].file
  BY <1>2, <1>3 DEF Puts
<1>6. \A k \in Token : Newest(k)' = Newest(k) /\ (Reconciling(k)' <=> Reconciling(k))
  BY DEF Newest, Reconciling
<1>7. OneLockPerName'
  BY <1>4, <1>6 DEF BlogMediaInv, OneLockPerName
<1>8. Numbered'
  BY <1>2, <1>3 DEF BlogMediaInv, Numbered
<1>9. ASSUME NEW k \in Token PROVE UnderItsLock(k)'
  <2>1. UnderItsLock(k)
    BY DEF BlogMediaInv
  <2> QED BY <1>2, <1>3, <1>4, <1>6, <2>1 DEF UnderItsLock
<1>10. ASSUME NEW k \in Token \ severed' PROVE ObjectOf(k)'
  <2>1. ObjectOf(k)
    BY DEF BlogMediaInv
  <2>2. Settled(k) => Settled(k)'
    BY <1>2, <1>3, <1>6 DEF Settled
  <2>3. \A f : IsObject(k, f) => IsObject(k, f)'
    BY <1>6 DEF IsObject, Visible
  <2> QED BY <1>5, <1>6, <2>1, <2>2, <2>3 DEF ObjectOf
<1> QED BY <1>1, <1>7, <1>8, <1>9, <1>10 DEF BlogMediaInv

\* A new attempt has a number of its own, and no lock.
LEMMA BeginUploadStep ==
    ASSUME BlogMediaInv, NEW u \in Upload, NEW t \in Token, NEW f \in File, BeginUpload(u, t, f)
    PROVE  BlogMediaInv'
<1>1. PICK w \in Attempt : w = [at |-> "probe", token |-> t, file |-> f, id |-> uploads + 1, connected |-> TRUE]
  <2>1. uploads \in Nat
    BY Counted DEF BlogMediaInv
  <2>2. [at |-> "probe", token |-> t, file |-> f, id |-> uploads + 1, connected |-> TRUE] \in Attempt
    BY <2>1 DEF Attempt, Places
  <2> QED BY <2>2
<1>2. /\ upload' = [upload EXCEPT ![u] = w] /\ uploads < MaxUploads /\ uploads' = uploads + 1
      /\ UNCHANGED <<bucket, asset, limbo, reconciler, answers, severed, losses>>
      /\ w.at = "probe" /\ w.id = uploads + 1 /\ w.connected /\ w.token = t
  BY <1>1 DEF BeginUpload
<1>3. BlogMediaTypeOK /\ BlogMediaTypeOK'
  BY <1>2, BlogBoundsAssumption DEF BlogMediaInv, BlogMediaTypeOK
<1>4. \A v \in Upload : upload'[v] = IF v = u THEN w ELSE upload[v]
  BY <1>2, <1>3 DEF BlogMediaTypeOK
<1>5. /\ \A v \in Upload : /\ v \in Working <=> upload[v] \in Attempt
                           /\ v \in Working' <=> upload'[v] \in Attempt
      /\ Working \subseteq Upload /\ Working' \subseteq Upload
  BY <1>3, AttemptPlaces DEF BlogMediaTypeOK, Working, Places
<1>6. \A k \in Token, v \in Upload : Locking(v, k)' => Locking(v, k) /\ upload'[v].at = upload[v].at
  BY <1>2, <1>4, <1>5 DEF Locking, UnderLock
<1>7. \A k \in Token, v \in Upload : Puts(v, k)' => Puts(v, k) /\ upload'[v] = upload[v]
  BY <1>2, <1>4, <1>5 DEF Puts
<1>8. \A k \in Token : Newest(k)' = Newest(k) /\ (Reconciling(k)' <=> Reconciling(k))
  BY <1>2 DEF Newest, Reconciling
<1>9. OneLockPerName'
  BY <1>2, <1>6, <1>8 DEF BlogMediaInv, OneLockPerName
<1>10. uploads \in Nat /\ \A v \in Working : upload[v].id \in Nat /\ upload[v].id <= uploads
  BY <1>3, <1>5, Counted DEF BlogMediaInv, Numbered, Attempt
<1>11. \A k \in Token : \A i \in DOMAIN bucket[k] : bucket[k][i].id \in Nat /\ bucket[k][i].id <= uploads
  BY <1>3 DEF BlogMediaInv, BlogMediaTypeOK, Numbered, Version, Marker
<1>12. Numbered'
  <2>1. \A v \in Working' : upload'[v].id <= uploads'
    BY <1>2, <1>4, <1>5, <1>10
  <2>2. \A v, x \in Working' : v # x => upload'[v].id # upload'[x].id
    BY <1>2, <1>4, <1>5, <1>10 DEF BlogMediaInv, Numbered
  <2>3. \A k \in Token : \A i \in DOMAIN bucket'[k] : bucket'[k][i].id <= uploads'
    BY <1>2, <1>10, <1>11
  <2> QED BY <2>1, <2>2, <2>3 DEF Numbered
<1>13. ASSUME NEW k \in Token PROVE UnderItsLock(k)'
  <2>1. UnderItsLock(k)
    BY DEF BlogMediaInv
  <2> QED BY <1>2, <1>4, <1>5, <1>6, <1>8, <2>1 DEF UnderItsLock
<1>14. ASSUME NEW k \in Token \ severed' PROVE ObjectOf(k)'
  <2>1. ObjectOf(k)
    BY <1>2 DEF BlogMediaInv
  <2>2. Newest(k).id \in Nat /\ Newest(k).id <= uploads
    BY <1>3, <1>10, <1>11, NewestIs DEF Marker
  <2>3. Settled(k) => Settled(k)'
    BY <1>2, <1>4, <1>5, <1>8, <1>10, <2>2 DEF Settled
  <2>4. \A g : IsObject(k, g) => IsObject(k, g)'
    BY <1>8 DEF IsObject, Visible
  <2> QED BY <1>2, <1>7, <1>8, <2>1, <2>3, <2>4 DEF ObjectOf
<1>15. AnsweredIsRegistered'
  BY <1>2 DEF BlogMediaInv, AnsweredIsRegistered
<1> QED BY <1>3, <1>9, <1>12, <1>13, <1>14, <1>15 DEF BlogMediaInv

\* What a step of one attempt leaves of the others.
OnlyMoves(u, w) ==
    /\ \A v \in Upload : upload'[v] = IF v = u THEN w ELSE upload[v]
    /\ Working \subseteq Upload /\ Working' \subseteq Upload
    /\ \A v \in Working : upload[v] \in Attempt
    /\ u \in Working' <=> w \in Attempt
    /\ \A v \in Upload \ {u} : /\ v \in Working' <=> v \in Working
                               /\ \A k \in Token : /\ Locking(v, k)' <=> Locking(v, k)
                                                   /\ Puts(v, k)' <=> Puts(v, k)
    /\ \A k \in Token : /\ Locking(u, k)' <=> /\ w \in Attempt /\ w.at \in UnderLock
                                              /\ w.token = k /\ w.connected
                        /\ Puts(u, k)' <=> /\ w \in Attempt /\ w.at \in {"insert", "commit"}
                                           /\ w.token = k /\ w.connected

\* One attempt moves, and no other does.
LEMMA Others ==
    ASSUME BlogMediaTypeOK, BlogMediaTypeOK', NEW u \in Upload,
           NEW w \in Attempt \cup {Gone, [at |-> "avatar"]}, upload' = [upload EXCEPT ![u] = w]
    PROVE  OnlyMoves(u, w)
<1>1. \A v \in Upload : upload'[v] = IF v = u THEN w ELSE upload[v]
  BY DEF BlogMediaTypeOK
<1>2. /\ \A v \in Upload : /\ v \in Working <=> upload[v] \in Attempt
                           /\ v \in Working' <=> upload'[v] \in Attempt
      /\ Working \subseteq Upload /\ Working' \subseteq Upload
  BY AttemptPlaces DEF BlogMediaTypeOK, Working, Places
<1>3. \A v \in Upload \ {u} : /\ v \in Working' <=> v \in Working
                              /\ \A k \in Token : /\ Locking(v, k)' <=> Locking(v, k)
                                                  /\ Puts(v, k)' <=> Puts(v, k)
  BY <1>1, <1>2 DEF Locking, Puts, UnderLock
<1>4. \A k \in Token : /\ Locking(u, k)' <=> /\ w \in Attempt /\ w.at \in UnderLock
                                             /\ w.token = k /\ w.connected
                       /\ Puts(u, k)' <=> /\ w \in Attempt /\ w.at \in {"insert", "commit"}
                                          /\ w.token = k /\ w.connected
  BY <1>1, <1>2 DEF Locking, Puts, UnderLock
<1> QED BY <1>1, <1>2, <1>3, <1>4 DEF OnlyMoves

\* Numbers stay what they are when nothing new begins.
LEMMA StillNumbered ==
    ASSUME BlogMediaInv, BlogMediaTypeOK', NEW u \in Upload,
           NEW w \in Attempt \cup {Gone, [at |-> "avatar"]}, upload' = [upload EXCEPT ![u] = w],
           w \in Attempt => u \in Working /\ w.id = upload[u].id, uploads' = uploads,
           \A k \in Token : \A i \in DOMAIN bucket'[k] : bucket'[k][i].id <= uploads
    PROVE  Numbered'
<1>1. BlogMediaTypeOK
  BY DEF BlogMediaInv
<1>2. \A v \in Working' : v \in Working /\ upload'[v].id = upload[v].id
  <2>1. OnlyMoves(u, w)
    BY <1>1, Others
  <2> QED BY <2>1 DEF OnlyMoves
<1> QED BY <1>2 DEF BlogMediaInv, Numbered

\* The lock is taken when nobody has it, and the lookup is made under it.
LEMMA LockStep == ASSUME BlogMediaInv, NEW u \in Upload, LockAndLookUp(u) PROVE BlogMediaInv'
<1>1. BlogMediaTypeOK /\ upload[u].at = "lock"
  BY DEF BlogMediaInv, LockAndLookUp
<1>2. upload[u] \in Attempt /\ u \in Working
  BY <1>1, AttemptPlaces DEF BlogMediaTypeOK, Working, Places
<1>3. PICK t \in Token : t = upload[u].token
  BY <1>2 DEF Attempt
<1>4. PICK w \in Attempt : /\ upload' = [upload EXCEPT ![u] = w]
                           /\ w.at = IF asset[t] = NoFile THEN "put" ELSE "reuse"
                           /\ w.token = t /\ w.id = upload[u].id /\ w.connected = upload[u].connected
  <2>1. PICK p \in {"put", "reuse"} : p = IF asset[t] = NoFile THEN "put" ELSE "reuse"
    OBVIOUS
  <2>2. [upload[u] EXCEPT !.at = p] \in Attempt
    BY <1>2 DEF Attempt, Places
  <2>3. upload' = [upload EXCEPT ![u] = [upload[u] EXCEPT !.at = p]]
    BY <1>1, <1>3, <2>1 DEF LockAndLookUp, MovesTo, BlogMediaTypeOK
  <2> QED BY <1>2, <1>3, <2>1, <2>2, <2>3 DEF Attempt
<1>5. UNCHANGED <<bucket, asset, limbo, reconciler, answers, severed, uploads, losses>>
  BY DEF LockAndLookUp
<1>6. BlogMediaTypeOK'
  BY <1>1, <1>4, <1>5 DEF BlogMediaTypeOK
<1>14. OnlyMoves(u, w)
  BY <1>1, <1>4, <1>6, Others
<1>7. /\ limbo[t] = NoFile /\ ~Reconciling(t)
      /\ \A v \in Upload : ~Locking(v, t)
  <2>1. ~LockedName(t)
    BY <1>3 DEF LockAndLookUp
  <2> QED BY <2>1 DEF LockedName, Locking, Reconciling, InSlot, Working, Gone, Places
<1>8. \A k \in Token : Newest(k)' = Newest(k) /\ (Reconciling(k)' <=> Reconciling(k))
  BY <1>5 DEF Newest, Reconciling
<1>9. OneLockPerName'
  BY <1>1, <1>4, <1>5, <1>6, <1>7, <1>8, <1>14 DEF OnlyMoves, BlogMediaInv, OneLockPerName
<1>10. Numbered'
  <2>1. \A k \in Token : \A i \in DOMAIN bucket'[k] : bucket'[k][i].id <= uploads
    BY <1>5 DEF BlogMediaInv, Numbered
  <2> QED BY <1>2, <1>4, <1>5, <1>6, <2>1, StillNumbered
<1>11. ASSUME NEW k \in Token PROVE UnderItsLock(k)'
  <2>1. UnderItsLock(k)
    BY DEF BlogMediaInv
  <2>2. upload[u].connected
    BY <1>1, <1>2, <2>1 DEF UnderItsLock
  <2>3. \A v \in Upload : Locking(v, k)' => (asset'[k] # NoFile <=> upload'[v].at = "reuse")
    BY <1>1, <1>4, <1>5, <1>6, <2>1, <1>14 DEF OnlyMoves, UnderItsLock
  <2>4. \A v \in Working' : upload'[v].at \in {"reuse", "lock", "probe"} => upload'[v].connected
    <3> SUFFICES ASSUME NEW v \in Working', upload'[v].at \in {"reuse", "lock", "probe"}
                 PROVE  upload'[v].connected
      OBVIOUS
    <3>1. CASE v = u
      BY <1>1, <1>2, <1>4, <2>2, <3>1 DEF BlogMediaTypeOK
    <3>2. CASE v # u
      BY <1>14, <2>1, <3>2 DEF OnlyMoves, UnderItsLock
    <3> QED BY <3>1, <3>2
  <2> QED BY <1>5, <1>8, <2>1, <2>3, <2>4 DEF UnderItsLock
<1>12. ASSUME NEW k \in Token \ severed' PROVE ObjectOf(k)'
  <2>1. ObjectOf(k)
    BY <1>5 DEF BlogMediaInv
  <2>2. Settled(k) => Settled(k)'
    BY <1>1, <1>2, <1>3, <1>4, <1>6, <1>8, <1>14 DEF OnlyMoves, Settled
  <2>3. \A g : IsObject(k, g) => IsObject(k, g)'
    BY <1>8 DEF IsObject, Visible
  <2>4. \A v \in Upload : Puts(v, k)' => Puts(v, k) /\ upload'[v] = upload[v]
    BY <1>1, <1>4, <1>6, <1>14 DEF OnlyMoves
  <2> QED BY <1>5, <1>8, <2>1, <2>2, <2>3, <2>4 DEF ObjectOf
<1>13. AnsweredIsRegistered'
  BY <1>5 DEF BlogMediaInv, AnsweredIsRegistered
<1> QED BY <1>6, <1>9, <1>10, <1>11, <1>12, <1>13 DEF BlogMediaInv

\* A step of an attempt that writes to the bucket, with the lock or after it has lost it.
LEMMA WriteStep ==
    ASSUME BlogMediaInv, NEW u \in Working, NEW t \in Token, t = upload[u].token,
           upload[u].at \in {"put", "clean", "drop"},
           NEW w \in Attempt \cup {Gone}, upload' = [upload EXCEPT ![u] = w],
           UNCHANGED <<asset, limbo, reconciler, answers, uploads, losses>>,
           w \in Attempt => /\ w.token = t /\ w.file = upload[u].file /\ w.id = upload[u].id
                            /\ w.connected = upload[u].connected /\ w.at \in {"insert", "clean"}
                            /\ w.at = "insert" => IsObject(t, w.file)' /\ Newest(t)'.id = w.id,
           bucket' \in [Token -> Seq(Version)],
           \A k \in Token \ {t} : bucket'[k] = bucket[k] /\ Newest(k)' = Newest(k),
           \A i \in DOMAIN bucket'[t] : bucket'[t][i].id <= uploads,
           severed' = severed \/ severed' = severed \cup {t},
           ~upload[u].connected /\ t \notin severed' =>
               /\ upload[u].at = "drop" /\ w = Gone
               /\ Newest(t).id # upload[u].id => Newest(t)' = Newest(t)
    PROVE  BlogMediaInv'
<1>1. BlogMediaTypeOK /\ BlogMediaTypeOK'
  BY DEF BlogMediaInv, BlogMediaTypeOK
<1>2. u \in Upload /\ upload[u] \in Attempt
  BY <1>1, AttemptPlaces DEF BlogMediaTypeOK, Working
<1>10. OnlyMoves(u, w)
  BY <1>1, <1>2, Others
<1>3. Numbered'
  <2>1. \A k \in Token : \A i \in DOMAIN bucket'[k] : bucket'[k][i].id <= uploads
    BY DEF BlogMediaInv, Numbered
  <2> QED BY <1>1, <1>2, <2>1, StillNumbered
<1>4. \A k \in Token : Reconciling(k)' <=> Reconciling(k)
  BY DEF Reconciling
<1>5. \A v \in Upload, k \in Token : Locking(v, k)' => Locking(v, k) /\ (upload'[v].at = "reuse" <=> upload[v].at = "reuse")
  <2>1. \A k \in Token : Locking(u, k)' => Locking(u, k) /\ upload'[u].at # "reuse" /\ upload[u].at # "reuse"
    BY <1>1, <1>2, <1>10 DEF OnlyMoves, Locking, UnderLock
  <2> QED BY <1>1, <1>2, <2>1, <1>10 DEF OnlyMoves
<1>6. OneLockPerName'
  BY <1>4, <1>5 DEF BlogMediaInv, OneLockPerName
<1>7. ASSUME NEW k \in Token PROVE UnderItsLock(k)'
  <2>1. UnderItsLock(k)
    BY DEF BlogMediaInv
  <2>2. \A v \in Working' : upload'[v].at \in {"reuse", "lock", "probe"} => upload'[v].connected
    BY <1>1, <1>2, <2>1, <1>10 DEF OnlyMoves, UnderItsLock
  <2> QED BY <1>4, <1>5, <2>1, <2>2 DEF UnderItsLock
<1>8. ASSUME NEW k \in Token \ severed' PROVE ObjectOf(k)'
  <2>1. ObjectOf(k)
    BY DEF BlogMediaInv
  <2>2. Newest(k)' = Newest(k) => (Settled(k) => Settled(k)')
    BY <1>1, <1>2, <1>10 DEF OnlyMoves, Settled
  <2>3. Newest(k)' = Newest(k) => \A g : IsObject(k, g) => IsObject(k, g)'
    BY DEF IsObject, Visible
  <2>4. \A v \in Upload \ {u} : Puts(v, k)' => Puts(v, k) /\ upload'[v] = upload[v]
    BY <1>1, <1>2, <1>10 DEF OnlyMoves
  <2>5. CASE k # t
    <3>1. ~Puts(u, k)'
      BY <1>1, <1>2, <2>5, <1>10 DEF OnlyMoves
    <3> QED BY <2>1, <2>2, <2>3, <2>4, <2>5, <3>1 DEF ObjectOf
  <2>6. CASE k = t /\ upload[u].connected
    <3>1. Locking(u, k)
      BY <2>6 DEF Locking, UnderLock
    <3>2. asset[k] = NoFile /\ limbo[k] = NoFile
      BY <1>2, <3>1 DEF BlogMediaInv, OneLockPerName, UnderItsLock
    <3>3. \A v \in Upload \ {u} : ~Puts(v, k)
      BY <1>2, <3>1 DEF BlogMediaInv, OneLockPerName, Puts, Locking, UnderLock
    <3>4. Puts(u, k)' => /\ IsObject(k, w.file)' /\ Newest(k)'.id = w.id
                         /\ upload'[u] = w
      BY <1>2, <2>6, <1>10 DEF OnlyMoves
    <3> QED BY <1>2, <2>4, <3>2, <3>3, <3>4 DEF ObjectOf
  <2>7. CASE k = t /\ ~upload[u].connected
    <3>1. w = Gone /\ (Newest(k).id # upload[u].id => Newest(k)' = Newest(k))
      BY <2>7
    <3>2. ~Puts(u, k)'
      BY <1>1, <1>2, <3>1, <1>10 DEF OnlyMoves, Gone, Places
    <3>3. Settled(k) => Newest(k).id # upload[u].id
      BY <2>7 DEF Settled
    <3>4. \A v \in Upload \ {u} : Puts(v, k) => upload[v].id # upload[u].id
      BY DEF BlogMediaInv, Numbered, Puts
    <3> QED BY <2>1, <2>2, <2>3, <2>4, <3>1, <3>2, <3>3, <3>4 DEF ObjectOf
  <2> QED BY <2>5, <2>6, <2>7
<1>9. AnsweredIsRegistered'
  BY DEF BlogMediaInv, AnsweredIsRegistered
<1> QED BY <1>1, <1>3, <1>6, <1>7, <1>8, <1>9 DEF BlogMediaInv

\* An attempt that goes on keeps what it is about.
LEMMA Moved ==
    ASSUME BlogMediaTypeOK, NEW u \in Upload, NEW p \in Places, upload[u].at \in Places, MovesTo(u, p)
    PROVE  /\ u \in Working /\ upload[u] \in Attempt
           /\ \E w \in Attempt : /\ upload' = [upload EXCEPT ![u] = w] /\ w.at = p
                                 /\ w.token = upload[u].token /\ w.file = upload[u].file
                                 /\ w.id = upload[u].id /\ w.connected = upload[u].connected
<1>1. upload[u] \in Attempt /\ u \in Working
  BY AttemptPlaces DEF BlogMediaTypeOK, Working
<1>2. [upload[u] EXCEPT !.at = p] \in Attempt
  BY <1>1 DEF Attempt
<1>3. upload' = [upload EXCEPT ![u] = [upload[u] EXCEPT !.at = p]]
  BY DEF MovesTo, BlogMediaTypeOK
<1> QED BY <1>1, <1>2, <1>3 DEF Attempt

\* Probed, Insert and InsertFails touch neither bucket nor row.
LEMMA MoveSteps ==
    ASSUME BlogMediaInv, NEW u \in Upload, Probed(u) \/ Insert(u) \/ InsertFails(u)
    PROVE  BlogMediaInv'
<1>1. BlogMediaTypeOK
  BY DEF BlogMediaInv
<1>2. AnsweredIsRegistered' /\ answers' \subseteq [token : Token, file : File] /\ losses' \in 0 .. MaxLosses
  BY DEF Probed, Insert, InsertFails, BlogMediaInv, BlogMediaTypeOK, AnsweredIsRegistered
<1>3. UNCHANGED <<bucket, asset, limbo, reconciler, uploads>> /\ severed' = severed
  BY DEF Probed, Insert, InsertFails
<1>4. PICK p \in Places : MovesTo(u, p) /\ upload[u].at \in Places /\ p # "reuse" /\ upload[u].at # "reuse"
                          /\ \/ upload[u].at = "probe" /\ p = "lock"
                             \/ upload[u].at = "insert" /\ p = "commit"
                             \/ upload[u].at = "insert" /\ p = "drop"
  BY DEF Probed, Insert, InsertFails, Places
<1>5. PICK w \in Attempt : /\ upload' = [upload EXCEPT ![u] = w] /\ w.at = p
                           /\ w.token = upload[u].token /\ w.file = upload[u].file
                           /\ w.id = upload[u].id /\ w.connected = upload[u].connected
  BY <1>1, <1>4, Moved
<1>6. u \in Working
  BY <1>1, <1>4, Moved
<1>7. w.at \in {"probe", "lock", "reuse"} => w.connected
  <2>1. PICK k \in Token : k = upload[u].token
    BY <1>5 DEF Attempt
  <2>2. UnderItsLock(k)
    BY DEF BlogMediaInv
  <2> QED BY <1>4, <1>5, <1>6, <2>2 DEF UnderItsLock
<1>8. w.at \in UnderLock /\ w.connected => Locking(u, w.token) /\ w.at # "reuse" /\ upload[u].at # "reuse"
  BY <1>4, <1>5, <1>6 DEF Locking, UnderLock
<1>9. w.at \in {"insert", "commit"} /\ w.connected => Puts(u, w.token)
  BY <1>4, <1>5, <1>6 DEF Puts
<1> QED BY <1>2, <1>3, <1>5, <1>6, <1>7, <1>8, <1>9, AttemptStep

\* A refusal, a timeout or a crash, and an avatar.
LEMMA BreakSteps ==
    ASSUME BlogMediaInv, NEW u \in Upload, Break(u) \/ BeginAvatar(u)
    PROVE  BlogMediaInv'
<1>1. PICK w \in {Gone, [at |-> "avatar"]} : upload' = [upload EXCEPT ![u] = w]
  BY DEF Break, BeginAvatar, Leaves
<1>2. AnsweredIsRegistered' /\ answers' \subseteq [token : Token, file : File] /\ losses' \in 0 .. MaxLosses
  BY DEF Break, BeginAvatar, BlogMediaInv, BlogMediaTypeOK, AnsweredIsRegistered
<1>3. UNCHANGED <<bucket, asset, limbo, reconciler, uploads>> /\ severed' = severed
  BY DEF Break, BeginAvatar
<1>4. w \notin Attempt /\ w \in Attempt \cup {Gone, [at |-> "avatar"]}
  BY DEF Attempt, Gone, Places
<1> QED BY <1>1, <1>2, <1>3, <1>4, AttemptStep

\* The connection goes, and the lock with it.
LEMMA LoseStep == ASSUME BlogMediaInv, NEW u \in Upload, LoseConnection(u) PROVE BlogMediaInv'
<1>1. BlogMediaTypeOK /\ upload[u].at \in {"put", "clean", "insert", "commit"}
  BY DEF BlogMediaInv, LoseConnection
<1>2. upload[u] \in Attempt /\ u \in Working
  BY <1>1, AttemptPlaces DEF BlogMediaTypeOK, Working, Places
<1>3. PICK w \in Attempt : /\ upload' = [upload EXCEPT ![u] = w] /\ w.at = upload[u].at
                           /\ w.token = upload[u].token /\ w.file = upload[u].file
                           /\ w.id = upload[u].id /\ ~w.connected
  <2>1. [upload[u] EXCEPT !.connected = FALSE] \in Attempt
    BY <1>2 DEF Attempt
  <2>2. upload' = [upload EXCEPT ![u] = [upload[u] EXCEPT !.connected = FALSE]]
    BY <1>1 DEF LoseConnection, BlogMediaTypeOK
  <2> QED BY <1>2, <2>1, <2>2 DEF Attempt
<1>4. AnsweredIsRegistered' /\ answers' \subseteq [token : Token, file : File] /\ losses' \in 0 .. MaxLosses
  BY BlogBoundsAssumption DEF LoseConnection, BlogMediaInv, BlogMediaTypeOK, AnsweredIsRegistered
<1>5. UNCHANGED <<bucket, asset, limbo, reconciler, uploads>> /\ severed' = severed
  BY DEF LoseConnection
<1> QED BY <1>1, <1>2, <1>3, <1>4, <1>5, AttemptStep

\* What a reuse answers is the registered file: the one that is visible.
LEMMA ReuseStep == ASSUME BlogMediaInv, NEW u \in Upload, Reuse(u) PROVE BlogMediaInv'
<1>1. BlogMediaTypeOK /\ upload[u].at = "reuse"
  BY DEF BlogMediaInv, Reuse
<1>2. upload[u] \in Attempt /\ u \in Working
  BY <1>1, AttemptPlaces DEF BlogMediaTypeOK, Working, Places
<1>3. PICK k \in Token : k = upload[u].token
  BY <1>2 DEF Attempt
<1>4. UNCHANGED <<bucket, asset, limbo, reconciler, uploads>> /\ severed' = severed /\ losses' = losses
  BY DEF Reuse
<1>5. asset[k] # NoFile
  <2>1. UnderItsLock(k)
    BY DEF BlogMediaInv
  <2>2. Locking(u, k)
    BY <1>1, <1>2, <1>3, <2>1 DEF UnderItsLock, Locking, UnderLock
  <2> QED BY <1>1, <2>1, <2>2 DEF UnderItsLock
<1>6. \/ answers' = answers
      \/ answers' = answers \cup {[token |-> k, file |-> upload[u].file]} /\ Newest(k).file = upload[u].file
  <2>1. answers' = IF Visible(k) /\ Newest(k).file = upload[u].file
                   THEN answers \cup {[token |-> k, file |-> upload[u].file]} ELSE answers
    BY <1>3, Zenon DEF Reuse
  <2>2. CASE Visible(k) /\ Newest(k).file = upload[u].file
    BY <2>1, <2>2, Zenon
  <2>3. CASE ~(Visible(k) /\ Newest(k).file = upload[u].file)
    BY <2>1, <2>3, SMT
  <2> QED BY <2>2, <2>3
<1>7. k \notin severed => Newest(k).file = asset[k]
  BY <1>5 DEF BlogMediaInv, ObjectOf, IsObject
<1>8. AnsweredIsRegistered'
  BY <1>4, <1>6, <1>7 DEF BlogMediaInv, AnsweredIsRegistered
<1>9. answers' \subseteq [token : Token, file : File] /\ losses' \in 0 .. MaxLosses
  BY <1>1, <1>2, <1>4, <1>6 DEF BlogMediaTypeOK, Attempt
<1>10. upload' = [upload EXCEPT ![u] = Gone] /\ Gone \notin Attempt
  BY DEF Reuse, Leaves, Attempt, Gone, Places
<1> QED BY <1>4, <1>8, <1>9, <1>10, AttemptStep

\* Numbers of versions do not grow beyond those of the uploads.
LEMMA OldNumbers ==
    ASSUME BlogMediaInv, NEW t \in Token, NEW x, x.id <= uploads,
           \A i \in DOMAIN bucket'[t] :
               bucket'[t][i] = x \/ \E j \in DOMAIN bucket[t] : bucket'[t][i] = bucket[t][j]
    PROVE  \A i \in DOMAIN bucket'[t] : bucket'[t][i].id <= uploads
<1>1. \A j \in DOMAIN bucket[t] : bucket[t][j].id <= uploads
  BY DEF BlogMediaInv, Numbered
<1> QED BY <1>1

\* The put: it succeeds, or fails before or after the object was stored.
LEMMA PutStep == ASSUME BlogMediaInv, NEW u \in Upload, Put(u) \/ PutFails(u) PROVE BlogMediaInv'
<1>1. BlogMediaTypeOK /\ upload[u].at = "put"
  BY DEF BlogMediaInv, Put, PutFails
<1>2. upload[u] \in Attempt /\ u \in Working
  BY <1>1, AttemptPlaces DEF BlogMediaTypeOK, Working, Places
<1>3. PICK t \in Token : t = upload[u].token
  BY <1>2 DEF Attempt
<1>4. PICK p \in {"insert", "clean"} : MovesTo(u, p) /\ (p = "insert" => Put(u)) /\ (p = "clean" => PutFails(u))
  BY DEF Put, PutFails
<1>5. PICK w \in Attempt : /\ upload' = [upload EXCEPT ![u] = w] /\ w.at = p
                           /\ w.token = upload[u].token /\ w.file = upload[u].file
                           /\ w.id = upload[u].id /\ w.connected = upload[u].connected
  BY <1>1, <1>4, Moved DEF Places
<1>6. UNCHANGED <<asset, limbo, reconciler, answers, uploads, losses>>
  BY DEF Put, PutFails
<1>7. severed' = IF upload[u].connected THEN severed ELSE severed \cup {t}
  BY <1>3 DEF Put, PutFails, Touches
<1>8. upload[u].id <= uploads /\ Marker.id <= uploads
  BY <1>1, <1>2, Counted DEF BlogMediaInv, Numbered, Marker
<1>9. PICK v \in Version : v # Marker /\ v = [id |-> upload[u].id, file |-> upload[u].file, stale |-> FALSE]
  <2>1. [id |-> upload[u].id, file |-> upload[u].file, stale |-> FALSE] \in Version
    BY <1>2 DEF Attempt, Version
  <2>2. [id |-> upload[u].id, file |-> upload[u].file, stale |-> FALSE] # Marker
    BY <1>2 DEF Attempt, Marker
  <2> QED BY <2>1, <2>2
<1>10. \/ bucket' = bucket /\ p = "clean"
       \/ bucket' = [bucket EXCEPT ![t] = Append(@, v)]
  BY <1>3, <1>4, <1>9 DEF Put, PutFails, Stored
<1>11. /\ bucket' \in [Token -> Seq(Version)]
       /\ \A k \in Token \ {t} : bucket'[k] = bucket[k] /\ Newest(k)' = Newest(k)
       /\ \A i \in DOMAIN bucket'[t] :
               bucket'[t][i] = v \/ \E j \in DOMAIN bucket[t] : bucket'[t][i] = bucket[t][j]
       /\ p = "insert" => Newest(t)' = v
  <2>1. CASE bucket' = bucket /\ p = "clean"
    <3>1. bucket' \in [Token -> Seq(Version)]
      BY <1>1, <2>1 DEF BlogMediaTypeOK
    <3>2. \A k \in Token : bucket'[k] = bucket[k] /\ Newest(k)' = Newest(k)
      BY <2>1 DEF Newest
    <3> QED BY <2>1, <3>1, <3>2
  <2>2. CASE bucket' = [bucket EXCEPT ![t] = Append(@, v)]
    <3>1. /\ bucket' \in [Token -> Seq(Version)]
          /\ Newest(t)' = v
          /\ \A k \in Token \ {t} : bucket'[k] = bucket[k] /\ Newest(k)' = Newest(k)
          /\ \A i \in DOMAIN bucket'[t] :
                  bucket'[t][i] = v \/ \E j \in DOMAIN bucket[t] : bucket'[t][i] = bucket[t][j]
      BY <1>1, <2>2, Appended
    <3> QED BY <3>1
  <2> QED BY <1>10, <2>1, <2>2
<1>12. \A i \in DOMAIN bucket'[t] : bucket'[t][i].id <= uploads
  <2>1. v.id <= uploads
    BY <1>8, <1>9
  <2> QED BY <1>11, <2>1, OldNumbers
<1>13. w.at = "insert" => IsObject(t, w.file)' /\ Newest(t)'.id = w.id
  BY <1>5, <1>9, <1>11 DEF IsObject, Visible
<1>14. severed' = severed \/ severed' = severed \cup {t}
  BY <1>7
<1>15. ~(~upload[u].connected /\ t \notin severed')
  BY <1>7
<1> QED BY <1>1, <1>2, <1>3, <1>5, <1>6, <1>11, <1>12, <1>13, <1>14, <1>15, WriteStep

\* The cleanup hides what is there under the name, whoever put it.
LEMMA CleanUpStep == ASSUME BlogMediaInv, NEW u \in Upload, CleanUp(u) PROVE BlogMediaInv'
<1>1. BlogMediaTypeOK /\ upload[u].at = "clean"
  BY DEF BlogMediaInv, CleanUp
<1>2. upload[u] \in Attempt /\ u \in Working
  BY <1>1, AttemptPlaces DEF BlogMediaTypeOK, Working, Places
<1>3. PICK t \in Token : t = upload[u].token
  BY <1>2 DEF Attempt
<1>4. upload' = [upload EXCEPT ![u] = Gone] /\ Gone \notin Attempt
  BY DEF CleanUp, Leaves, Attempt, Gone, Places
<1>5. UNCHANGED <<asset, limbo, reconciler, answers, uploads, losses>>
  BY DEF CleanUp
<1>6. severed' = IF upload[u].connected THEN severed ELSE severed \cup {t}
  BY <1>3 DEF CleanUp, Touches
<1>7. bucket' = [bucket EXCEPT ![t] = Append(@, Marker)] /\ Marker \in Version
  BY <1>3 DEF CleanUp, Version
<1>8. Marker.id <= uploads
  BY <1>1, Counted DEF Marker
<1>9. /\ bucket' \in [Token -> Seq(Version)]
      /\ \A k \in Token \ {t} : bucket'[k] = bucket[k] /\ Newest(k)' = Newest(k)
      /\ \A i \in DOMAIN bucket'[t] :
              bucket'[t][i] = Marker \/ \E j \in DOMAIN bucket[t] : bucket'[t][i] = bucket[t][j]
  BY <1>1, <1>7, Appended
<1>10. \A i \in DOMAIN bucket'[t] : bucket'[t][i].id <= uploads
  BY <1>8, <1>9, OldNumbers
<1> QED BY <1>1, <1>2, <1>3, <1>4, <1>5, <1>6, <1>9, <1>10, WriteStep

\* The cleanup of an insert that failed removes the version that was put.
LEMMA DropStep == ASSUME BlogMediaInv, NEW u \in Upload, Drop(u) PROVE BlogMediaInv'
<1>1. BlogMediaTypeOK /\ upload[u].at = "drop"
  BY DEF BlogMediaInv, Drop
<1>2. upload[u] \in Attempt /\ u \in Working
  BY <1>1, AttemptPlaces DEF BlogMediaTypeOK, Working, Places
<1>3. PICK t \in Token : t = upload[u].token
  BY <1>2 DEF Attempt
<1>4. upload' = [upload EXCEPT ![u] = Gone] /\ Gone \notin Attempt
  BY DEF Drop, Leaves, Attempt, Gone, Places
<1>5. UNCHANGED <<asset, limbo, reconciler, answers, uploads, losses>> /\ severed' = severed
  BY DEF Drop
<1>6. PICK id \in Nat \ {0} : id = upload[u].id /\ bucket' = Without(t, id)
  BY <1>2, <1>3 DEF Drop, Attempt
<1>7. /\ bucket' \in [Token -> Seq(Version)]
      /\ Newest(t).id # id => Newest(t)' = Newest(t)
      /\ \A k \in Token \ {t} : bucket'[k] = bucket[k] /\ Newest(k)' = Newest(k)
      /\ \A i \in DOMAIN bucket'[t] : \E j \in DOMAIN bucket[t] : bucket'[t][i] = bucket[t][j]
  BY <1>1, <1>6, Removed
<1>8. \A i \in DOMAIN bucket'[t] : bucket'[t][i].id <= uploads
  <2>1. \A j \in DOMAIN bucket[t] : bucket[t][j].id <= uploads
    BY DEF BlogMediaInv, Numbered
  <2> SUFFICES ASSUME NEW i \in DOMAIN bucket'[t] PROVE bucket'[t][i].id <= uploads
    OBVIOUS
  <2>2. PICK j \in DOMAIN bucket[t] : bucket'[t][i] = bucket[t][j]
    BY <1>7
  <2> QED BY <2>1, <2>2
<1>9. Newest(t).id # upload[u].id => Newest(t)' = Newest(t)
  BY <1>6, <1>7
<1>10. UNCHANGED <<asset, limbo, reconciler, answers, uploads, losses>> /\ Gone \in Attempt \cup {Gone}
  BY <1>5
<1>11. severed' = severed
  BY <1>5
<1>12. bucket' \in [Token -> Seq(Version)] /\ \A k \in Token \ {t} : bucket'[k] = bucket[k] /\ Newest(k)' = Newest(k)
  BY <1>7
<1> HIDE DEF Newest
<1> QED BY <1>1, <1>2, <1>3, <1>4, <1>8, <1>9, <1>10, <1>11, <1>12, WriteStep

\* The commit registers the file that was put, and answers it.
LEMMA CommitStep == ASSUME BlogMediaInv, NEW u \in Upload, CommitAsset(u) PROVE BlogMediaInv'
<1>1. BlogMediaTypeOK /\ upload[u].at = "commit" /\ upload[u].connected
  BY DEF BlogMediaInv, CommitAsset
<1>2. upload[u] \in Attempt /\ u \in Working
  BY <1>1, AttemptPlaces DEF BlogMediaTypeOK, Working, Places
<1>3. PICK t \in Token, f \in File : t = upload[u].token /\ f = upload[u].file
  BY <1>2 DEF Attempt
<1>4. /\ upload' = [upload EXCEPT ![u] = Gone] /\ Gone \notin Attempt
      /\ asset' = [asset EXCEPT ![t] = f] /\ answers' = answers \cup {[token |-> t, file |-> f]}
      /\ UNCHANGED <<bucket, limbo, reconciler, severed, uploads, losses>>
  BY <1>3 DEF CommitAsset, Leaves, Attempt, Gone, Places
<1>5. BlogMediaTypeOK'
  BY <1>1, <1>3, <1>4 DEF BlogMediaTypeOK
<1>6. OnlyMoves(u, Gone)
  BY <1>1, <1>4, <1>5, Others
<1>7. Locking(u, t) /\ Puts(u, t)
  BY <1>1, <1>2, <1>3 DEF Locking, Puts, UnderLock
<1>8. /\ asset[t] = NoFile /\ limbo[t] = NoFile /\ ~Reconciling(t)
      /\ \A v \in Upload \ {u} : ~Locking(v, t) /\ ~Puts(v, t)
  <2>1. asset[t] = NoFile
    BY <1>1, <1>7 DEF BlogMediaInv, UnderItsLock
  <2>2. limbo[t] = NoFile /\ ~Reconciling(t)
    BY <1>7 DEF BlogMediaInv, OneLockPerName
  <2>3. \A v \in Upload \ {u} : ~Locking(v, t) /\ ~Puts(v, t)
    BY <1>7 DEF BlogMediaInv, OneLockPerName, Puts, Locking, UnderLock
  <2> QED BY <2>1, <2>2, <2>3
<1>9. /\ \A k \in Token : Newest(k)' = Newest(k) /\ (Reconciling(k)' <=> Reconciling(k))
      /\ \A k \in Token : ~Locking(u, k)' /\ ~Puts(u, k)'
      /\ \A k \in Token \ {t} : asset'[k] = asset[k]
      /\ asset'[t] = f
  BY <1>1, <1>4, <1>6 DEF Newest, Reconciling, OnlyMoves, BlogMediaTypeOK
<1>10. \A k \in Token, v \in Upload : Locking(v, k)' => v # u /\ Locking(v, k) /\ upload'[v] = upload[v]
  BY <1>6, <1>9 DEF OnlyMoves
<1>11. OneLockPerName'
  BY <1>4, <1>9, <1>10 DEF BlogMediaInv, OneLockPerName
<1>12. Numbered'
  <2>1. \A k \in Token : \A i \in DOMAIN bucket'[k] : bucket'[k][i].id <= uploads
    BY <1>4 DEF BlogMediaInv, Numbered
  <2> QED BY <1>4, <1>5, <2>1, StillNumbered
<1>13. ASSUME NEW k \in Token PROVE UnderItsLock(k)'
  <2>1. UnderItsLock(k)
    BY DEF BlogMediaInv
  <2>2. \A v \in Working' : v \in Working /\ upload'[v] = upload[v]
    BY <1>4, <1>6 DEF OnlyMoves
  <2>3. CASE k = t
    BY <1>4, <1>8, <1>9, <1>10, <2>1, <2>2, <2>3 DEF UnderItsLock
  <2>4. CASE k # t
    BY <1>4, <1>8, <1>9, <1>10, <2>1, <2>2, <2>4 DEF UnderItsLock
  <2> QED BY <2>3, <2>4
<1>14. ASSUME NEW k \in Token \ severed' PROVE ObjectOf(k)'
  <2>1. ObjectOf(k)
    BY <1>4 DEF BlogMediaInv
  <2>2. Settled(k) => Settled(k)'
    BY <1>4, <1>6, <1>9 DEF OnlyMoves, Settled
  <2>3. \A g : IsObject(k, g) => IsObject(k, g)'
    BY <1>9 DEF IsObject, Visible
  <2>4. \A v \in Upload : Puts(v, k)' => Puts(v, k) /\ upload'[v] = upload[v] /\ v # u
    BY <1>6, <1>9 DEF OnlyMoves
  <2>5. CASE k # t
    BY <1>4, <1>9, <2>1, <2>2, <2>3, <2>4, <2>5 DEF ObjectOf
  <2>6. CASE k = t
    <3>1. IsObject(k, f) /\ Newest(k).id = upload[u].id
      BY <1>3, <1>7, <2>1, <2>6 DEF ObjectOf
    <3>2. Settled(k)'
      <4>1. \A v \in Working : v # u => upload[v].id # upload[u].id
        BY <1>2 DEF BlogMediaInv, Numbered
      <4>2. \A v \in Working' : v # u /\ v \in Working /\ upload'[v] = upload[v]
        BY <1>4, <1>6 DEF OnlyMoves
      <4> QED BY <1>9, <3>1, <4>1, <4>2 DEF Settled
    <3> QED BY <1>4, <1>8, <1>9, <2>3, <2>4, <2>6, <3>1, <3>2 DEF ObjectOf
  <2> QED BY <2>5, <2>6
<1>15. AnsweredIsRegistered'
  <2> SUFFICES ASSUME NEW a \in answers', a.token \notin severed PROVE asset'[a.token] = a.file
    BY <1>4 DEF AnsweredIsRegistered
  <2>1. CASE a = [token |-> t, file |-> f]
    BY <1>9, <2>1
  <2>2. CASE a \in answers
    <3>1. asset[a.token] = a.file /\ a.file \in File /\ a.token \in Token
      BY <1>1, <2>2 DEF BlogMediaInv, BlogMediaTypeOK, AnsweredIsRegistered
    <3>2. a.token # t
      BY <1>8, <3>1, FileAssumption
    <3> QED BY <1>9, <3>1, <3>2
  <2> QED BY <1>4, <2>1, <2>2
<1> QED BY <1>5, <1>11, <1>12, <1>13, <1>14, <1>15 DEF BlogMediaInv

\* A commit without an answer keeps the lock in limbo, if there was still one to keep.
LEMMA UncertainStep == ASSUME BlogMediaInv, NEW u \in Upload, CommitUncertain(u) PROVE BlogMediaInv'
<1>1. BlogMediaTypeOK /\ upload[u].at = "commit"
  BY DEF BlogMediaInv, CommitUncertain
<1>2. upload[u] \in Attempt /\ u \in Working
  BY <1>1, AttemptPlaces DEF BlogMediaTypeOK, Working, Places
<1>3. PICK t \in Token, f \in File : t = upload[u].token /\ f = upload[u].file
  BY <1>2 DEF Attempt
<1>4. /\ upload' = [upload EXCEPT ![u] = Gone] /\ Gone \notin Attempt
      /\ limbo' = IF upload[u].connected THEN [limbo EXCEPT ![t] = f] ELSE limbo
      /\ UNCHANGED <<bucket, asset, reconciler, answers, severed, uploads, losses>>
  BY <1>3 DEF CommitUncertain, Leaves, Attempt, Gone, Places
<1>5. AnsweredIsRegistered' /\ answers' \subseteq [token : Token, file : File] /\ losses' \in 0 .. MaxLosses
  BY <1>4 DEF BlogMediaInv, BlogMediaTypeOK, AnsweredIsRegistered
<1>6. CASE ~upload[u].connected
  <2>1. limbo' = limbo
    BY <1>4, <1>6
  <2> QED BY <1>4, <1>5, <2>1, AttemptStep
<1>7. CASE upload[u].connected
  <2>1. BlogMediaTypeOK'
    BY <1>1, <1>3, <1>4, <1>7 DEF BlogMediaTypeOK
  <2>2. OnlyMoves(u, Gone)
    BY <1>1, <1>4, <2>1, Others
  <2>3. Locking(u, t) /\ Puts(u, t)
    BY <1>1, <1>2, <1>3, <1>7 DEF Locking, Puts, UnderLock
  <2>4. /\ asset[t] = NoFile /\ ~Reconciling(t)
        /\ \A v \in Upload \ {u} : ~Locking(v, t) /\ ~Puts(v, t)
    <3>1. asset[t] = NoFile
      BY <1>1, <2>3 DEF BlogMediaInv, UnderItsLock
    <3>2. ~Reconciling(t)
      BY <2>3 DEF BlogMediaInv, OneLockPerName
    <3>3. \A v \in Upload \ {u} : ~Locking(v, t) /\ ~Puts(v, t)
      BY <2>3 DEF BlogMediaInv, OneLockPerName, Puts, Locking, UnderLock
    <3> QED BY <3>1, <3>2, <3>3
  <2>5. /\ \A k \in Token : Newest(k)' = Newest(k) /\ (Reconciling(k)' <=> Reconciling(k))
        /\ \A k \in Token : ~Locking(u, k)' /\ ~Puts(u, k)'
        /\ \A k \in Token \ {t} : limbo'[k] = limbo[k]
        /\ limbo'[t] = f
    BY <1>1, <1>4, <1>7, <2>2 DEF Newest, Reconciling, OnlyMoves, BlogMediaTypeOK
  <2>6. \A k \in Token, v \in Upload : Locking(v, k)' => v # u /\ Locking(v, k) /\ upload'[v] = upload[v]
    BY <2>2, <2>5 DEF OnlyMoves
  <2>7. OneLockPerName'
    BY <2>4, <2>5, <2>6 DEF BlogMediaInv, OneLockPerName
  <2>8. Numbered'
    <3>1. \A k \in Token : \A i \in DOMAIN bucket'[k] : bucket'[k][i].id <= uploads
      BY <1>4 DEF BlogMediaInv, Numbered
    <3> QED BY <1>4, <2>1, <3>1, StillNumbered
  <2>9. ASSUME NEW k \in Token PROVE UnderItsLock(k)'
    <3>1. UnderItsLock(k)
      BY DEF BlogMediaInv
    <3>2. \A v \in Working' : v \in Working /\ upload'[v] = upload[v]
      BY <1>4, <2>2 DEF OnlyMoves
    <3> QED BY <1>4, <2>4, <2>5, <2>6, <3>1, <3>2 DEF UnderItsLock
  <2>10. ASSUME NEW k \in Token \ severed' PROVE ObjectOf(k)'
    <3>1. ObjectOf(k)
      BY <1>4 DEF BlogMediaInv
    <3>2. Settled(k) => Settled(k)'
      BY <1>4, <2>2, <2>5 DEF OnlyMoves, Settled
    <3>3. \A g : IsObject(k, g) => IsObject(k, g)'
      BY <2>5 DEF IsObject, Visible
    <3>4. \A v \in Upload : Puts(v, k)' => Puts(v, k) /\ upload'[v] = upload[v] /\ v # u
      BY <2>2, <2>5 DEF OnlyMoves
    <3>5. CASE k # t
      BY <1>4, <2>5, <3>1, <3>2, <3>3, <3>4, <3>5 DEF ObjectOf
    <3>6. CASE k = t
      <4>1. IsObject(k, f) /\ Newest(k).id = upload[u].id
        BY <1>3, <2>3, <3>1, <3>6 DEF ObjectOf
      <4>2. Settled(k)'
        <5>1. \A v \in Working : v # u => upload[v].id # upload[u].id
          BY <1>2 DEF BlogMediaInv, Numbered
        <5>2. \A v \in Working' : v # u /\ v \in Working /\ upload'[v] = upload[v]
          BY <1>4, <2>2 DEF OnlyMoves
        <5> QED BY <2>5, <4>1, <5>1, <5>2 DEF Settled
      <4> QED BY <1>4, <2>4, <2>5, <3>3, <3>4, <3>6, <4>1, <4>2 DEF ObjectOf
    <3> QED BY <3>5, <3>6
  <2> QED BY <1>5, <2>1, <2>7, <2>8, <2>9, <2>10 DEF BlogMediaInv
<1> QED BY <1>6, <1>7

\* What a step leaves that is no attempt's.
LEMMA SameAttempts ==
    ASSUME upload' = upload
    PROVE  /\ Working' = Working
           /\ \A v, k : (Locking(v, k)' <=> Locking(v, k)) /\ (Puts(v, k)' <=> Puts(v, k))
BY DEF Working, Locking, Puts

\* The database ends the transaction: what it registers is what was put.
LEMMA ResolveStep == ASSUME BlogMediaInv, NEW t \in Token, Resolve(t) PROVE BlogMediaInv'
<1>1. BlogMediaTypeOK /\ limbo[t] # NoFile
  BY DEF BlogMediaInv, Resolve
<1>2. PICK f \in File \cup {NoFile} : asset' = [asset EXCEPT ![t] = f] /\ (f = limbo[t] \/ f = asset[t])
  BY <1>1 DEF Resolve, BlogMediaTypeOK
<1>3. limbo' = [limbo EXCEPT ![t] = NoFile] /\ UNCHANGED <<bucket, upload, reconciler, answers, severed, uploads, losses>>
  BY DEF Resolve
<1>4. BlogMediaTypeOK'
  BY <1>1, <1>2, <1>3 DEF BlogMediaTypeOK
<1>5. asset[t] = NoFile /\ ~Reconciling(t) /\ \A u \in Upload : ~Locking(u, t)
  BY <1>1 DEF BlogMediaInv, OneLockPerName, UnderItsLock
<1>6. /\ \A k \in Token : Newest(k)' = Newest(k) /\ (Reconciling(k)' <=> Reconciling(k))
      /\ \A k \in Token \ {t} : asset'[k] = asset[k] /\ limbo'[k] = limbo[k]
      /\ asset'[t] = f /\ limbo'[t] = NoFile
  BY <1>1, <1>2, <1>3 DEF Newest, Reconciling, BlogMediaTypeOK
<1>7. Working' = Working /\ \A v, k : (Locking(v, k)' <=> Locking(v, k)) /\ (Puts(v, k)' <=> Puts(v, k))
  BY <1>3, SameAttempts
<1>8. OneLockPerName'
  BY <1>6, <1>7 DEF BlogMediaInv, OneLockPerName
<1>9. Numbered'
  BY <1>3, <1>7 DEF BlogMediaInv, Numbered
<1>10. ASSUME NEW k \in Token PROVE UnderItsLock(k)'
  <2>1. UnderItsLock(k)
    BY DEF BlogMediaInv
  <2>2. CASE k = t
    BY <1>3, <1>5, <1>6, <1>7, <2>1, <2>2 DEF UnderItsLock
  <2>3. CASE k # t
    BY <1>3, <1>6, <1>7, <2>1, <2>3 DEF UnderItsLock
  <2> QED BY <2>2, <2>3
<1>11. ASSUME NEW k \in Token \ severed' PROVE ObjectOf(k)'
  <2>1. ObjectOf(k)
    BY <1>3 DEF BlogMediaInv
  <2>2. Settled(k) => Settled(k)'
    BY <1>3, <1>6, <1>7 DEF Settled
  <2>3. \A g : IsObject(k, g) => IsObject(k, g)'
    BY <1>6 DEF IsObject, Visible
  <2>4. CASE k = t
    BY <1>1, <1>2, <1>3, <1>6, <1>7, <2>1, <2>2, <2>3, <2>4 DEF ObjectOf
  <2>5. CASE k # t
    BY <1>3, <1>6, <1>7, <2>1, <2>2, <2>3, <2>5 DEF ObjectOf
  <2> QED BY <2>4, <2>5
<1>12. AnsweredIsRegistered'
  <2> SUFFICES ASSUME NEW a \in answers, a.token \notin severed PROVE asset'[a.token] = a.file
    BY <1>3 DEF AnsweredIsRegistered
  <2>1. asset[a.token] = a.file /\ a.file \in File /\ a.token \in Token
    BY <1>1 DEF BlogMediaInv, BlogMediaTypeOK, AnsweredIsRegistered
  <2>2. a.token # t
    BY <1>5, <2>1, FileAssumption
  <2> QED BY <1>6, <2>1, <2>2
<1> QED BY <1>4, <1>8, <1>9, <1>10, <1>11, <1>12 DEF BlogMediaInv

\* A day passes.
LEMMA AgeStep == ASSUME BlogMediaInv, NEW t \in Token, Age(t) PROVE BlogMediaInv'
<1>1. BlogMediaTypeOK
  BY DEF BlogMediaInv
<1>2. UNCHANGED <<asset, upload, limbo, reconciler, answers, severed, uploads, losses>>
  BY DEF Age
<1>3. /\ bucket' \in [Token -> Seq(Version)]
      /\ Newest(t)'.id = Newest(t).id /\ (Visible(t) <=> Visible(t)')
      /\ Visible(t) => Newest(t)'.file = Newest(t).file
      /\ \A j \in Token \ {t} : bucket'[j] = bucket[j] /\ Newest(j)' = Newest(j)
      /\ \A i \in DOMAIN bucket'[t] : i \in DOMAIN bucket[t] /\ bucket'[t][i].id = bucket[t][i].id
  BY <1>1, Aged
<1>4. BlogMediaTypeOK'
  BY <1>1, <1>2, <1>3 DEF BlogMediaTypeOK
<1>5. Working' = Working /\ \A v, k : (Locking(v, k)' <=> Locking(v, k)) /\ (Puts(v, k)' <=> Puts(v, k))
  BY <1>2, SameAttempts
<1>6. \A k \in Token : Newest(k)'.id = Newest(k).id /\ (Reconciling(k)' <=> Reconciling(k))
  BY <1>2, <1>3 DEF Reconciling
<1>7. OneLockPerName'
  BY <1>2, <1>5, <1>6 DEF BlogMediaInv, OneLockPerName
<1>8. Numbered'
  <2>1. ASSUME NEW k \in Token, NEW i \in DOMAIN bucket'[k] PROVE bucket'[k][i].id <= uploads
    <3>1. i \in DOMAIN bucket[k] /\ bucket'[k][i].id = bucket[k][i].id
      BY <1>3
    <3> QED BY <3>1 DEF BlogMediaInv, Numbered
  <2> QED BY <1>2, <1>5, <2>1 DEF BlogMediaInv, Numbered
<1>9. ASSUME NEW k \in Token PROVE UnderItsLock(k)'
  BY <1>2, <1>5, <1>6 DEF BlogMediaInv, UnderItsLock
<1>10. ASSUME NEW k \in Token \ severed' PROVE ObjectOf(k)'
  <2>1. ObjectOf(k)
    BY <1>2 DEF BlogMediaInv
  <2>2. Settled(k) => Settled(k)'
    BY <1>2, <1>5, <1>6 DEF Settled
  <2>3. \A g : IsObject(k, g) => IsObject(k, g)'
    BY <1>3 DEF IsObject, Visible
  <2> QED BY <1>2, <1>5, <1>6, <2>1, <2>2, <2>3 DEF ObjectOf
<1>11. AnsweredIsRegistered'
  BY <1>2 DEF BlogMediaInv, AnsweredIsRegistered
<1> QED BY <1>4, <1>7, <1>8, <1>9, <1>10, <1>11 DEF BlogMediaInv

\* The reconciliation finds an object that nobody registered, under its lock.
LEMMA ReconcileStep == ASSUME BlogMediaInv, NEW t \in Token, Reconcile(t) PROVE BlogMediaInv'
<1>1. BlogMediaTypeOK /\ asset[t] = NoFile
  BY DEF BlogMediaInv, Reconcile
<1>2. UNCHANGED <<bucket, asset, upload, limbo, answers, severed, uploads, losses>>
  BY DEF Reconcile
<1>3. PICK id \in Nat \ {0} : reconciler' = [token |-> t, id |-> id]
  <2>1. Newest(t) \in Version /\ Newest(t) # Marker
    BY <1>1, NewestIs DEF Reconcile, Visible
  <2> QED BY <2>1 DEF Reconcile, Version
<1>4. BlogMediaTypeOK'
  BY <1>1, <1>2, <1>3 DEF BlogMediaTypeOK
<1>5. Working' = Working /\ \A v, k : (Locking(v, k)' <=> Locking(v, k)) /\ (Puts(v, k)' <=> Puts(v, k))
  BY <1>2, SameAttempts
<1>6. \A k \in Token : Newest(k)' = Newest(k) /\ (Reconciling(k)' => k = t)
  BY <1>2, <1>3 DEF Newest, Reconciling
<1>7. limbo[t] = NoFile /\ \A u \in Upload : ~Locking(u, t)
  <2>1. ~LockedName(t)
    BY DEF Reconcile
  <2> QED BY <2>1 DEF LockedName, Locking, InSlot, Working, Gone, Places
<1>8. OneLockPerName'
  BY <1>2, <1>5, <1>6, <1>7 DEF BlogMediaInv, OneLockPerName
<1>9. Numbered'
  BY <1>2, <1>5 DEF BlogMediaInv, Numbered
<1>10. ASSUME NEW k \in Token PROVE UnderItsLock(k)'
  BY <1>1, <1>2, <1>5, <1>6 DEF BlogMediaInv, UnderItsLock
<1>11. ASSUME NEW k \in Token \ severed' PROVE ObjectOf(k)'
  <2>1. ObjectOf(k)
    BY <1>2 DEF BlogMediaInv
  <2>2. Settled(k) => Settled(k)'
    BY <1>2, <1>5, <1>6 DEF Settled
  <2>3. \A g : IsObject(k, g) => IsObject(k, g)'
    BY <1>6 DEF IsObject, Visible
  <2> QED BY <1>2, <1>5, <1>6, <2>1, <2>2, <2>3 DEF ObjectOf
<1>12. AnsweredIsRegistered'
  BY <1>2 DEF BlogMediaInv, AnsweredIsRegistered
<1> QED BY <1>4, <1>8, <1>9, <1>10, <1>11, <1>12 DEF BlogMediaInv

\* It deletes a version of an object that is not registered and cannot become so.
LEMMA DeleteStep == ASSUME BlogMediaInv, DeleteOrphan PROVE BlogMediaInv'
<1>1. BlogMediaTypeOK
  BY DEF BlogMediaInv
<1>2. PICK t \in Token, id \in Nat \ {0} :
          reconciler.token = t /\ reconciler.id = id /\ Reconciling(t) /\ bucket' = Without(t, id)
  BY <1>1 DEF DeleteOrphan, Reconciling, BlogMediaTypeOK
<1>3. reconciler' = Gone /\ UNCHANGED <<asset, upload, limbo, answers, severed, uploads, losses>>
  BY DEF DeleteOrphan
<1>4. /\ bucket' \in [Token -> Seq(Version)]
      /\ \A j \in Token \ {t} : bucket'[j] = bucket[j] /\ Newest(j)' = Newest(j)
      /\ \A i \in DOMAIN bucket'[t] : \E j \in DOMAIN bucket[t] : bucket'[t][i] = bucket[t][j]
  BY <1>1, <1>2, Removed
<1>5. BlogMediaTypeOK'
  BY <1>1, <1>3, <1>4 DEF BlogMediaTypeOK
<1>6. asset[t] = NoFile /\ limbo[t] = NoFile /\ \A u \in Upload : ~Locking(u, t) /\ ~Puts(u, t)
  <2>1. limbo[t] = NoFile /\ \A u \in Upload : ~Locking(u, t)
    BY <1>2 DEF BlogMediaInv, OneLockPerName
  <2>2. asset[t] = NoFile
    BY <1>2 DEF BlogMediaInv, UnderItsLock
  <2> QED BY <2>1, <2>2 DEF Puts, Locking, UnderLock
<1>7. Working' = Working /\ \A v, k : (Locking(v, k)' <=> Locking(v, k)) /\ (Puts(v, k)' <=> Puts(v, k))
  BY <1>3, SameAttempts
<1>8. \A k \in Token : ~Reconciling(k)'
  BY <1>3 DEF Reconciling
<1>9. OneLockPerName'
  BY <1>3, <1>7, <1>8 DEF BlogMediaInv, OneLockPerName
<1>10. Numbered'
  <2>1. ASSUME NEW k \in Token, NEW i \in DOMAIN bucket'[k] PROVE bucket'[k][i].id <= uploads
    <3>1. PICK j \in DOMAIN bucket[k] : bucket'[k][i] = bucket[k][j]
      BY <1>4
    <3> QED BY <3>1 DEF BlogMediaInv, Numbered
  <2> QED BY <1>3, <1>7, <2>1 DEF BlogMediaInv, Numbered
<1>11. ASSUME NEW k \in Token PROVE UnderItsLock(k)'
  BY <1>3, <1>7, <1>8 DEF BlogMediaInv, UnderItsLock
<1>12. ASSUME NEW k \in Token \ severed' PROVE ObjectOf(k)'
  <2>1. ObjectOf(k)
    BY <1>3 DEF BlogMediaInv
  <2>2. CASE k = t
    BY <1>3, <1>6, <1>7, <2>2 DEF ObjectOf
  <2>3. CASE k # t
    <3>1. Newest(k)' = Newest(k)
      BY <1>4, <2>3
    <3>2. Settled(k) => Settled(k)'
      BY <1>3, <1>7, <3>1 DEF Settled
    <3>3. \A g : IsObject(k, g) => IsObject(k, g)'
      BY <3>1 DEF IsObject, Visible
    <3> QED BY <1>3, <1>7, <2>1, <3>1, <3>2, <3>3 DEF ObjectOf
  <2> QED BY <2>2, <2>3
<1>13. AnsweredIsRegistered'
  BY <1>3 DEF BlogMediaInv, AnsweredIsRegistered
<1> QED BY <1>5, <1>9, <1>10, <1>11, <1>12, <1>13 DEF BlogMediaInv

\* Nothing has happened.
LEMMA BlogMediaInitInv == BlogMediaInit => BlogMediaInv
<1> SUFFICES ASSUME BlogMediaInit PROVE BlogMediaInv
  OBVIOUS
<1>1. BlogMediaTypeOK
  BY BlogBoundsAssumption DEF BlogMediaInit, BlogMediaTypeOK
<1>2. Working = {} /\ \A k : ~Reconciling(k) /\ \A u : ~Locking(u, k) /\ ~Puts(u, k)
  BY DEF BlogMediaInit, Working, Reconciling, Locking, Puts, Gone, Places
<1>3. /\ OneLockPerName /\ Numbered /\ \A k \in Token : UnderItsLock(k) /\ ObjectOf(k)
  <2>1. \A k \in Token : asset[k] = NoFile /\ limbo[k] = NoFile /\ bucket[k] = <<>> /\ DOMAIN bucket[k] = {}
    BY DEF BlogMediaInit
  <2>2. OneLockPerName
    BY <1>2, <2>1 DEF OneLockPerName
  <2>3. Numbered
    BY <1>2, <2>1 DEF Numbered
  <2>4. \A k \in Token : UnderItsLock(k) /\ ObjectOf(k)
    BY <1>2, <2>1 DEF UnderItsLock, ObjectOf
  <2> QED BY <2>2, <2>3, <2>4
<1>4. AnsweredIsRegistered
  BY DEF BlogMediaInit, AnsweredIsRegistered
<1> QED BY <1>1, <1>3, <1>4 DEF BlogMediaInv

\* The invariant of uploads and reconciliations, whatever fails.
THEOREM BlogMediaInvariance == BlogMediaSpec => []BlogMediaInv
<1>1. BlogMediaInit => BlogMediaInv
  BY BlogMediaInitInv
<1>2. BlogMediaInv /\ [BlogMediaNext]_blogMediaVars => BlogMediaInv'
  <2> SUFFICES ASSUME BlogMediaInv, [BlogMediaNext]_blogMediaVars PROVE BlogMediaInv'
    OBVIOUS
  <2>1. ASSUME NEW u \in Upload, NEW k \in Token, NEW f \in File, BeginUpload(u, k, f) PROVE BlogMediaInv'
    BY <2>1, BeginUploadStep
  <2>2. ASSUME NEW u \in Upload, BeginAvatar(u) \/ Break(u) PROVE BlogMediaInv'
    BY <2>2, BreakSteps
  <2>3. ASSUME NEW u \in Upload, Probed(u) \/ Insert(u) \/ InsertFails(u) PROVE BlogMediaInv'
    BY <2>3, MoveSteps
  <2>4. ASSUME NEW u \in Upload, LockAndLookUp(u) PROVE BlogMediaInv'
    BY <2>4, LockStep
  <2>5. ASSUME NEW u \in Upload, Reuse(u) PROVE BlogMediaInv'
    BY <2>5, ReuseStep
  <2>6. ASSUME NEW u \in Upload, Put(u) \/ PutFails(u) PROVE BlogMediaInv'
    BY <2>6, PutStep
  <2>7. ASSUME NEW u \in Upload, CleanUp(u) PROVE BlogMediaInv'
    BY <2>7, CleanUpStep
  <2>8. ASSUME NEW u \in Upload, Drop(u) PROVE BlogMediaInv'
    BY <2>8, DropStep
  <2>9. ASSUME NEW u \in Upload, CommitAsset(u) PROVE BlogMediaInv'
    BY <2>9, CommitStep
  <2>10. ASSUME NEW u \in Upload, CommitUncertain(u) PROVE BlogMediaInv'
    BY <2>10, UncertainStep
  <2>11. ASSUME NEW u \in Upload, LoseConnection(u) PROVE BlogMediaInv'
    BY <2>11, LoseStep
  <2>12. ASSUME NEW k \in Token, Resolve(k) PROVE BlogMediaInv'
    BY <2>12, ResolveStep
  <2>13. ASSUME NEW k \in Token, Age(k) PROVE BlogMediaInv'
    BY <2>13, AgeStep
  <2>14. ASSUME NEW k \in Token, Reconcile(k) PROVE BlogMediaInv'
    BY <2>14, ReconcileStep
  <2>15. CASE DeleteOrphan
    BY <2>15, DeleteStep
  <2>16. CASE UNCHANGED blogMediaVars
    BY <2>16 DEF blogMediaVars, BlogMediaInv, BlogMediaTypeOK, OneLockPerName, Numbered, UnderItsLock,
                 ObjectOf, IsObject, Settled, Visible, Newest, Working, Locking, Reconciling, Puts,
                 AnsweredIsRegistered
  <2> QED BY <2>1, <2>2, <2>3, <2>4, <2>5, <2>6, <2>7, <2>8, <2>9, <2>10, <2>11, <2>12, <2>13,
             <2>14, <2>15, <2>16 DEF BlogMediaNext
<1> QED BY <1>1, <1>2, PTL DEF BlogMediaSpec

\* A registered asset has its object (put, put_file, cleanup and reconcile_orphans).
THEOREM RegisteredObjectsExist == BlogMediaSpec => []RegisteredHasObject
<1>1. BlogMediaInv => RegisteredHasObject
  BY DEF BlogMediaInv, ObjectOf, IsObject, RegisteredHasObject
<1> QED BY <1>1, BlogMediaInvariance, PTL

\* What an upload was told is what is registered (put_file, reuse).
THEOREM AnswersAreTrue == BlogMediaSpec => []AnsweredIsRegistered
<1>1. BlogMediaInv => AnsweredIsRegistered
  BY DEF BlogMediaInv
<1> QED BY <1>1, BlogMediaInvariance, PTL
-----------------------------------------------------------------------------
(***************************************************************************)
(* MediaLibrary.                                                           *)
(***************************************************************************)
Task == [at : {"none", "search", "upload", "record", "done", "failed"}, keyword : 0 .. MaxKeywords, source : 0 .. 4,
         found : 0 .. Quantity, tried : 0 .. Quantity, keys : SUBSET Image]

\* The removal of a set of images: objects first, rows then.
Removal == [at : {"none", "objects", "rows", "done", "failed"},
            keys : SUBSET Image, left : SUBSET Image, deleted : SUBSET Image]

\* A task that is over.
Over == {"done", "failed"}

\* A task has uploaded what it says, under names of its own.
TaskInv(x, task) ==
    /\ task.at \in {"search", "upload"} => task.keyword >= 1
    /\ task.at = "search" => task.source >= 1
    /\ task.at = "upload" => task.tried < task.found
    /\ \A f \in task.keys : f[1] = x

\* A deletion is about rows of its application, and what it deleted is gone.
RemovalInv(d, del) ==
    /\ del.left \cup del.deleted \subseteq del.keys
    /\ del.keys \subseteq ImagesOf(OwnerOf[d])
    /\ del.at = "none" => del.keys = {}

\* What was recorded, or is to be deleted, is of an extraction that is over: it is
\* never stored or recorded again.
Recorded(f) == f \in recorded \/ \E d \in Deletion : f \in deletion[d].keys

\* The inductive invariant of the library: between the objects and the rows stands the task that has
\* stored the ones and not yet written the others.
LibraryInv ==
    /\ LibraryTypeOK
    /\ \A x \in Extraction : /\ TaskInv(x, extraction[x])
                             /\ extraction[x].at \notin Over => extraction[x].keys \subseteq stored
    /\ \A d \in Deletion : RemovalInv(d, deletion[d]) /\ deletion[d].deleted \cap stored = {}
    /\ \A f \in Image : Recorded(f) => extraction[f[1]].at \in Over
    /\ LibraryAgrees

\* The owner of an image is an extraction.
LEMMA ImageOf == \A f \in Image : f[1] \in Extraction
BY DEF Image

\* The library of an application that has none.
LEMMA LibraryInitInv == LibraryInit => LibraryInv
<1> SUFFICES ASSUME LibraryInit PROVE LibraryInv
  OBVIOUS
<1>1. LibraryTypeOK
  BY QuantityAssumption, MaxAccidentsAssumption DEF LibraryInit, LibraryTypeOK
<1>2. \A x \in Extraction : /\ TaskInv(x, extraction[x])
                            /\ extraction[x].at \notin Over => extraction[x].keys \subseteq stored
  BY DEF LibraryInit, TaskInv
<1>3. \A d \in Deletion : RemovalInv(d, deletion[d]) /\ deletion[d].deleted \cap stored = {}
  BY DEF LibraryInit, RemovalInv
<1>4. \A f \in Image : Recorded(f) => extraction[f[1]].at \in Over
  BY DEF LibraryInit, Recorded
<1>5. LibraryAgrees
  BY DEF LibraryInit, LibraryAgrees
<1> QED BY <1>1, <1>2, <1>3, <1>4, <1>5 DEF LibraryInv

\* After a file or a search comes the next.
LEMMA OnwardIs ==
    ASSUME NEW x, NEW task \in Task, task.keyword >= 1, \A f \in task.keys : f[1] = x
    PROVE  /\ Onward(task) \in Task /\ Onward(task).keys = task.keys /\ TaskInv(x, Onward(task))
           /\ Onward(task).at \in Over => Onward(task).at = "done" /\ task.keys = {}
<1>1. task.keyword \in 0 .. MaxKeywords /\ task.tried \in 0 .. Quantity /\ task.found \in 0 .. Quantity
  BY DEF Task
<1>2. CASE task.tried < task.found
  <2>1. Onward(task) = [task EXCEPT !.at = "upload"]
    BY <1>2 DEF Onward
  <2> QED BY <1>1, <1>2, <2>1 DEF Task, TaskInv, Over
<1>3. CASE ~(task.tried < task.found) /\ task.keyword > 1
  <2>1. Onward(task) = [task EXCEPT !.at = "search", !.keyword = task.keyword - 1, !.source = 1, !.found = 0, !.tried = 0]
    BY <1>3 DEF Onward, SearchFor
  <2>2. task.keyword - 1 \in 0 .. MaxKeywords /\ task.keyword - 1 >= 1 /\ 0 \in 0 .. Quantity
    BY <1>1, <1>3, QuantityAssumption
  <2>3. PICK w : w = [task EXCEPT !.at = "search", !.keyword = task.keyword - 1, !.source = 1, !.found = 0, !.tried = 0]
    OBVIOUS
  <2>4. /\ w.at = "search" /\ w.keyword = task.keyword - 1 /\ w.source = 1 /\ w.found = 0 /\ w.tried = 0
        /\ w.keys = task.keys /\ w \in Task
    <3>1. 1 \in 0 .. 4
      OBVIOUS
    <3> QED BY <2>2, <2>3, <3>1 DEF Task
  <2>5. TaskInv(x, w)
    BY <2>2, <2>4 DEF TaskInv
  <2> QED BY <2>1, <2>3, <2>4, <2>5 DEF Over
<1>4. CASE ~(task.tried < task.found) /\ ~(task.keyword > 1)
  <2>1. PICK place \in {"done", "record"} : place = IF task.keys = {} THEN "done" ELSE "record"
    OBVIOUS
  <2>2. Onward(task) = [task EXCEPT !.at = place]
    BY <1>4, <2>1 DEF Onward
  <2> QED BY <2>1, <2>2 DEF Task, TaskInv, Over
<1> QED BY <1>2, <1>3, <1>4

\* A step of an extraction that records nothing: it may store an object of its own.
LEMMA ExtractionStep ==
    ASSUME LibraryInv, NEW x \in Extraction, NEW w \in Task, extraction' = [extraction EXCEPT ![x] = w],
           TaskInv(x, w), extraction[x].at \notin Over, w.at \in Over => w.at = "done" /\ w.keys = {},
           w.keys \subseteq stored', stored \subseteq stored', stored' \subseteq Image,
           \A f \in stored' \ stored : f[1] = x,
           UNCHANGED <<recorded, deletion>>, accidents' \in 0 .. MaxAccidents
    PROVE  LibraryInv'
<1>1. LibraryTypeOK
  BY DEF LibraryInv
<1>2. extraction'[x] = w /\ \A y \in Extraction \ {x} : extraction'[y] = extraction[y]
  BY <1>1 DEF LibraryTypeOK
<1>3. LibraryTypeOK'
  BY <1>1 DEF LibraryTypeOK, Task
<1>4. \A f \in Image : Recorded(f) => f[1] \in Extraction \ {x} /\ extraction[f[1]].at \in Over
  BY ImageOf DEF LibraryInv
<1>5. \A f : Recorded(f)' <=> Recorded(f)
  BY DEF Recorded
<1>6. ASSUME NEW y \in Extraction
      PROVE  TaskInv(y, extraction'[y]) /\ (extraction'[y].at \notin Over => extraction'[y].keys \subseteq stored')
  BY <1>2 DEF LibraryInv
<1>7. ASSUME NEW d \in Deletion
      PROVE  RemovalInv(d, deletion'[d]) /\ deletion'[d].deleted \cap stored' = {}
  <2>1. RemovalInv(d, deletion[d]) /\ deletion[d].deleted \cap stored = {}
    BY DEF LibraryInv
  <2>2. \A f \in deletion[d].deleted : f \in Image /\ Recorded(f)
    BY <1>1, <2>1 DEF LibraryTypeOK, RemovalInv, Recorded
  <2> QED BY <1>4, <2>1, <2>2
<1>8. \A f \in Image : Recorded(f)' => extraction'[f[1]].at \in Over
  BY <1>2, <1>4, <1>5
<1>9. LibraryAgrees'
  <2>1. ASSUME NEW y \in Extraction, extraction'[y].at = "done", NEW f \in extraction'[y].keys \cap stored'
        PROVE  f \in recorded'
    <3>1. y # x
      BY <1>2, <2>1 DEF Over
    <3>2. f[1] = y /\ f \in extraction[y].keys /\ extraction[y].at = "done"
      BY <1>2, <2>1, <3>1 DEF LibraryInv, TaskInv
    <3> QED BY <2>1, <3>1, <3>2 DEF LibraryInv, LibraryAgrees
  <2>2. ASSUME NEW f \in recorded' \ stored'
        PROVE  \E d \in Deletion : OwnerOf[d] = OwnerOf[f[1]] /\ f \in deletion'[d].keys
    BY <2>2 DEF LibraryInv, LibraryAgrees
  <2>3. ASSUME NEW d \in Deletion, deletion'[d].at = "done"
        PROVE  deletion'[d].deleted \cap (stored' \cup recorded') = {}
    BY <1>7, <2>3 DEF LibraryInv, LibraryAgrees
  <2> QED BY <2>1, <2>2, <2>3 DEF LibraryAgrees
<1> QED BY <1>3, <1>6, <1>7, <1>8, <1>9 DEF LibraryInv

\* Extract, Fetch and UploadImage.
LEMMA ExtractSteps ==
    ASSUME LibraryInv, NEW x \in Extraction,
           \/ \E n \in 1 .. MaxKeywords : Extract(x, n)
           \/ \E n \in 0 .. Quantity : Fetch(x, n)
           \/ UploadImage(x)
    PROVE  LibraryInv'
<1>1. LibraryTypeOK /\ extraction[x] \in Task /\ TaskInv(x, extraction[x])
      /\ (extraction[x].at \notin Over => extraction[x].keys \subseteq stored)
  BY DEF LibraryInv, LibraryTypeOK, Task
<1>2. ASSUME NEW n \in 1 .. MaxKeywords, Extract(x, n) PROVE LibraryInv'
  <2>1. PICK w : w = [extraction[x] EXCEPT !.at = "search", !.keyword = n, !.source = 1, !.found = 0, !.tried = 0]
    OBVIOUS
  <2>2. n \in 0 .. MaxKeywords /\ n >= 1 /\ 0 \in 0 .. Quantity /\ 1 \in 0 .. 4
    BY QuantityAssumption
  <2>3. w \in Task /\ w.at = "search" /\ w.keys = extraction[x].keys /\ TaskInv(x, w)
    <3>1. w \in Task /\ w.at = "search" /\ w.keys = extraction[x].keys /\ w.keyword = n /\ w.source = 1
      BY <1>1, <2>1, <2>2 DEF Task
    <3> QED BY <1>1, <2>2, <3>1 DEF TaskInv
  <2>4. extraction' = [extraction EXCEPT ![x] = w] /\ extraction[x].at = "none"
        /\ UNCHANGED <<stored, recorded, deletion, accidents>>
    BY <1>2, <2>1 DEF Extract, SearchFor
  <2>5. w.keys \subseteq stored' /\ stored' \subseteq Image /\ accidents' \in 0 .. MaxAccidents
        /\ w.at \notin Over /\ extraction[x].at \notin Over
    BY <1>1, <2>3, <2>4 DEF LibraryTypeOK, Over
  <2> QED BY <2>3, <2>4, <2>5, ExtractionStep
<1>3. ASSUME NEW n \in 0 .. Quantity, Fetch(x, n) PROVE LibraryInv'
  <2>1. PICK found \in 0 .. Quantity : found = extraction[x].found + n
    <3>1. extraction[x].found + n <= Quantity /\ extraction[x].found \in 0 .. Quantity
      BY <1>1, <1>3 DEF Task, Fetch
    <3> QED BY <3>1, QuantityAssumption
  <2>2. extraction[x].at = "search" /\ extraction[x].keyword >= 1 /\ UNCHANGED <<stored, recorded, deletion, accidents>>
    BY <1>1, <1>3 DEF Fetch, TaskInv
  <2>3. PICK w \in Task : /\ extraction' = [extraction EXCEPT ![x] = w] /\ w.keys = extraction[x].keys /\ TaskInv(x, w)
                          /\ w.at \in Over => w.at = "done" /\ w.keys = {}
    <3>1. CASE found < Quantity /\ extraction[x].source < 4
      <4>1. PICK w : w = [extraction[x] EXCEPT !.source = @ + 1, !.found = found]
        OBVIOUS
      <4>2. extraction[x].source + 1 \in 0 .. 4 /\ extraction[x].source + 1 >= 1
        BY <1>1, <3>1 DEF Task
      <4>3. w \in Task /\ w.keys = extraction[x].keys /\ w.at = "search" /\ TaskInv(x, w)
        BY <1>1, <2>2, <4>1, <4>2 DEF Task, TaskInv
      <4>4. extraction' = [extraction EXCEPT ![x] = w]
        BY <1>3, <2>1, <3>1, <4>1 DEF Fetch
      <4> QED BY <4>3, <4>4 DEF Over
    <3>2. CASE ~(found < Quantity /\ extraction[x].source < 4)
      <4>1. PICK t : t = [extraction[x] EXCEPT !.found = found]
        OBVIOUS
      <4>2. t \in Task /\ t.keys = extraction[x].keys /\ t.keyword >= 1 /\ \A f \in t.keys : f[1] = x
        BY <1>1, <2>2, <4>1 DEF Task, TaskInv
      <4>3. extraction' = [extraction EXCEPT ![x] = Onward(t)]
        BY <1>3, <2>1, <3>2, <4>1 DEF Fetch
      <4>4. PICK w : w = Onward(t)
        OBVIOUS
      <4>5. w \in Task /\ w.keys = t.keys /\ TaskInv(x, w) /\ (w.at \in Over => w.at = "done" /\ t.keys = {})
        BY <4>2, <4>4, OnwardIs
      <4> QED BY <4>2, <4>3, <4>4, <4>5
    <3> QED BY <3>1, <3>2
  <2>4. w.keys \subseteq stored' /\ stored' \subseteq Image /\ accidents' \in 0 .. MaxAccidents
        /\ extraction[x].at \notin Over
    BY <1>1, <2>2, <2>3 DEF LibraryTypeOK, Over
  <2> QED BY <2>2, <2>3, <2>4, ExtractionStep
<1>4. ASSUME UploadImage(x) PROVE LibraryInv'
  <2>1. PICK t : t = [extraction[x] EXCEPT !.tried = @ + 1]
    OBVIOUS
  <2>2. extraction[x].at = "upload" /\ extraction[x].keyword >= 1 /\ extraction[x].tried < extraction[x].found
        /\ UNCHANGED <<recorded, deletion>>
    BY <1>1, <1>4 DEF UploadImage, TaskInv
  <2>3. extraction[x].tried + 1 \in 1 .. Quantity /\ extraction[x].keyword \in 1 .. MaxKeywords
    BY <1>1, <2>2, QuantityAssumption DEF Task
  <2>4. t \in Task /\ t.keys = extraction[x].keys /\ t.keyword = extraction[x].keyword
        /\ t.tried = extraction[x].tried + 1
    BY <1>1, <2>1, <2>3 DEF Task
  <2>5. PICK f : f = <<x, t.keyword, t.tried>>
    OBVIOUS
  <2>6. f \in Image /\ f[1] = x
    BY <2>3, <2>4, <2>5 DEF Image
  <2>7. \/ /\ stored' = stored \cup {f} /\ UNCHANGED accidents
           /\ extraction' = [extraction EXCEPT ![x] = Onward([t EXCEPT !.keys = @ \cup {f}])]
        \/ /\ extraction' = [extraction EXCEPT ![x] = Onward(t)]
           /\ \/ UNCHANGED <<stored, accidents>>
              \/ Accident /\ stored' = stored \cup {f}
    BY <1>4, <2>1, <2>5 DEF UploadImage
  <2>8. accidents' \in 0 .. MaxAccidents /\ stored \subseteq stored' /\ stored' \subseteq Image
        /\ \A g \in stored' \ stored : g[1] = x
    BY <1>1, <2>6, <2>7, MaxAccidentsAssumption DEF Accident, LibraryTypeOK
  <2>9. PICK u \in Task : /\ extraction' = [extraction EXCEPT ![x] = Onward(u)] /\ u.keyword >= 1
                          /\ u.keys \subseteq stored' /\ \A g \in u.keys : g[1] = x
    <3>1. CASE extraction' = [extraction EXCEPT ![x] = Onward(t)]
      BY <1>1, <2>2, <2>4, <2>8, <3>1 DEF TaskInv, Over
    <3>2. CASE stored' = stored \cup {f}
               /\ extraction' = [extraction EXCEPT ![x] = Onward([t EXCEPT !.keys = @ \cup {f}])]
      <4>1. PICK u : u = [t EXCEPT !.keys = @ \cup {f}]
        OBVIOUS
      <4>2. u \in Task /\ u.keys = t.keys \cup {f} /\ u.keyword = t.keyword
        BY <2>4, <2>6, <4>1 DEF Task
      <4> QED BY <1>1, <2>2, <2>4, <2>6, <3>2, <4>1, <4>2 DEF TaskInv, Over
    <3> QED BY <2>7, <3>1, <3>2
  <2>10. PICK w \in Task : /\ extraction' = [extraction EXCEPT ![x] = w] /\ w.keys = u.keys /\ TaskInv(x, w)
                           /\ w.at \in Over => w.at = "done" /\ w.keys = {}
    BY <2>9, OnwardIs
  <2>11. extraction[x].at \notin Over /\ w.keys \subseteq stored'
    BY <2>2, <2>9, <2>10 DEF Over
  <2> QED BY <2>2, <2>8, <2>10, <2>11, ExtractionStep
<1> QED BY <1>2, <1>3, <1>4

\* The transaction of an extraction records objects that are still stored.
LEMMA RecordStep == ASSUME LibraryInv, NEW x \in Extraction, Record(x) PROVE LibraryInv'
<1>1. LibraryTypeOK /\ extraction[x] \in Task /\ TaskInv(x, extraction[x]) /\ extraction[x].at = "record"
      /\ extraction[x].keys \subseteq stored
  BY DEF LibraryInv, LibraryTypeOK, Task, Record, Over
<1>2. UNCHANGED <<stored, deletion>> /\ accidents' \in 0 .. MaxAccidents
  BY <1>1, MaxAccidentsAssumption DEF Record, Accident, LibraryTypeOK
<1>3. PICK place \in Over : extraction' = [extraction EXCEPT ![x].at = place]
                            /\ (place = "done" => recorded' = recorded \cup extraction[x].keys)
                            /\ recorded' \in {recorded, recorded \cup extraction[x].keys}
  BY DEF Record, Over
<1>4. /\ \A y \in Extraction \ {x} : extraction'[y] = extraction[y]
      /\ extraction'[x].at = place /\ extraction'[x].keys = extraction[x].keys /\ extraction'[x] \in Task
  BY <1>1, <1>3 DEF LibraryTypeOK, Task, Over
<1>5. LibraryTypeOK'
  <2>1. extraction' \in [Extraction -> Task]
    BY <1>1, <1>3, <1>4 DEF LibraryTypeOK, Task, Over
  <2>2. recorded' \subseteq Image
    BY <1>1, <1>3 DEF LibraryTypeOK, Task
  <2> QED BY <1>1, <1>2, <2>1, <2>2 DEF LibraryTypeOK, Task
<1>6. ASSUME NEW y \in Extraction
      PROVE  TaskInv(y, extraction'[y]) /\ (extraction'[y].at \notin Over => extraction'[y].keys \subseteq stored')
  BY <1>1, <1>2, <1>4 DEF LibraryInv, TaskInv, Over
<1>7. \A d \in Deletion : RemovalInv(d, deletion'[d]) /\ deletion'[d].deleted \cap stored' = {}
  BY <1>2 DEF LibraryInv
<1>8. \A f \in Image : Recorded(f)' => Recorded(f) \/ f \in extraction[x].keys
  BY <1>2, <1>3 DEF Recorded
<1>9. \A f \in Image : Recorded(f)' => extraction'[f[1]].at \in Over
  BY <1>1, <1>4, <1>8, ImageOf DEF LibraryInv, TaskInv
<1>10. LibraryAgrees'
  <2>1. ASSUME NEW y \in Extraction, extraction'[y].at = "done"
        PROVE  extraction'[y].keys \cap stored' \subseteq recorded'
    BY <1>2, <1>3, <1>4, <2>1 DEF LibraryInv, LibraryAgrees
  <2>2. ASSUME NEW f \in recorded' \ stored'
        PROVE  \E d \in Deletion : OwnerOf[d] = OwnerOf[f[1]] /\ f \in deletion'[d].keys
    BY <1>1, <1>2, <1>3, <2>2 DEF LibraryInv, LibraryAgrees
  <2>3. ASSUME NEW d \in Deletion, deletion'[d].at = "done"
        PROVE  deletion'[d].deleted \cap (stored' \cup recorded') = {}
    <3>1. \A f \in deletion[d].deleted : f \in Image /\ Recorded(f)
      BY <1>1 DEF LibraryInv, LibraryTypeOK, RemovalInv, Recorded
    <3>2. \A f \in extraction[x].keys : f \in Image /\ ~Recorded(f)
      BY <1>1 DEF LibraryInv, LibraryTypeOK, TaskInv, Over, Task
    <3>3. deletion[d].deleted \cap extraction[x].keys = {}
      BY <3>1, <3>2
    <3>4. deletion[d].deleted \cap (stored \cup recorded) = {}
      BY <1>2, <2>3 DEF LibraryInv, LibraryAgrees
    <3> QED BY <1>2, <1>3, <3>3, <3>4
  <2> QED BY <2>1, <2>2, <2>3 DEF LibraryAgrees
<1> QED BY <1>5, <1>6, <1>7, <1>9, <1>10 DEF LibraryInv
\* A step of a deletion: what it says it deleted is gone, and what is gone is of its
\* application, and it says of which rows it is about.
LEMMA DeletionStep ==
    ASSUME LibraryInv, NEW d \in Deletion, NEW w \in Removal, deletion' = [deletion EXCEPT ![d] = w],
           RemovalInv(d, w), stored' \subseteq stored, recorded' \subseteq recorded,
           deletion[d].at \in {"objects", "rows"} => w.keys = deletion[d].keys,
           deletion[d].at \in {"none", "objects", "rows"},
           \A f \in w.keys : Recorded(f),
           stored \ stored' \subseteq w.keys, recorded \ recorded' \subseteq w.deleted,
           w.deleted \cap stored' = {}, w.at = "done" => w.deleted \cap recorded' = {},
           UNCHANGED extraction, accidents' \in 0 .. MaxAccidents
    PROVE  LibraryInv'
<1>1. LibraryTypeOK
  BY DEF LibraryInv
<1>2. deletion'[d] = w /\ \A e \in Deletion \ {d} : deletion'[e] = deletion[e]
  BY <1>1 DEF LibraryTypeOK
<1>3. LibraryTypeOK'
  BY <1>1 DEF LibraryTypeOK, Removal
<1>4. ASSUME NEW x \in Extraction
      PROVE  TaskInv(x, extraction'[x]) /\ (extraction'[x].at \notin Over => extraction'[x].keys \subseteq stored')
  <2>1. TaskInv(x, extraction[x]) /\ (extraction[x].at \notin Over => extraction[x].keys \subseteq stored)
    BY DEF LibraryInv
  <2>2. \A f \in w.keys : f \in Image /\ extraction[f[1]].at \in Over
    BY <1>1 DEF LibraryInv, RemovalInv, ImagesOf
  <2> QED BY <2>1, <2>2 DEF TaskInv
<1>5. ASSUME NEW e \in Deletion
      PROVE  RemovalInv(e, deletion'[e]) /\ deletion'[e].deleted \cap stored' = {}
  BY <1>2 DEF LibraryInv
<1>6. \A f \in Image : Recorded(f)' => Recorded(f)
  BY <1>2 DEF Recorded
<1>7. \A f \in Image : Recorded(f)' => extraction'[f[1]].at \in Over
  BY <1>6 DEF LibraryInv
<1>8. LibraryAgrees'
  <2>1. ASSUME NEW x \in Extraction, extraction'[x].at = "done"
        PROVE  extraction'[x].keys \cap stored' \subseteq recorded'
    BY <2>1 DEF LibraryInv, LibraryAgrees
  <2>2. ASSUME NEW f \in recorded' \ stored'
        PROVE  \E e \in Deletion : OwnerOf[e] = OwnerOf[f[1]] /\ f \in deletion'[e].keys
    <3>1. CASE f \in stored
      <4>1. f \in w.keys /\ OwnerOf[d] = OwnerOf[f[1]]
        BY <2>2, <3>1 DEF RemovalInv, ImagesOf
      <4> QED BY <1>2, <4>1
    <3>2. CASE f \notin stored
      <4>1. PICK e \in Deletion : OwnerOf[e] = OwnerOf[f[1]] /\ f \in deletion[e].keys
        BY <2>2, <3>2 DEF LibraryInv, LibraryAgrees
      <4>2. f \in deletion'[e].keys
        BY <1>2, <4>1 DEF LibraryInv, RemovalInv
      <4> QED BY <4>1, <4>2
    <3> QED BY <3>1, <3>2
  <2>3. ASSUME NEW e \in Deletion, deletion'[e].at = "done"
        PROVE  deletion'[e].deleted \cap (stored' \cup recorded') = {}
    BY <1>2, <2>3 DEF LibraryInv, LibraryAgrees
  <2> QED BY <2>1, <2>2, <2>3 DEF LibraryAgrees
<1> QED BY <1>3, <1>4, <1>5, <1>7, <1>8 DEF LibraryInv

\* SelectOwned, DeleteObject and DeleteRows.
LEMMA DeleteSteps ==
    ASSUME LibraryInv, NEW d \in Deletion,
           \/ \E urls \in SUBSET Image : SelectOwned(d, urls)
           \/ \E f \in deletion[d].left : DeleteObject(d, f)
           \/ DeleteRows(d)
    PROVE  LibraryInv'
<1>1. LibraryTypeOK /\ deletion[d] \in Removal /\ RemovalInv(d, deletion[d]) /\ deletion[d].deleted \cap stored = {}
  BY DEF LibraryInv, LibraryTypeOK, Removal
<1>2. \A f \in deletion[d].keys : Recorded(f)
  BY DEF Recorded
<1>3. ASSUME NEW urls \in SUBSET Image, SelectOwned(d, urls) PROVE LibraryInv'
  <2>1. PICK owned : owned = urls \cap UrlsOf(OwnerOf[d])
    OBVIOUS
  <2>2. owned \subseteq Image /\ owned \subseteq ImagesOf(OwnerOf[d]) /\ \A f \in owned : Recorded(f)
    BY <2>1 DEF UrlsOf, ImagesOf, Recorded
  <2>3. PICK place \in {"done", "objects"} : place = IF owned = {} THEN "done" ELSE "objects"
    OBVIOUS
  <2>4. PICK w : w = [at |-> place, keys |-> owned, left |-> owned, deleted |-> {}]
    OBVIOUS
  <2>5. w \in Removal /\ w.keys = owned /\ w.deleted = {} /\ RemovalInv(d, w)
    BY <2>2, <2>4 DEF Removal, RemovalInv
  <2>6. deletion' = [deletion EXCEPT ![d] = w] /\ UNCHANGED <<stored, recorded, extraction, accidents>>
        /\ deletion[d].at = "none"
    BY <1>3, <2>1, <2>3, <2>4 DEF SelectOwned
  <2>7. accidents' \in 0 .. MaxAccidents
    BY <1>1, <2>6 DEF LibraryTypeOK
  <2> QED BY <2>2, <2>5, <2>6, <2>7, DeletionStep
<1>4. ASSUME NEW f \in deletion[d].left, DeleteObject(d, f) PROVE LibraryInv'
  <2>1. UNCHANGED <<recorded, extraction>> /\ accidents' \in 0 .. MaxAccidents /\ deletion[d].at = "objects"
    <3>1. UNCHANGED <<recorded, extraction>> /\ deletion[d].at = "objects"
      BY <1>4 DEF DeleteObject
    <3>2. UNCHANGED accidents \/ Accident
      BY <1>4 DEF DeleteObject
    <3> QED BY <1>1, <3>1, <3>2, MaxAccidentsAssumption DEF Accident, LibraryTypeOK
  <2>2. PICK rest : rest = [deletion[d] EXCEPT !.left = @ \ {f}]
    OBVIOUS
  <2>3. rest \in Removal /\ rest.keys = deletion[d].keys /\ rest.deleted = deletion[d].deleted
        /\ rest.left = deletion[d].left \ {f}
    BY <1>1, <2>2 DEF Removal
  <2> DEFINE After(del) == [del EXCEPT !.at = IF del.left # {} THEN "objects"
                                              ELSE IF del.deleted = {} THEN "done" ELSE "rows"]
  <2>4. \/ /\ stored' = stored \ {f}
           /\ deletion' = [deletion EXCEPT ![d] = After([rest EXCEPT !.deleted = @ \cup {f}])]
        \/ /\ deletion' = [deletion EXCEPT ![d] = After(rest)]
           /\ stored' = stored \/ stored' = stored \ {f}
    BY <1>4, <2>2 DEF DeleteObject
  <2>5. ASSUME NEW del \in Removal
        PROVE  /\ After(del) \in Removal /\ After(del).keys = del.keys /\ After(del).left = del.left
               /\ After(del).deleted = del.deleted
               /\ After(del).at \in {"objects", "done", "rows"} /\ (After(del).at = "done" => del.deleted = {})
    <3>1. PICK place \in {"objects", "done", "rows"} :
              place = IF del.left # {} THEN "objects" ELSE IF del.deleted = {} THEN "done" ELSE "rows"
      OBVIOUS
    <3>2. After(del) = [del EXCEPT !.at = place]
      BY <3>1
    <3> HIDE DEF After
    <3> QED BY <3>1, <3>2 DEF Removal
  <2> HIDE DEF After
  <2>6. PICK del \in Removal : /\ deletion' = [deletion EXCEPT ![d] = After(del)]
                               /\ del.keys = deletion[d].keys /\ del.left \subseteq deletion[d].left
                               /\ del.deleted \subseteq deletion[d].deleted \cup {f}
                               /\ stored' = stored \/ stored' = stored \ {f}
                               /\ f \in del.deleted => stored' = stored \ {f} \/ f \in deletion[d].deleted
    <3>1. CASE deletion' = [deletion EXCEPT ![d] = After(rest)] /\ (stored' = stored \/ stored' = stored \ {f})
      BY <2>3, <3>1
    <3>2. CASE stored' = stored \ {f} /\ deletion' = [deletion EXCEPT ![d] = After([rest EXCEPT !.deleted = @ \cup {f}])]
      <4>1. PICK del : del = [rest EXCEPT !.deleted = @ \cup {f}]
        OBVIOUS
      <4>2. del \in Removal /\ del.keys = rest.keys /\ del.left = rest.left /\ del.deleted = rest.deleted \cup {f}
        BY <1>1, <2>3, <4>1 DEF Removal
      <4> QED BY <2>3, <3>2, <4>1, <4>2
    <3> QED BY <2>4, <3>1, <3>2
  <2>7. PICK w \in Removal : /\ w = After(del) /\ w.keys = del.keys /\ w.left = del.left /\ w.deleted = del.deleted
                             /\ w.at \in {"objects", "done", "rows"} /\ (w.at = "done" => w.deleted = {})
    BY <2>5, <2>6
  <2>8. RemovalInv(d, w) /\ f \in w.keys
    BY <1>1, <2>6, <2>7 DEF RemovalInv
  <2>9. w.deleted \cap stored' = {} /\ stored' \subseteq stored /\ stored \ stored' \subseteq w.keys
    BY <1>1, <2>6, <2>7, <2>8
  <2> QED BY <1>2, <2>1, <2>6, <2>7, <2>8, <2>9, DeletionStep
<1>5. ASSUME DeleteRows(d) PROVE LibraryInv'
  <2>1. UNCHANGED <<stored, extraction>> /\ accidents' \in 0 .. MaxAccidents /\ deletion[d].at = "rows"
    BY <1>1, <1>5, MaxAccidentsAssumption DEF DeleteRows, Accident, LibraryTypeOK
  <2>2. PICK place \in {"done", "failed"} : /\ deletion' = [deletion EXCEPT ![d].at = place]
                                            /\ recorded' \in {recorded, RowsLeft(d)}
                                            /\ place = "done" => recorded' = RowsLeft(d)
    BY <1>5 DEF DeleteRows
  <2>3. PICK w : w = [deletion[d] EXCEPT !.at = place]
    OBVIOUS
  <2>4. /\ w \in Removal /\ w.at = place /\ w.keys = deletion[d].keys /\ w.left = deletion[d].left
        /\ w.deleted = deletion[d].deleted
    BY <1>1, <2>3 DEF Removal
  <2>5. deletion' = [deletion EXCEPT ![d] = w]
    BY <1>1, <2>2, <2>3 DEF LibraryTypeOK
  <2>6. RemovalInv(d, w)
    BY <1>1, <2>4 DEF RemovalInv
  <2> QED BY <1>1, <1>2, <2>1, <2>2, <2>4, <2>5, <2>6, DeletionStep DEF RowsLeft
<1> QED BY <1>3, <1>4, <1>5

\* The process ends.
LEMMA CrashStep == ASSUME LibraryInv, CrashLibrary PROVE LibraryInv'
<1>1. LibraryTypeOK /\ UNCHANGED <<stored, recorded>> /\ accidents' \in 0 .. MaxAccidents
  BY MaxAccidentsAssumption DEF LibraryInv, LibraryTypeOK, CrashLibrary, Accident
<1>2. ASSUME NEW x \in Extraction
      PROVE  /\ extraction'[x] \in Task /\ extraction'[x].keys = extraction[x].keys
             /\ extraction'[x] = extraction[x] \/ (extraction'[x].at = "failed" /\ extraction[x].at \notin Over)
  <2>1. extraction[x] \in Task
    BY <1>1 DEF LibraryTypeOK, Task
  <2>2. \/ extraction'[x] = extraction[x]
        \/ extraction'[x] = [extraction[x] EXCEPT !.at = "failed"] /\ extraction[x].at \notin Over
    BY DEF CrashLibrary, Over
  <2> QED BY <2>1, <2>2 DEF Task
<1>3. ASSUME NEW d \in Deletion
      PROVE  /\ deletion'[d] \in Removal /\ deletion'[d].keys = deletion[d].keys
             /\ deletion'[d].left = deletion[d].left /\ deletion'[d].deleted = deletion[d].deleted
             /\ deletion'[d].at = deletion[d].at \/ deletion'[d].at = "failed"
  <2>1. deletion[d] \in Removal
    BY <1>1 DEF LibraryTypeOK, Removal
  <2>2. deletion'[d] = deletion[d] \/ deletion'[d] = [deletion[d] EXCEPT !.at = "failed"]
    BY DEF CrashLibrary
  <2> QED BY <2>1, <2>2 DEF Removal
<1>4. LibraryTypeOK'
  <2>1. extraction' \in [Extraction -> Task] /\ deletion' \in [Deletion -> Removal]
    BY <1>2, <1>3 DEF CrashLibrary
  <2> QED BY <1>1, <2>1 DEF LibraryTypeOK, Task, Removal
<1>5. ASSUME NEW x \in Extraction
      PROVE  TaskInv(x, extraction'[x]) /\ (extraction'[x].at \notin Over => extraction'[x].keys \subseteq stored')
  BY <1>1, <1>2 DEF LibraryInv, TaskInv, Over
<1>6. ASSUME NEW d \in Deletion
      PROVE  RemovalInv(d, deletion'[d]) /\ deletion'[d].deleted \cap stored' = {}
  BY <1>1, <1>3 DEF LibraryInv, RemovalInv
<1>7. \A f : Recorded(f)' <=> Recorded(f)
  BY <1>1, <1>3 DEF Recorded
<1>8. \A f \in Image : Recorded(f)' => extraction'[f[1]].at \in Over
  BY <1>2, <1>7, ImageOf DEF LibraryInv, Over
<1>9. LibraryAgrees'
  BY <1>1, <1>2, <1>3 DEF LibraryInv, LibraryAgrees
<1> QED BY <1>4, <1>5, <1>6, <1>8, <1>9 DEF LibraryInv

\* The invariant of the stock media, whatever fails.
THEOREM LibraryInvariance == LibrarySpec => []LibraryInv
<1>1. LibraryInit => LibraryInv
  BY LibraryInitInv
<1>2. LibraryInv /\ [LibraryNext]_libraryVars => LibraryInv'
  <2> SUFFICES ASSUME LibraryInv, [LibraryNext]_libraryVars PROVE LibraryInv'
    OBVIOUS
  <2>1. ASSUME NEW x \in Extraction, \/ \E n \in 1 .. MaxKeywords : Extract(x, n)
                                     \/ \E n \in 0 .. Quantity : Fetch(x, n)
                                     \/ UploadImage(x)
        PROVE  LibraryInv'
    BY <2>1, ExtractSteps
  <2>2. ASSUME NEW x \in Extraction, Record(x) PROVE LibraryInv'
    BY <2>2, RecordStep
  <2>3. ASSUME NEW d \in Deletion, \/ \E urls \in SUBSET Image : SelectOwned(d, urls)
                                   \/ \E f \in deletion[d].left : DeleteObject(d, f)
                                   \/ DeleteRows(d)
        PROVE  LibraryInv'
    BY <2>3, DeleteSteps
  <2>4. CASE CrashLibrary
    BY <2>4, CrashStep
  <2>5. CASE UNCHANGED libraryVars
    BY <2>5 DEF libraryVars, LibraryInv, LibraryTypeOK, Recorded, LibraryAgrees
  <2> QED BY <2>1, <2>2, <2>3, <2>4, <2>5 DEF LibraryNext
<1> QED BY <1>1, <1>2, PTL DEF LibrarySpec

\* Type correctness of extractions and deletions.
THEOREM LibraryTypeCorrect == LibrarySpec => []LibraryTypeOK
<1>1. LibraryInv => LibraryTypeOK
  BY DEF LibraryInv
<1> QED BY <1>1, LibraryInvariance, PTL

\* Bucket and rows agree as far as they can (media_extractor, delete_media).
THEOREM BucketAndRowsAgree == LibrarySpec => []LibraryAgrees
<1>1. LibraryInv => LibraryAgrees
  BY DEF LibraryInv
<1> QED BY <1>1, LibraryInvariance, PTL
=============================================================================
