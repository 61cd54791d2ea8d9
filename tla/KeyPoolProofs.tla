--------------------------- MODULE KeyPoolProofs ---------------------------
(***************************************************************************)
(* Proofs about KeyPool and, at the end, about KeyRotation: the pool with  *)
(* the turns of speech.  For any keys, callers, limits and bounds.         *)
(***************************************************************************)
EXTENDS KeyRotation, FiniteSetTheorems, TLAPS

-----------------------------------------------------------------------------
\* The inductive invariant.

\* The type invariant, in parts.
TableTypes ==
    /\ rows \subseteq Key /\ pool \subseteq rows /\ active \subseteq rows
    /\ limit \in [Key -> Nat] /\ used \in [Key -> Nat]
    /\ nextId \in 1 .. K + 1
    /\ admin \in 0 .. MaxAdmin
    /\ granted \in [Key -> Nat]
    /\ edited \subseteq Key /\ exhausted \subseteq Key

\* The callers and the cursor of every process.
CallerTypes ==
    /\ pc \in [Caller -> CallerPC]
    /\ key \in [Caller -> KeyOrNone]
    /\ todo \in [Caller -> SUBSET Key]
    /\ noted \in [Caller -> Nat]
    /\ tries \in [Caller -> 0 .. MaxTries]
    /\ cursor \in [Process -> KeyOrNone]
    /\ lock \in [Process -> SUBSET Speech]

\* A caller between the selection and the note has a key.
CallShape ==
    \A c \in Caller :
        pc[c] \in {"calling", "using", "marking", "writing"} => key[c] \in Key

\* Nothing refers to an id before the table has issued it.
IdInv ==
    /\ \A k \in rows \cup edited \cup exhausted : k < nextId
    /\ \A c \in Caller : key[c] < nextId
    /\ \A c \in Caller : \A k \in todo[c] : k < nextId
    /\ \A k \in Key : k >= nextId => granted[k] = 0

\* The limit that was read is that of the key, unless it has been edited.
NotedInv ==
    \A c \in Caller :
        pc[c] = "writing" /\ key[c] \notin edited => noted[c] = limit[key[c]]

\* What is reserved is counted, and within the limit.
GrantInv ==
    \A k \in Key \ edited :
        /\ granted[k] <= used[k]
        /\ limit[k] # 0 => granted[k] <= limit[k]

\* An exhausted key is disabled if it has no limit; otherwise its counter is at it.
SkipInv ==
    \A k \in exhausted \ edited :
        (limit[k] = 0 /\ k \notin active) \/ (limit[k] # 0 /\ used[k] >= limit[k])

\* Only a caller without a reservation counts after its success, and a call that it made.
UsingShape == \A c \in Caller : pc[c] = "using" => c \in Unreserved /\ tries[c] >= 1

\* The inductive invariant of the pool.
Inv ==
    /\ TypeOK /\ IdInv /\ NotedInv /\ UsingShape
    /\ GrantInv /\ SkipInv /\ OvershootBounded

USE DEF table, callers, ghosts, Goes, Holds, Administers, MayCallAgain

\* The assumptions on the constants, and what they say of Key.
LEMMA Assumptions ==
    /\ K \in Nat /\ Limits \subseteq Nat /\ MaxTries \in Nat /\ MaxAdmin \in Nat
    /\ Home \in [Speech -> Process]
    /\ Key = 1 .. K /\ KeyOrNone = 0 .. K /\ Speech \subseteq Caller
  <1>1. Key = 1 .. K /\ KeyOrNone = 0 .. K
    BY KAssumption DEF Key, KeyOrNone
  <1>. QED
    BY <1>1, KAssumption, LimitsAssumption, BoundsAssumption, HomeAssumption
    DEF Caller, Unreserved

\* The parts make up the type invariant.
LEMMA TypesAreTypes == TypeOK <=> TableTypes /\ CallerTypes /\ CallShape
  BY DEF TypeOK, TableTypes, CallerTypes, CallShape

\* There are at most as many calls that may still be counted for k as unreserved callers
\* make.
LEMMA ProspectiveBound ==
  ASSUME NEW k \in Key
  PROVE  /\ IsFiniteSet(Prospective(k)) /\ IsFiniteSet(Uncounted)
         /\ Cardinality(Prospective(k)) \in Nat /\ Cardinality(Uncounted) \in Nat
         /\ Cardinality(Prospective(k)) <= Cardinality(Uncounted)
  <1>1. IsFiniteSet(Uncounted)
    <2>1. IsFiniteSet(Unreserved)
      BY CallerAssumption, FS_Union DEF Unreserved
    <2>2. IsFiniteSet(1 .. MaxTries)
      BY BoundsAssumption, FS_Interval
    <2>. QED
      BY <2>1, <2>2, FS_Product DEF Uncounted
  <1>2. Prospective(k) \subseteq Uncounted
    BY DEF Prospective
  <1>. QED
    BY <1>1, <1>2, FS_Subset, FS_CardinalityType

\* The invariant holds initially.
LEMMA InitInv == Init => Inv
  <1>. SUFFICES ASSUME Init PROVE Inv
    OBVIOUS
  <1>1. TableTypes
    <2>1. limit \in [Key -> Nat]
      BY Assumptions DEF Init
    <2>2. rows \subseteq Key /\ nextId \in 1 .. K + 1
      BY Assumptions DEF Init
    <2>. QED
      BY <2>1, <2>2, Assumptions DEF Init, TableTypes
  <1>2. CallerTypes /\ CallShape
    BY Assumptions DEF Init, CallerTypes, CallShape, CallerPC
  <1>3. IdInv
    BY Assumptions DEF Init, IdInv
  <1>4. NotedInv /\ GrantInv /\ SkipInv
    <2>1. limit \in [Key -> Nat]
      BY Assumptions DEF Init
    <2>. QED
      BY <2>1 DEF Init, NotedInv, GrantInv, SkipInv
  <1>5. UsingShape
    BY DEF Init, UsingShape
  <1>6. OvershootBounded
    <2>1. limit \in [Key -> Nat]
      BY Assumptions DEF Init
    <2>. QED
      BY <2>1, ProspectiveBound DEF Init, OvershootBounded
  <1>. QED
    BY <1>1, <1>2, <1>3, <1>4, <1>5, <1>6, TypesAreTypes DEF Inv

\* What Grant does to the counters.
LEMMA GrantEffect ==
  ASSUME TableTypes, NEW S \in SUBSET Key, Grant(S)
  PROVE  /\ used' \in [Key -> Nat] /\ granted' \in [Key -> Nat]
         /\ \A k \in S : used'[k] = used[k] + 1 /\ granted'[k] = granted[k] + 1
         /\ \A k \in Key \ S : used'[k] = used[k] /\ granted'[k] = granted[k]
  BY DEF Grant, TableTypes

\* Every step keeps the types.
LEMMA TypeStep ==
  ASSUME TableTypes, CallerTypes, CallShape, Next
  PROVE  (TableTypes /\ CallerTypes /\ CallShape)'
  <1>1. CASE \E l \in Limits : AddKey(l)
    <2>1. PICK l \in Limits : AddKey(l)
      BY <1>1
    <2>2. TableTypes'
      BY <2>1, Assumptions DEF AddKey, TableTypes
    <2>3. CallerTypes'
      BY <2>1, Assumptions DEF AddKey, CallerTypes
    <2>4. CallShape'
      BY <2>1, Assumptions DEF AddKey, CallShape
    <2>. QED
      BY <2>2, <2>3, <2>4
  <1>2. CASE \E k \in Key : DeleteKey(k)
    <2>1. PICK k \in Key : DeleteKey(k)
      BY <1>2
    <2>2. TableTypes'
      BY <2>1, Assumptions, SMTT(30) DEF DeleteKey, TableTypes, CallerTypes, CallShape
    <2>3. CallerTypes'
      BY <2>1, Assumptions DEF DeleteKey, CallerTypes
    <2>4. CallShape'
      BY <2>1, Assumptions DEF DeleteKey, CallShape
    <2>. QED
      BY <2>2, <2>3, <2>4
  <1>3. CASE \E k \in Key : MoveKey(k)
    <2>1. PICK k \in Key : MoveKey(k)
      BY <1>3
    <2>2. TableTypes'
      BY <2>1, Assumptions, SMTT(30) DEF MoveKey, TableTypes, CallerTypes, CallShape
    <2>3. CallerTypes'
      BY <2>1, Assumptions DEF MoveKey, CallerTypes
    <2>4. CallShape'
      BY <2>1, Assumptions DEF MoveKey, CallShape
    <2>. QED
      BY <2>2, <2>3, <2>4
  <1>4. CASE \E k \in Key, l \in Limits : EditLimit(k, l)
    <2>1. PICK k \in Key, l \in Limits : EditLimit(k, l)
      BY <1>4
    <2>2. TableTypes'
      <3>1. limit' \in [Key -> Nat]
        BY <2>1, Assumptions DEF EditLimit, TableTypes
      <3>2. edited' \subseteq Key /\ exhausted' \subseteq Key /\ admin' \in 0 .. MaxAdmin
        BY <2>1, Assumptions DEF EditLimit, TableTypes
      <3>. QED
        BY <2>1, <3>1, <3>2 DEF EditLimit, TableTypes
    <2>3. CallerTypes'
      BY <2>1, Assumptions DEF EditLimit, CallerTypes
    <2>4. CallShape'
      BY <2>1, Assumptions DEF EditLimit, CallShape
    <2>. QED
      BY <2>2, <2>3, <2>4
  <1>5. CASE \E k \in Key : EnableKey(k)
    <2>1. PICK k \in Key : EnableKey(k)
      BY <1>5
    <2>2. TableTypes'
      BY <2>1, Assumptions, SMTT(30) DEF EnableKey, TableTypes, CallerTypes, CallShape
    <2>3. CallerTypes'
      BY <2>1, Assumptions DEF EnableKey, CallerTypes
    <2>4. CallShape'
      BY <2>1, Assumptions DEF EnableKey, CallShape
    <2>. QED
      BY <2>2, <2>3, <2>4
  <1>6. CASE \E k \in Key : DisableKey(k)
    <2>1. PICK k \in Key : DisableKey(k)
      BY <1>6
    <2>2. TableTypes'
      BY <2>1, Assumptions DEF DisableKey, TableTypes
    <2>3. CallerTypes'
      BY <2>1, Assumptions DEF DisableKey, CallerTypes
    <2>4. CallShape'
      BY <2>1, Assumptions DEF DisableKey, CallShape
    <2>. QED
      BY <2>2, <2>3, <2>4
  <1>7. CASE \E S \in SUBSET Key : Reset(S)
    <2>1. PICK S \in SUBSET Key : Reset(S)
      BY <1>7
    <2>2. TableTypes'
      BY <2>1, Assumptions DEF Reset, TableTypes, CallerTypes
    <2>3. CallerTypes'
      BY <2>1, Assumptions DEF Reset, CallerTypes
    <2>4. CallShape'
      BY <2>1, Assumptions DEF Reset, CallShape
    <2>. QED
      BY <2>2, <2>3, <2>4
  <1>8. CASE \E S \in SUBSET Key : Claim(S)
    <2>1. PICK S \in SUBSET Key : Claim(S)
      BY <1>8
    <2>2. TableTypes'
      <3>1. admin' \in 0 .. MaxAdmin
        BY <2>1, Assumptions DEF Claim, TableTypes
      <3>2. used' \in [Key -> Nat] /\ granted' \in [Key -> Nat]
        BY <2>1, GrantEffect DEF Claim, TableTypes
      <3>. QED
        BY <2>1, <3>1, <3>2 DEF Claim, TableTypes
    <2>3. CallerTypes'
      BY <2>1, Assumptions DEF Claim, CallerTypes
    <2>4. CallShape'
      BY <2>1, Assumptions DEF Claim, CallShape
    <2>. QED
      BY <2>2, <2>3, <2>4
  <1>9. CASE \E c \in Caller : SelectToReserve(c)
    <2>1. PICK c \in Caller : SelectToReserve(c)
      BY <1>9
    <2>2. TableTypes'
      BY <2>1, Assumptions DEF SelectToReserve, TableTypes
    <2>3. CallerTypes'
      BY <2>1, Assumptions DEF SelectToReserve, TableTypes, CallerTypes, CallerPC, Offered
    <2>4. CallShape'
      BY <2>1, Assumptions DEF SelectToReserve, CallShape
    <2>. QED
      BY <2>2, <2>3, <2>4
  <1>10. CASE \E c \in Caller : SelectByPriority(c)
    <2>1. PICK c \in Caller : SelectByPriority(c)
      BY <1>10
    <2>2. TableTypes'
      BY <2>1, Assumptions DEF SelectByPriority, TableTypes
    <2>3. CallerTypes'
      <3>1. key' = key \/ \E k \in Key : key' = [key EXCEPT ![c] = k]
        BY <2>1 DEF SelectByPriority, Offered, TableTypes
      <3>2. key' \in [Caller -> KeyOrNone]
        BY <3>1 DEF CallerTypes, KeyOrNone
      <3>3. pc' \in [Caller -> CallerPC]
        BY <2>1 DEF SelectByPriority, CallerTypes, CallerPC
      <3>. QED
        BY <2>1, <3>2, <3>3 DEF SelectByPriority, CallerTypes
    <2>4. CallShape'
      BY <2>1, Assumptions DEF SelectByPriority, TableTypes, CallerTypes, CallShape, Offered
    <2>. QED
      BY <2>2, <2>3, <2>4
  <1>11. CASE \E c \in Caller : SelectAfterCursor(c)
    <2>1. PICK c \in Caller : SelectAfterCursor(c)
      BY <1>11
    <2>2. TableTypes'
      BY <2>1, Assumptions DEF SelectAfterCursor, TableTypes
    <2>3. CallerTypes'
      <3>1. \E k \in KeyOrNone : key' = [key EXCEPT ![c] = k]
        BY <2>1, Assumptions DEF SelectAfterCursor
      <3>2. key' \in [Caller -> KeyOrNone]
        BY <3>1 DEF CallerTypes
      <3>3. pc' \in [Caller -> CallerPC]
        BY <2>1 DEF SelectAfterCursor, CallerTypes, CallerPC
      <3>4. lock' \in [Process -> SUBSET Speech]
        BY <2>1 DEF SelectAfterCursor, CallerTypes
      <3>. QED
        BY <2>1, <3>2, <3>3, <3>4 DEF SelectAfterCursor, CallerTypes
    <2>4. CallShape'
      BY <2>1, Assumptions DEF SelectAfterCursor, CallerTypes, CallShape
    <2>. QED
      BY <2>2, <2>3, <2>4
  <1>12. CASE \E c \in Caller, k \in Key : Reserve(c, k)
    <2>1. PICK c \in Caller, k \in Key : Reserve(c, k)
      BY <1>12
    <2>2. TableTypes'
      <3>1. UNCHANGED <<rows, pool, active, limit, nextId, admin, edited, exhausted>>
        BY <2>1 DEF Reserve
      <3>2. (used' = used /\ granted' = granted) \/ (Usable(k) /\ Grant({k}))
        BY <2>1 DEF Reserve
      <3>3. used' \in [Key -> Nat] /\ granted' \in [Key -> Nat]
        BY <3>2, <2>1, GrantEffect DEF TableTypes
      <3>. QED
        BY <3>1, <3>3 DEF TableTypes
    <2>3. CallerTypes'
      <3>1. \E S \in SUBSET Key : todo' = [todo EXCEPT ![c] = S]
        BY <2>1 DEF Reserve, CallerTypes
      <3>2. key' = key \/ key' = [key EXCEPT ![c] = k]
        BY <2>1 DEF Reserve
      <3>3. \E p \in CallerPC : pc' = pc \/ pc' = [pc EXCEPT ![c] = p]
        BY <2>1 DEF Reserve, CallerPC
      <3>4. todo' \in [Caller -> SUBSET Key] /\ pc' \in [Caller -> CallerPC]
        BY <3>1, <3>3 DEF CallerTypes
      <3>5. key' \in [Caller -> KeyOrNone]
        BY <2>1, <3>2, Assumptions DEF CallerTypes
      <3>. QED
        BY <2>1, <3>4, <3>5 DEF Reserve, CallerTypes
    <2>4. CallShape'
      BY <2>1, Assumptions DEF Reserve, CallerTypes, CallShape
    <2>. QED
      BY <2>2, <2>3, <2>4
  <1>13. CASE \E c \in Caller : NoKey(c)
    <2>1. PICK c \in Caller : NoKey(c)
      BY <1>13
    <2>2. TableTypes'
      BY <2>1, Assumptions DEF NoKey, TableTypes
    <2>3. CallerTypes'
      BY <2>1, Assumptions DEF NoKey, CallerTypes, CallerPC
    <2>4. CallShape'
      BY <2>1, Assumptions DEF NoKey, CallShape
    <2>. QED
      BY <2>2, <2>3, <2>4
  <1>14. CASE \E c \in Caller : MoveCursor(c)
    <2>1. PICK c \in Caller : MoveCursor(c)
      BY <1>14
    <2>2. TableTypes'
      BY <2>1, Assumptions DEF MoveCursor, TableTypes
    <2>3. CallerTypes'
      BY <2>1, Assumptions DEF MoveCursor, CallerTypes, CallerPC
    <2>4. CallShape'
      BY <2>1, Assumptions DEF MoveCursor, CallerTypes, CallShape
    <2>. QED
      BY <2>2, <2>3, <2>4
  <1>15. CASE \E c \in Caller : Call(c)
    <2>1. PICK c \in Caller : Call(c)
      BY <1>15
    <2>2. TableTypes'
      BY <2>1, Assumptions DEF Call, TableTypes
    <2>3. CallerTypes'
      <3>1. \E p \in CallerPC : pc' = [pc EXCEPT ![c] = p]
        BY <2>1 DEF Call, CallerPC
      <3>2. pc' \in [Caller -> CallerPC]
        BY <3>1 DEF CallerTypes
      <3>3. tries[c] \in 0 .. MaxTries /\ tries[c] < MaxTries
        BY <2>1 DEF Call, CallerTypes
      <3>4. tries' \in [Caller -> 0 .. MaxTries]
        BY <2>1, <3>3, Assumptions DEF Call, CallerTypes
      <3>. QED
        BY <2>1, <3>2, <3>4 DEF Call, CallerTypes
    <2>4. CallShape'
      BY <2>1, Assumptions DEF Call, CallerTypes, CallShape
    <2>. QED
      BY <2>2, <2>3, <2>4
  <1>16. CASE \E c \in Caller : GiveUp(c)
    <2>1. PICK c \in Caller : GiveUp(c)
      BY <1>16
    <2>2. TableTypes'
      BY <2>1, Assumptions DEF GiveUp, TableTypes
    <2>3. CallerTypes'
      BY <2>1, Assumptions DEF GiveUp, CallerTypes, CallerPC
    <2>4. CallShape'
      BY <2>1, Assumptions DEF GiveUp, CallShape
    <2>. QED
      BY <2>2, <2>3, <2>4
  <1>17. CASE \E c \in Caller : MarkUsed(c)
    <2>1. PICK c \in Caller : MarkUsed(c)
      BY <1>17
    <2>2. TableTypes'
      <3>1. key[c] \in Key /\ UNCHANGED <<rows, pool, active, limit, nextId, admin, ghosts>>
        BY <2>1 DEF MarkUsed, CallShape
      <3>2. used' = used \/ used' = [used EXCEPT ![key[c]] = @ + 1]
        BY <2>1 DEF MarkUsed
      <3>3. \A k \in Key : used[k] \in Nat /\ used'[k] >= used[k]
        BY <3>1, <3>2 DEF TableTypes
      <3>4. used' \in [Key -> Nat]
        BY <3>1, <3>2 DEF TableTypes
      <3>. QED
        BY <3>1, <3>4 DEF TableTypes
    <2>3. CallerTypes'
      BY <2>1, Assumptions DEF MarkUsed, CallerTypes, CallerPC
    <2>4. CallShape'
      BY <2>1, Assumptions DEF MarkUsed, CallerTypes, CallShape
    <2>. QED
      BY <2>2, <2>3, <2>4
  <1>18. CASE \E c \in Caller : ReadLimit(c)
    <2>1. PICK c \in Caller : ReadLimit(c)
      BY <1>18
    <2>2. TableTypes'
      BY <2>1, Assumptions DEF ReadLimit, TableTypes
    <2>3. CallerTypes'
      BY <2>1, Assumptions DEF ReadLimit, TableTypes, CallerTypes, CallerPC
    <2>4. CallShape'
      BY <2>1, Assumptions DEF ReadLimit, CallerTypes, CallShape
    <2>. QED
      BY <2>2, <2>3, <2>4
  <1>19. CASE \E c \in Caller : WriteExhausted(c)
    <2>1. PICK c \in Caller : WriteExhausted(c)
      BY <1>19
    <2>2. TableTypes'
      BY <2>1, Assumptions DEF WriteExhausted, TableTypes, CallerTypes
    <2>3. CallerTypes'
      BY <2>1, Assumptions DEF WriteExhausted, CallerTypes, CallerPC
    <2>4. CallShape'
      BY <2>1, Assumptions DEF WriteExhausted, CallerTypes, CallShape
    <2>. QED
      BY <2>2, <2>3, <2>4
  <1>20. QED
    BY <1>1, <1>2, <1>3, <1>4, <1>5, <1>6, <1>7, <1>8, <1>9, <1>10, <1>11, <1>12,
       <1>13, <1>14, <1>15, <1>16, <1>17, <1>18, <1>19
    DEF Next, AdminStep, CallerStep, Select

\* No id is used before it is issued.
LEMMA IdStep ==
  ASSUME TableTypes, CallerTypes, CallShape, IdInv, Next
  PROVE  IdInv'
  <1>1. CASE \E l \in Limits : AddKey(l)
    <2>1. PICK l \in Limits : AddKey(l)
      BY <1>1
    <2>. QED BY <2>1, Assumptions DEF AddKey, TableTypes, CallerTypes, IdInv
  <1>2. CASE \E k \in Key : DeleteKey(k)
    <2>1. PICK k \in Key : DeleteKey(k)
      BY <1>2
    <2>. QED BY <2>1, Assumptions DEF DeleteKey, IdInv
  <1>3. CASE \E k \in Key : MoveKey(k)
    <2>1. PICK k \in Key : MoveKey(k)
      BY <1>3
    <2>. QED BY <2>1, Assumptions DEF MoveKey, IdInv
  <1>4. CASE \E k \in Key, l \in Limits : EditLimit(k, l)
    <2>1. PICK k \in Key, l \in Limits : EditLimit(k, l)
      BY <1>4
    <2>. QED BY <2>1, Assumptions DEF EditLimit, IdInv
  <1>5. CASE \E k \in Key : EnableKey(k)
    <2>1. PICK k \in Key : EnableKey(k)
      BY <1>5
    <2>. QED BY <2>1, Assumptions DEF EnableKey, IdInv
  <1>6. CASE \E k \in Key : DisableKey(k)
    <2>1. PICK k \in Key : DisableKey(k)
      BY <1>6
    <2>. QED BY <2>1, Assumptions DEF DisableKey, IdInv
  <1>7. CASE \E S \in SUBSET Key : Reset(S)
    <2>1. PICK S \in SUBSET Key : Reset(S)
      BY <1>7
    <2>. QED BY <2>1, Assumptions DEF Reset, IdInv
  <1>8. CASE \E S \in SUBSET Key : Claim(S)
    <2>1. PICK S \in SUBSET Key : Claim(S)
      BY <1>8
    <2>. QED BY <2>1, Assumptions DEF Claim, TableTypes, IdInv, Grant, Offered
  <1>9. CASE \E c \in Caller : SelectToReserve(c)
    <2>1. PICK c \in Caller : SelectToReserve(c)
      BY <1>9
    <2>. QED BY <2>1, Assumptions DEF SelectToReserve, TableTypes, CallerTypes, IdInv, Offered
  <1>10. CASE \E c \in Caller : SelectByPriority(c)
    <2>1. PICK c \in Caller : SelectByPriority(c)
      BY <1>10
    <2>. QED BY <2>1, Assumptions DEF SelectByPriority, TableTypes, CallerTypes, IdInv, Offered
  <1>11. CASE \E c \in Caller : SelectAfterCursor(c)
    <2>1. PICK c \in Caller : SelectAfterCursor(c)
      BY <1>11
    <2>. QED
      <3>1. \E k \in Offered \cup {0} : key' = [key EXCEPT ![c] = k]
        BY <2>1 DEF SelectAfterCursor, FirstAfter
      <3>2. \A k \in Offered : k < nextId
        BY DEF Offered, IdInv, TableTypes
      <3>3. 0 < nextId
        BY Assumptions DEF TableTypes
      <3>4. \A d \in Caller : key'[d] < nextId
        BY <3>1, <3>2, <3>3 DEF IdInv, CallerTypes
      <3>. QED
        BY <2>1, <3>4 DEF SelectAfterCursor, IdInv
  <1>12. CASE \E c \in Caller, k \in Key : Reserve(c, k)
    <2>1. PICK c \in Caller, k \in Key : Reserve(c, k)
      BY <1>12
    <2>. QED
      <3>1. UNCHANGED <<rows, pool, active, limit, nextId, admin, edited, exhausted>>
        BY <2>1 DEF Reserve
      <3>2. (used' = used /\ granted' = granted) \/ (Usable(k) /\ Grant({k}))
        BY <2>1 DEF Reserve
      <3>3. k < nextId /\ \A d \in Caller : \A j \in todo'[d] : j < nextId
        BY <2>1 DEF Reserve, IdInv, CallerTypes
      <3>4. \A d \in Caller : key'[d] < nextId
        BY <2>1, <3>3 DEF Reserve, IdInv, CallerTypes
      <3>5. \A j \in Key : j >= nextId => granted'[j] = granted[j]
        <4>1. k < nextId /\ nextId \in Nat /\ \A j \in Key : j \in Nat
          BY <3>3, Assumptions DEF TableTypes
        <4>2. \A j \in Key : j >= nextId => j \in Key \ {k}
          BY <4>1
        <4>. QED
          BY <3>2, <4>2, <2>1, GrantEffect
      <3>. QED
        BY <3>1, <3>3, <3>4, <3>5 DEF IdInv
  <1>13. CASE \E c \in Caller : NoKey(c)
    <2>1. PICK c \in Caller : NoKey(c)
      BY <1>13
    <2>. QED BY <2>1, Assumptions DEF NoKey, IdInv
  <1>14. CASE \E c \in Caller : MoveCursor(c)
    <2>1. PICK c \in Caller : MoveCursor(c)
      BY <1>14
    <2>. QED BY <2>1, Assumptions DEF MoveCursor, IdInv
  <1>15. CASE \E c \in Caller : Call(c)
    <2>1. PICK c \in Caller : Call(c)
      BY <1>15
    <2>. QED BY <2>1, Assumptions DEF Call, IdInv
  <1>16. CASE \E c \in Caller : GiveUp(c)
    <2>1. PICK c \in Caller : GiveUp(c)
      BY <1>16
    <2>. QED BY <2>1, Assumptions DEF GiveUp, IdInv
  <1>17. CASE \E c \in Caller : MarkUsed(c)
    <2>1. PICK c \in Caller : MarkUsed(c)
      BY <1>17
    <2>. QED BY <2>1, Assumptions DEF MarkUsed, IdInv
  <1>18. CASE \E c \in Caller : ReadLimit(c)
    <2>1. PICK c \in Caller : ReadLimit(c)
      BY <1>18
    <2>. QED BY <2>1, Assumptions DEF ReadLimit, IdInv
  <1>19. CASE \E c \in Caller : WriteExhausted(c)
    <2>1. PICK c \in Caller : WriteExhausted(c)
      BY <1>19
    <2>. QED BY <2>1, Assumptions DEF WriteExhausted, IdInv
  <1>20. QED
    BY <1>1, <1>2, <1>3, <1>4, <1>5, <1>6, <1>7, <1>8, <1>9, <1>10, <1>11, <1>12,
       <1>13, <1>14, <1>15, <1>16, <1>17, <1>18, <1>19
    DEF Next, AdminStep, CallerStep, Select

\* Who counts after a success.
LEMMA UsingStep ==
  ASSUME TableTypes, CallerTypes, CallShape, UsingShape, Next
  PROVE  UsingShape'
  <1>1. CASE \E l \in Limits : AddKey(l)
    <2>1. PICK l \in Limits : AddKey(l)
      BY <1>1
    <2>. QED BY <2>1, Assumptions DEF AddKey, UsingShape
  <1>2. CASE \E k \in Key : DeleteKey(k)
    <2>1. PICK k \in Key : DeleteKey(k)
      BY <1>2
    <2>. QED BY <2>1, Assumptions DEF DeleteKey, UsingShape
  <1>3. CASE \E k \in Key : MoveKey(k)
    <2>1. PICK k \in Key : MoveKey(k)
      BY <1>3
    <2>. QED BY <2>1, Assumptions DEF MoveKey, UsingShape
  <1>4. CASE \E k \in Key, l \in Limits : EditLimit(k, l)
    <2>1. PICK k \in Key, l \in Limits : EditLimit(k, l)
      BY <1>4
    <2>. QED BY <2>1, Assumptions DEF EditLimit, UsingShape
  <1>5. CASE \E k \in Key : EnableKey(k)
    <2>1. PICK k \in Key : EnableKey(k)
      BY <1>5
    <2>. QED BY <2>1, Assumptions DEF EnableKey, UsingShape
  <1>6. CASE \E k \in Key : DisableKey(k)
    <2>1. PICK k \in Key : DisableKey(k)
      BY <1>6
    <2>. QED BY <2>1, Assumptions DEF DisableKey, UsingShape
  <1>7. CASE \E S \in SUBSET Key : Reset(S)
    <2>1. PICK S \in SUBSET Key : Reset(S)
      BY <1>7
    <2>. QED BY <2>1, Assumptions DEF Reset, UsingShape
  <1>8. CASE \E S \in SUBSET Key : Claim(S)
    <2>1. PICK S \in SUBSET Key : Claim(S)
      BY <1>8
    <2>. QED BY <2>1, Assumptions DEF Claim, UsingShape
  <1>9. CASE \E c \in Caller : SelectToReserve(c)
    <2>1. PICK c \in Caller : SelectToReserve(c)
      BY <1>9
    <2>. QED BY <2>1, Assumptions DEF SelectToReserve, UsingShape
  <1>10. CASE \E c \in Caller : SelectByPriority(c)
    <2>1. PICK c \in Caller : SelectByPriority(c)
      BY <1>10
    <2>. QED BY <2>1, Assumptions DEF SelectByPriority, CallerTypes, UsingShape
  <1>11. CASE \E c \in Caller : SelectAfterCursor(c)
    <2>1. PICK c \in Caller : SelectAfterCursor(c)
      BY <1>11
    <2>. QED BY <2>1, Assumptions DEF SelectAfterCursor, CallerTypes, UsingShape
  <1>12. CASE \E c \in Caller, k \in Key : Reserve(c, k)
    <2>1. PICK c \in Caller, k \in Key : Reserve(c, k)
      BY <1>12
    <2>. QED BY <2>1, Assumptions DEF Reserve, CallerTypes, UsingShape
  <1>13. CASE \E c \in Caller : NoKey(c)
    <2>1. PICK c \in Caller : NoKey(c)
      BY <1>13
    <2>. QED BY <2>1, Assumptions DEF NoKey, UsingShape
  <1>14. CASE \E c \in Caller : MoveCursor(c)
    <2>1. PICK c \in Caller : MoveCursor(c)
      BY <1>14
    <2>. QED BY <2>1, Assumptions DEF MoveCursor, UsingShape
  <1>15. CASE \E c \in Caller : Call(c)
    <2>1. PICK c \in Caller : Call(c)
      BY <1>15
    <2>. QED BY <2>1, Assumptions DEF Call, CallerTypes, UsingShape
  <1>16. CASE \E c \in Caller : GiveUp(c)
    <2>1. PICK c \in Caller : GiveUp(c)
      BY <1>16
    <2>. QED BY <2>1, Assumptions DEF GiveUp, UsingShape
  <1>17. CASE \E c \in Caller : MarkUsed(c)
    <2>1. PICK c \in Caller : MarkUsed(c)
      BY <1>17
    <2>. QED BY <2>1, Assumptions DEF MarkUsed, CallerTypes, UsingShape
  <1>18. CASE \E c \in Caller : ReadLimit(c)
    <2>1. PICK c \in Caller : ReadLimit(c)
      BY <1>18
    <2>. QED BY <2>1, Assumptions DEF ReadLimit, CallerTypes, UsingShape
  <1>19. CASE \E c \in Caller : WriteExhausted(c)
    <2>1. PICK c \in Caller : WriteExhausted(c)
      BY <1>19
    <2>. QED BY <2>1, Assumptions DEF WriteExhausted, CallerTypes, UsingShape
  <1>20. QED
    BY <1>1, <1>2, <1>3, <1>4, <1>5, <1>6, <1>7, <1>8, <1>9, <1>10, <1>11, <1>12,
       <1>13, <1>14, <1>15, <1>16, <1>17, <1>18, <1>19
    DEF Next, AdminStep, CallerStep, Select

\* The limit that was read.
LEMMA NotedStep ==
  ASSUME TableTypes, CallerTypes, CallShape, IdInv, NotedInv, Next
  PROVE  NotedInv'
  <1>1. CASE \E l \in Limits : AddKey(l)
    <2>1. PICK l \in Limits : AddKey(l)
      BY <1>1
    <2>. QED BY <2>1, Assumptions DEF AddKey, IdInv, NotedInv
  <1>2. CASE \E k \in Key : DeleteKey(k)
    <2>1. PICK k \in Key : DeleteKey(k)
      BY <1>2
    <2>. QED BY <2>1, Assumptions DEF DeleteKey, NotedInv
  <1>3. CASE \E k \in Key : MoveKey(k)
    <2>1. PICK k \in Key : MoveKey(k)
      BY <1>3
    <2>. QED BY <2>1, Assumptions DEF MoveKey, NotedInv
  <1>4. CASE \E k \in Key, l \in Limits : EditLimit(k, l)
    <2>1. PICK k \in Key, l \in Limits : EditLimit(k, l)
      BY <1>4
    <2>. QED BY <2>1, Assumptions DEF EditLimit, NotedInv
  <1>5. CASE \E k \in Key : EnableKey(k)
    <2>1. PICK k \in Key : EnableKey(k)
      BY <1>5
    <2>. QED BY <2>1, Assumptions DEF EnableKey, NotedInv
  <1>6. CASE \E k \in Key : DisableKey(k)
    <2>1. PICK k \in Key : DisableKey(k)
      BY <1>6
    <2>. QED BY <2>1, Assumptions DEF DisableKey, NotedInv
  <1>7. CASE \E S \in SUBSET Key : Reset(S)
    <2>1. PICK S \in SUBSET Key : Reset(S)
      BY <1>7
    <2>. QED BY <2>1, Assumptions DEF Reset, NotedInv
  <1>8. CASE \E S \in SUBSET Key : Claim(S)
    <2>1. PICK S \in SUBSET Key : Claim(S)
      BY <1>8
    <2>. QED BY <2>1, Assumptions DEF Claim, NotedInv
  <1>9. CASE \E c \in Caller : SelectToReserve(c)
    <2>1. PICK c \in Caller : SelectToReserve(c)
      BY <1>9
    <2>. QED BY <2>1, Assumptions DEF SelectToReserve, NotedInv
  <1>10. CASE \E c \in Caller : SelectByPriority(c)
    <2>1. PICK c \in Caller : SelectByPriority(c)
      BY <1>10
    <2>. QED BY <2>1, Assumptions DEF SelectByPriority, CallerTypes, NotedInv
  <1>11. CASE \E c \in Caller : SelectAfterCursor(c)
    <2>1. PICK c \in Caller : SelectAfterCursor(c)
      BY <1>11
    <2>. QED BY <2>1, Assumptions DEF SelectAfterCursor, CallerTypes, NotedInv
  <1>12. CASE \E c \in Caller, k \in Key : Reserve(c, k)
    <2>1. PICK c \in Caller, k \in Key : Reserve(c, k)
      BY <1>12
    <2>. QED BY <2>1, Assumptions DEF Reserve, CallerTypes, NotedInv
  <1>13. CASE \E c \in Caller : NoKey(c)
    <2>1. PICK c \in Caller : NoKey(c)
      BY <1>13
    <2>. QED BY <2>1, Assumptions DEF NoKey, NotedInv
  <1>14. CASE \E c \in Caller : MoveCursor(c)
    <2>1. PICK c \in Caller : MoveCursor(c)
      BY <1>14
    <2>. QED BY <2>1, Assumptions DEF MoveCursor, NotedInv
  <1>15. CASE \E c \in Caller : Call(c)
    <2>1. PICK c \in Caller : Call(c)
      BY <1>15
    <2>. QED BY <2>1, Assumptions DEF Call, CallerTypes, NotedInv
  <1>16. CASE \E c \in Caller : GiveUp(c)
    <2>1. PICK c \in Caller : GiveUp(c)
      BY <1>16
    <2>. QED BY <2>1, Assumptions DEF GiveUp, NotedInv
  <1>17. CASE \E c \in Caller : MarkUsed(c)
    <2>1. PICK c \in Caller : MarkUsed(c)
      BY <1>17
    <2>. QED BY <2>1, Assumptions DEF MarkUsed, CallerTypes, NotedInv
  <1>18. CASE \E c \in Caller : ReadLimit(c)
    <2>1. PICK c \in Caller : ReadLimit(c)
      BY <1>18
    <2>. QED BY <2>1, Assumptions, SMTT(30)
      DEF ReadLimit, TableTypes, CallerTypes, CallShape, CallerPC, IdInv, NotedInv
  <1>19. CASE \E c \in Caller : WriteExhausted(c)
    <2>1. PICK c \in Caller : WriteExhausted(c)
      BY <1>19
    <2>. QED BY <2>1, Assumptions DEF WriteExhausted, CallerTypes, NotedInv
  <1>20. QED
    BY <1>1, <1>2, <1>3, <1>4, <1>5, <1>6, <1>7, <1>8, <1>9, <1>10, <1>11, <1>12,
       <1>13, <1>14, <1>15, <1>16, <1>17, <1>18, <1>19
    DEF Next, AdminStep, CallerStep, Select

\* Reservations stay within the limit.
LEMMA GrantStep ==
  ASSUME TableTypes, CallerTypes, CallShape, IdInv, NotedInv, GrantInv, Next
  PROVE  GrantInv'
  <1>1. CASE \E l \in Limits : AddKey(l)
    <2>1. PICK l \in Limits : AddKey(l)
      BY <1>1
    <2>. QED BY <2>1, Assumptions DEF AddKey, IdInv, GrantInv
  <1>2. CASE \E k \in Key : DeleteKey(k)
    <2>1. PICK k \in Key : DeleteKey(k)
      BY <1>2
    <2>. QED BY <2>1, Assumptions DEF DeleteKey, GrantInv
  <1>3. CASE \E k \in Key : MoveKey(k)
    <2>1. PICK k \in Key : MoveKey(k)
      BY <1>3
    <2>. QED BY <2>1, Assumptions DEF MoveKey, GrantInv
  <1>4. CASE \E k \in Key, l \in Limits : EditLimit(k, l)
    <2>1. PICK k \in Key, l \in Limits : EditLimit(k, l)
      BY <1>4
    <2>. QED BY <2>1, Assumptions DEF EditLimit, GrantInv
  <1>5. CASE \E k \in Key : EnableKey(k)
    <2>1. PICK k \in Key : EnableKey(k)
      BY <1>5
    <2>. QED BY <2>1, Assumptions DEF EnableKey, GrantInv
  <1>6. CASE \E k \in Key : DisableKey(k)
    <2>1. PICK k \in Key : DisableKey(k)
      BY <1>6
    <2>. QED BY <2>1, Assumptions DEF DisableKey, GrantInv
  <1>7. CASE \E S \in SUBSET Key : Reset(S)
    <2>1. PICK S \in SUBSET Key : Reset(S)
      BY <1>7
    <2>. QED BY <2>1, Assumptions DEF Reset, TableTypes, GrantInv
  <1>8. CASE \E S \in SUBSET Key : Claim(S)
    <2>1. PICK S \in SUBSET Key : Claim(S)
      BY <1>8
    <2>. QED BY <2>1, Assumptions DEF Claim, TableTypes, GrantInv, Grant, Offered, Usable, WithinLimit
  <1>9. CASE \E c \in Caller : SelectToReserve(c)
    <2>1. PICK c \in Caller : SelectToReserve(c)
      BY <1>9
    <2>. QED BY <2>1, Assumptions DEF SelectToReserve, GrantInv
  <1>10. CASE \E c \in Caller : SelectByPriority(c)
    <2>1. PICK c \in Caller : SelectByPriority(c)
      BY <1>10
    <2>. QED BY <2>1, Assumptions DEF SelectByPriority, GrantInv
  <1>11. CASE \E c \in Caller : SelectAfterCursor(c)
    <2>1. PICK c \in Caller : SelectAfterCursor(c)
      BY <1>11
    <2>. QED BY <2>1, Assumptions DEF SelectAfterCursor, GrantInv
  <1>12. CASE \E c \in Caller, k \in Key : Reserve(c, k)
    <2>1. PICK c \in Caller, k \in Key : Reserve(c, k)
      BY <1>12
    <2>. QED
      <3>1. UNCHANGED <<rows, pool, active, limit, nextId, admin, edited, exhausted>>
        BY <2>1 DEF Reserve
      <3>2. (used' = used /\ granted' = granted) \/ (Usable(k) /\ Grant({k}))
        BY <2>1 DEF Reserve
      <3>3. CASE used' = used /\ granted' = granted
        BY <3>1, <3>3 DEF GrantInv
      <3>4. CASE Usable(k) /\ Grant({k})
        BY <2>1, <3>1, <3>4, GrantEffect DEF GrantInv, Usable, WithinLimit, TableTypes
      <3>. QED
        BY <3>2, <3>3, <3>4
  <1>13. CASE \E c \in Caller : NoKey(c)
    <2>1. PICK c \in Caller : NoKey(c)
      BY <1>13
    <2>. QED BY <2>1, Assumptions DEF NoKey, GrantInv
  <1>14. CASE \E c \in Caller : MoveCursor(c)
    <2>1. PICK c \in Caller : MoveCursor(c)
      BY <1>14
    <2>. QED BY <2>1, Assumptions DEF MoveCursor, GrantInv
  <1>15. CASE \E c \in Caller : Call(c)
    <2>1. PICK c \in Caller : Call(c)
      BY <1>15
    <2>. QED BY <2>1, Assumptions DEF Call, GrantInv
  <1>16. CASE \E c \in Caller : GiveUp(c)
    <2>1. PICK c \in Caller : GiveUp(c)
      BY <1>16
    <2>. QED BY <2>1, Assumptions DEF GiveUp, GrantInv
  <1>17. CASE \E c \in Caller : MarkUsed(c)
    <2>1. PICK c \in Caller : MarkUsed(c)
      BY <1>17
    <2>. QED
      <3>1. key[c] \in Key /\ UNCHANGED <<rows, pool, active, limit, nextId, admin, ghosts>>
        BY <2>1 DEF MarkUsed, CallShape
      <3>2. used' = used \/ used' = [used EXCEPT ![key[c]] = @ + 1]
        BY <2>1 DEF MarkUsed
      <3>3. \A k \in Key : used[k] \in Nat /\ used'[k] >= used[k]
        BY <3>1, <3>2 DEF TableTypes
      <3>. QED
        BY <3>1, <3>2, <3>3 DEF GrantInv, TableTypes
  <1>18. CASE \E c \in Caller : ReadLimit(c)
    <2>1. PICK c \in Caller : ReadLimit(c)
      BY <1>18
    <2>. QED BY <2>1, Assumptions DEF ReadLimit, GrantInv
  <1>19. CASE \E c \in Caller : WriteExhausted(c)
    <2>1. PICK c \in Caller : WriteExhausted(c)
      BY <1>19
    <2>. QED
      <3>1. key[c] \in Key /\ pc[c] = "writing" /\ UNCHANGED <<limit, nextId, granted, edited>>
        BY <2>1 DEF WriteExhausted, CallShape
      <3>2. \/ used' = used /\ active' = active /\ exhausted' = exhausted
            \/ /\ noted[c] # 0 /\ used' = [used EXCEPT ![key[c]] = noted[c]]
               /\ active' = active /\ exhausted' = exhausted \cup {key[c]}
            \/ /\ noted[c] = 0 /\ used' = used
               /\ active' = active \ {key[c]} /\ exhausted' = exhausted \cup {key[c]}
        BY <2>1 DEF WriteExhausted
      <3>3. key[c] \notin edited => noted[c] = limit[key[c]]
        BY <3>1 DEF NotedInv
      <3>. QED
        BY <3>1, <3>2, <3>3 DEF GrantInv, TableTypes
  <1>20. QED
    BY <1>1, <1>2, <1>3, <1>4, <1>5, <1>6, <1>7, <1>8, <1>9, <1>10, <1>11, <1>12,
       <1>13, <1>14, <1>15, <1>16, <1>17, <1>18, <1>19
    DEF Next, AdminStep, CallerStep, Select

\* An exhausted key stays off the offer.
LEMMA SkipStep ==
  ASSUME TableTypes, CallerTypes, CallShape, IdInv, NotedInv, SkipInv, Next
  PROVE  SkipInv'
  <1>1. CASE \E l \in Limits : AddKey(l)
    <2>1. PICK l \in Limits : AddKey(l)
      BY <1>1
    <2>. QED BY <2>1, Assumptions DEF AddKey, IdInv, SkipInv
  <1>2. CASE \E k \in Key : DeleteKey(k)
    <2>1. PICK k \in Key : DeleteKey(k)
      BY <1>2
    <2>. QED BY <2>1, Assumptions DEF DeleteKey, SkipInv
  <1>3. CASE \E k \in Key : MoveKey(k)
    <2>1. PICK k \in Key : MoveKey(k)
      BY <1>3
    <2>. QED BY <2>1, Assumptions DEF MoveKey, SkipInv
  <1>4. CASE \E k \in Key, l \in Limits : EditLimit(k, l)
    <2>1. PICK k \in Key, l \in Limits : EditLimit(k, l)
      BY <1>4
    <2>. QED BY <2>1, Assumptions DEF EditLimit, SkipInv
  <1>5. CASE \E k \in Key : EnableKey(k)
    <2>1. PICK k \in Key : EnableKey(k)
      BY <1>5
    <2>. QED
      <3>1. CASE limit[k] = 0
        BY <2>1, <3>1 DEF EnableKey, SkipInv
      <3>2. CASE limit[k] # 0
        <4>1. exhausted' = exhausted /\ active' = active \cup {k}
          BY <2>1, <3>2 DEF EnableKey
        <4>2. k \in exhausted \ edited => used[k] >= limit[k]
          BY <2>1, <3>2 DEF SkipInv
        <4>. QED
          BY <2>1, <3>2, <4>1, <4>2 DEF EnableKey, SkipInv
      <3>. QED
        BY <3>1, <3>2
  <1>6. CASE \E k \in Key : DisableKey(k)
    <2>1. PICK k \in Key : DisableKey(k)
      BY <1>6
    <2>. QED BY <2>1, Assumptions DEF DisableKey, SkipInv
  <1>7. CASE \E S \in SUBSET Key : Reset(S)
    <2>1. PICK S \in SUBSET Key : Reset(S)
      BY <1>7
    <2>. QED BY <2>1, Assumptions DEF Reset, TableTypes, SkipInv
  <1>8. CASE \E S \in SUBSET Key : Claim(S)
    <2>1. PICK S \in SUBSET Key : Claim(S)
      BY <1>8
    <2>. QED BY <2>1, Assumptions DEF Claim, TableTypes, SkipInv, Grant
  <1>9. CASE \E c \in Caller : SelectToReserve(c)
    <2>1. PICK c \in Caller : SelectToReserve(c)
      BY <1>9
    <2>. QED BY <2>1, Assumptions DEF SelectToReserve, SkipInv
  <1>10. CASE \E c \in Caller : SelectByPriority(c)
    <2>1. PICK c \in Caller : SelectByPriority(c)
      BY <1>10
    <2>. QED BY <2>1, Assumptions DEF SelectByPriority, SkipInv
  <1>11. CASE \E c \in Caller : SelectAfterCursor(c)
    <2>1. PICK c \in Caller : SelectAfterCursor(c)
      BY <1>11
    <2>. QED BY <2>1, Assumptions DEF SelectAfterCursor, SkipInv
  <1>12. CASE \E c \in Caller, k \in Key : Reserve(c, k)
    <2>1. PICK c \in Caller, k \in Key : Reserve(c, k)
      BY <1>12
    <2>. QED
      <3>1. UNCHANGED <<rows, pool, active, limit, nextId, admin, edited, exhausted>>
        BY <2>1 DEF Reserve
      <3>2. (used' = used /\ granted' = granted) \/ (Usable(k) /\ Grant({k}))
        BY <2>1 DEF Reserve
      <3>3. \A j \in Key : used'[j] >= used[j]
        BY <2>1, <3>2, GrantEffect DEF TableTypes
      <3>4. \A j \in Key : used[j] \in Nat /\ used'[j] \in Nat /\ limit[j] \in Nat
        BY <2>1, <3>2, GrantEffect DEF TableTypes
      <3>. QED
        BY <3>1, <3>3, <3>4 DEF SkipInv, TableTypes
  <1>13. CASE \E c \in Caller : NoKey(c)
    <2>1. PICK c \in Caller : NoKey(c)
      BY <1>13
    <2>. QED BY <2>1, Assumptions DEF NoKey, SkipInv
  <1>14. CASE \E c \in Caller : MoveCursor(c)
    <2>1. PICK c \in Caller : MoveCursor(c)
      BY <1>14
    <2>. QED BY <2>1, Assumptions DEF MoveCursor, SkipInv
  <1>15. CASE \E c \in Caller : Call(c)
    <2>1. PICK c \in Caller : Call(c)
      BY <1>15
    <2>. QED BY <2>1, Assumptions DEF Call, SkipInv
  <1>16. CASE \E c \in Caller : GiveUp(c)
    <2>1. PICK c \in Caller : GiveUp(c)
      BY <1>16
    <2>. QED BY <2>1, Assumptions DEF GiveUp, SkipInv
  <1>17. CASE \E c \in Caller : MarkUsed(c)
    <2>1. PICK c \in Caller : MarkUsed(c)
      BY <1>17
    <2>. QED
      <3>1. key[c] \in Key /\ UNCHANGED <<rows, pool, active, limit, nextId, admin, ghosts>>
        BY <2>1 DEF MarkUsed, CallShape
      <3>2. used' = used \/ used' = [used EXCEPT ![key[c]] = @ + 1]
        BY <2>1 DEF MarkUsed
      <3>3. \A k \in Key : used[k] \in Nat /\ used'[k] >= used[k]
        BY <3>1, <3>2 DEF TableTypes
      <3>4. \A k \in Key : used[k] \in Nat /\ used'[k] \in Nat /\ limit[k] \in Nat
        BY <3>1, <3>2 DEF TableTypes
      <3>. QED
        BY <3>1, <3>3, <3>4 DEF SkipInv, TableTypes
  <1>18. CASE \E c \in Caller : ReadLimit(c)
    <2>1. PICK c \in Caller : ReadLimit(c)
      BY <1>18
    <2>. QED BY <2>1, Assumptions DEF ReadLimit, SkipInv
  <1>19. CASE \E c \in Caller : WriteExhausted(c)
    <2>1. PICK c \in Caller : WriteExhausted(c)
      BY <1>19
    <2>. QED
      <3>1. key[c] \in Key /\ pc[c] = "writing" /\ UNCHANGED <<limit, nextId, granted, edited>>
        BY <2>1 DEF WriteExhausted, CallShape
      <3>2. \/ used' = used /\ active' = active /\ exhausted' = exhausted
            \/ /\ noted[c] # 0 /\ used' = [used EXCEPT ![key[c]] = noted[c]]
               /\ active' = active /\ exhausted' = exhausted \cup {key[c]}
            \/ /\ noted[c] = 0 /\ used' = used
               /\ active' = active \ {key[c]} /\ exhausted' = exhausted \cup {key[c]}
        BY <2>1 DEF WriteExhausted
      <3>3. key[c] \notin edited => noted[c] = limit[key[c]]
        BY <3>1 DEF NotedInv
      <3>. QED
        BY <3>1, <3>2, <3>3 DEF SkipInv, TableTypes
  <1>20. QED
    BY <1>1, <1>2, <1>3, <1>4, <1>5, <1>6, <1>7, <1>8, <1>9, <1>10, <1>11, <1>12,
       <1>13, <1>14, <1>15, <1>16, <1>17, <1>18, <1>19
    DEF Next, AdminStep, CallerStep, Select

\* Which calls may yet be counted for k, before and after a step.
LEMMA ProspectiveCalls ==
  ASSUME NEW k \in Key
  PROVE  /\ Prospective(k) \subseteq Uncounted /\ Prospective(k)' \subseteq Uncounted
         /\ \A c \in Unreserved, n \in 1 .. MaxTries :
               /\ <<c, n>> \in Prospective(k) <=>
                     /\ key[c] = k
                     /\ \/ pc[c] \in {"selected", "calling"} /\ tries[c] < n
                        \/ pc[c] = "using" /\ tries[c] <= n
               /\ <<c, n>> \in Prospective(k)' <=>
                     /\ key'[c] = k
                     /\ \/ pc'[c] \in {"selected", "calling"} /\ tries'[c] < n
                        \/ pc'[c] = "using" /\ tries'[c] <= n
  BY DEF Prospective, Uncounted

\* A step of a caller changes only its own calls.
LEMMA OthersKept ==
  ASSUME NEW c \in Caller, NEW k \in Key,
         \A d \in Caller \ {c} : pc'[d] = pc[d] /\ key'[d] = key[d] /\ tries'[d] = tries[d]
  PROVE  /\ \A call \in Prospective(k)' : call[1] = c \/ call \in Prospective(k)
         /\ c \notin Unreserved => Prospective(k)' \subseteq Prospective(k)
         /\ pc'[c] \notin {"selected", "calling", "using"} \/ key'[c] # k
               => Prospective(k)' \subseteq {call \in Prospective(k) : call[1] # c}
  <1>1. \A d \in Unreserved \ {c}, n \in 1 .. MaxTries :
           <<d, n>> \in Prospective(k)' <=> <<d, n>> \in Prospective(k)
    BY ProspectiveCalls DEF Caller
  <1>2. \A call \in Uncounted :
           /\ call[1] \in Unreserved /\ call[2] \in 1 .. MaxTries
           /\ call = <<call[1], call[2]>>
    BY DEF Uncounted
  <1>3. \A call \in Prospective(k)' : call[1] = c \/ call \in Prospective(k)
    BY <1>1, <1>2, ProspectiveCalls
  <1>4. ASSUME pc'[c] \notin {"selected", "calling", "using"} \/ key'[c] # k,
               NEW call \in Prospective(k)'
        PROVE  call[1] # c
    BY <1>2, <1>4, ProspectiveCalls
  <1>. QED
    BY <1>2, <1>3, <1>4, ProspectiveCalls

-----------------------------------------------------------------------------
\* The bound on the overshoot.

\* A step moves the counter of k below the limit, or does not raise it and lets
\* nobody start to use k uncounted, or counts one of the calls that were to be counted.
Kept(k) ==
    \/ used'[k] <= limit'[k]
    \/ used'[k] <= used[k] /\ Prospective(k)' \subseteq Prospective(k)
    \/ /\ used'[k] = used[k] + 1
       /\ \E call \in Prospective(k) : Prospective(k)' \subseteq Prospective(k) \ {call}

\* So does every step, for a key with a limit that is not edited.
LEMMA KeptStep ==
  ASSUME TableTypes, CallerTypes, CallShape, UsingShape, NotedInv, Next,
         NEW k \in Key, k \notin edited', limit'[k] # 0
  PROVE  Kept(k) /\ (limit'[k] = limit[k] \/ used'[k] <= limit'[k])
  <1>1. CASE \E l \in Limits : AddKey(l)
    <2>1. PICK l \in Limits : AddKey(l)
      BY <1>1
    <2>2. Prospective(k)' = Prospective(k)
      BY <2>1 DEF AddKey, Prospective
    <2>. QED
      BY <2>1, <2>2, Assumptions DEF AddKey, Kept, TableTypes
  <1>2. CASE \E j \in Key : DeleteKey(j)
    <2>1. PICK j \in Key : DeleteKey(j)
      BY <1>2
    <2>2. Prospective(k)' = Prospective(k)
      BY <2>1 DEF DeleteKey, Prospective
    <2>. QED
      BY <2>1, <2>2, Assumptions DEF DeleteKey, Kept, TableTypes
  <1>3. CASE \E j \in Key : MoveKey(j)
    <2>1. PICK j \in Key : MoveKey(j)
      BY <1>3
    <2>2. Prospective(k)' = Prospective(k)
      BY <2>1 DEF MoveKey, Prospective
    <2>. QED
      BY <2>1, <2>2, Assumptions DEF MoveKey, Kept, TableTypes
  <1>4. CASE \E j \in Key, l \in Limits : EditLimit(j, l)
    <2>1. PICK j \in Key, l \in Limits : EditLimit(j, l)
      BY <1>4
    <2>2. Prospective(k)' = Prospective(k)
      BY <2>1 DEF EditLimit, Prospective
    <2>. QED
      BY <2>1, <2>2, Assumptions DEF EditLimit, Kept, TableTypes
  <1>5. CASE \E j \in Key : EnableKey(j)
    <2>1. PICK j \in Key : EnableKey(j)
      BY <1>5
    <2>2. Prospective(k)' = Prospective(k)
      BY <2>1 DEF EnableKey, Prospective
    <2>. QED
      BY <2>1, <2>2, Assumptions DEF EnableKey, Kept, TableTypes
  <1>6. CASE \E j \in Key : DisableKey(j)
    <2>1. PICK j \in Key : DisableKey(j)
      BY <1>6
    <2>2. Prospective(k)' = Prospective(k)
      BY <2>1 DEF DisableKey, Prospective
    <2>. QED
      BY <2>1, <2>2, Assumptions DEF DisableKey, Kept, TableTypes
  <1>7. CASE \E S \in SUBSET Key : Reset(S)
    <2>1. PICK S \in SUBSET Key : Reset(S)
      BY <1>7
    <2>2. Prospective(k)' = Prospective(k)
      BY <2>1 DEF Reset, Prospective
    <2>. QED
      BY <2>1, <2>2, Assumptions DEF Reset, Kept, TableTypes
  <1>8. CASE \E S \in SUBSET Key : Claim(S)
    <2>1. PICK S \in SUBSET Key : Claim(S)
      BY <1>8
    <2>. QED
      <3>1. limit' = limit /\ Prospective(k)' = Prospective(k)
        BY <2>1 DEF Claim, Prospective
      <3>2. Grant(S) /\ \A j \in S : limit[j] = 0 \/ used[j] < limit[j]
        BY <2>1 DEF Claim, Offered, Usable, WithinLimit
      <3>3. used'[k] = used[k] \/ (k \in S /\ used'[k] = used[k] + 1)
        BY <2>1, <3>2, GrantEffect
      <3>. QED
        BY <3>1, <3>2, <3>3 DEF Kept, TableTypes
  <1>9. CASE \E c \in Caller : SelectToReserve(c)
    <2>1. PICK c \in Caller : SelectToReserve(c)
      BY <1>9
    <2>2. used' = used /\ limit' = limit
      BY <2>1 DEF SelectToReserve
    <2>3. Prospective(k)' \subseteq Prospective(k)
      BY <2>1 DEF SelectToReserve, Prospective
    <2>. QED
      BY <2>2, <2>3 DEF Kept, TableTypes
  <1>10. CASE \E c \in Caller : SelectByPriority(c)
    <2>1. PICK c \in Caller : SelectByPriority(c)
      BY <1>10
    <2>. QED
      <3>1. limit' = limit /\ used' = used
        BY <2>1 DEF SelectByPriority
      <3>2. Prospective(k)' \subseteq Prospective(k) \/ k \in Offered
        <4>1. \A d \in Caller \ {c} : pc'[d] = pc[d] /\ key'[d] = key[d] /\ tries'[d] = tries[d]
          BY <2>1 DEF SelectByPriority, CallerTypes
        <4>2. pc'[c] = "over" \/ key'[c] # k \/ k \in Offered
          BY <2>1 DEF SelectByPriority, CallerTypes
        <4>. QED
          BY <4>1, <4>2, OthersKept
      <3>. QED
        BY <3>1, <3>2 DEF Kept, Offered, Usable, WithinLimit, TableTypes
  <1>11. CASE \E c \in Caller : SelectAfterCursor(c)
    <2>1. PICK c \in Caller : SelectAfterCursor(c)
      BY <1>11
    <2>. QED
      <3>1. limit' = limit /\ used' = used
        BY <2>1 DEF SelectAfterCursor
      <3>2. \E j \in Offered \cup {0} : key' = [key EXCEPT ![c] = j]
        BY <2>1 DEF SelectAfterCursor, FirstAfter
      <3>3. \A d \in Caller \ {c} : pc'[d] = pc[d] /\ key'[d] = key[d] /\ tries'[d] = tries[d]
        BY <2>1, <3>2 DEF SelectAfterCursor, CallerTypes
      <3>4. key'[c] # k \/ k \in Offered
        BY <3>2, Assumptions DEF CallerTypes
      <3>5. Prospective(k)' \subseteq Prospective(k) \/ k \in Offered
        BY <3>3, <3>4, OthersKept
      <3>. QED
        BY <3>1, <3>5 DEF Kept, Offered, Usable, WithinLimit, TableTypes
  <1>12. CASE \E c \in Caller, j \in Key : Reserve(c, j)
    <2>1. PICK c \in Caller, j \in Key : Reserve(c, j)
      BY <1>12
    <2>. QED
      <3>1. limit' = limit /\ (used' = used \/ (Usable(j) /\ Grant({j})))
        BY <2>1 DEF Reserve
      <3>3. CASE used' = used
        BY <2>1, <3>1, <3>3 DEF Reserve, Kept, Prospective, TableTypes, Grant
      <3>4. CASE Usable(j) /\ Grant({j})
        <4>1. used'[j] = used[j] + 1 /\ (k # j => used'[k] = used[k])
          BY <3>4, <2>1, GrantEffect
        <4>2. limit[j] = 0 \/ used'[j] <= limit[j]
          BY <2>1, <3>4, <4>1 DEF Usable, WithinLimit, TableTypes
        <4>3. k # j => Prospective(k)' \subseteq Prospective(k)
          <5>1. \A d \in Caller \ {c} : pc'[d] = pc[d] /\ key'[d] = key[d] /\ tries'[d] = tries[d]
            BY <2>1 DEF Reserve, CallerTypes
          <5>2. k # j => pc'[c] \in {"over", "reserving"} \/ key'[c] # k
            BY <2>1 DEF Reserve, CallerTypes
          <5>. QED
            BY <5>1, <5>2, OthersKept
        <4>. QED
          BY <3>1, <4>1, <4>2, <4>3 DEF Kept, TableTypes
      <3>. QED
        BY <3>1, <3>3, <3>4
  <1>13. CASE \E c \in Caller : NoKey(c)
    <2>1. PICK c \in Caller : NoKey(c)
      BY <1>13
    <2>2. used' = used /\ limit' = limit
      BY <2>1 DEF NoKey
    <2>3. Prospective(k)' \subseteq Prospective(k)
      BY <2>1 DEF NoKey, Prospective
    <2>. QED
      BY <2>2, <2>3 DEF Kept, TableTypes
  <1>14. CASE \E c \in Caller : MoveCursor(c)
    <2>1. PICK c \in Caller : MoveCursor(c)
      BY <1>14
    <2>2. used' = used /\ limit' = limit
      BY <2>1 DEF MoveCursor
    <2>3. Prospective(k)' \subseteq Prospective(k)
      BY <2>1 DEF MoveCursor, Prospective
    <2>. QED
      BY <2>2, <2>3 DEF Kept, TableTypes
  <1>15. CASE \E c \in Caller : Call(c)
    <2>1. PICK c \in Caller : Call(c)
      BY <1>15
    <2>2. used' = used /\ limit' = limit
      BY <2>1 DEF Call
    <2>3. Prospective(k)' \subseteq Prospective(k)
      <3>1. \A d \in Caller \ {c} : pc'[d] = pc[d] /\ key'[d] = key[d] /\ tries'[d] = tries[d]
        BY <2>1 DEF Call, CallerTypes
      <3>2. /\ key'[c] = key[c] /\ pc[c] = "calling"
            /\ tries'[c] = tries[c] + 1 /\ tries[c] \in Nat
            /\ pc'[c] # "selected"
        BY <2>1 DEF Call, CallerTypes
      <3>3. c \in Unreserved => \A n \in 1 .. MaxTries :
               <<c, n>> \in Prospective(k)' => <<c, n>> \in Prospective(k)
        BY <3>2, ProspectiveCalls
      <3>4. \A call \in Prospective(k)' :
               /\ call[1] \in Unreserved /\ call[2] \in 1 .. MaxTries
               /\ call = <<call[1], call[2]>>
        BY DEF Prospective, Uncounted
      <3>. QED
        BY <3>1, <3>3, <3>4, OthersKept
    <2>. QED
      BY <2>2, <2>3 DEF Kept, TableTypes
  <1>16. CASE \E c \in Caller : GiveUp(c)
    <2>1. PICK c \in Caller : GiveUp(c)
      BY <1>16
    <2>2. used' = used /\ limit' = limit
      BY <2>1 DEF GiveUp
    <2>3. Prospective(k)' \subseteq Prospective(k)
      BY <2>1 DEF GiveUp, Prospective
    <2>. QED
      BY <2>2, <2>3 DEF Kept, TableTypes
  <1>17. CASE \E c \in Caller : MarkUsed(c)
    <2>1. PICK c \in Caller : MarkUsed(c)
      BY <1>17
    <2>. QED
      <3>1. limit' = limit /\ key' = key /\ key[c] \in Key
        BY <2>1 DEF MarkUsed, CallShape
      <3>2. used' = used \/ used' = [used EXCEPT ![key[c]] = @ + 1]
        BY <2>1 DEF MarkUsed
      <3>3. c \in Unreserved /\ tries[c] \in 1 .. MaxTries /\ pc[c] = "using"
        BY <2>1, Assumptions DEF MarkUsed, UsingShape, CallerTypes
      <3>4. Prospective(k)' \subseteq Prospective(k) \ {<<c, tries[c]>>}
        <4>1. /\ \A d \in Caller \ {c} : pc'[d] = pc[d] /\ key'[d] = key[d] /\ tries'[d] = tries[d]
              /\ tries' = tries /\ pc'[c] \in {"over", "calling", "marking"}
          BY <2>1 DEF MarkUsed, CallerTypes
        <4>2. \A n \in 1 .. MaxTries : <<c, n>> \in Prospective(k)' =>
                 <<c, n>> \in Prospective(k) /\ n # tries[c]
          BY <3>1, <3>3, <4>1, ProspectiveCalls
        <4>3. \A call \in Prospective(k)' :
                 /\ call[1] \in Unreserved /\ call[2] \in 1 .. MaxTries
                 /\ call = <<call[1], call[2]>>
          BY DEF Prospective, Uncounted
        <4>4. \A call \in Prospective(k)' : call \in Prospective(k)
          BY <4>1, <4>2, <4>3, OthersKept
        <4>5. <<c, tries[c]>> \notin Prospective(k)'
          BY <3>3, <4>2
        <4>. QED
          BY <4>4, <4>5
      <3>5. key[c] = k => <<c, tries[c]>> \in Prospective(k)
        BY <3>3, ProspectiveCalls
      <3>. QED
        BY <3>1, <3>2, <3>4, <3>5 DEF Kept, TableTypes
  <1>18. CASE \E c \in Caller : ReadLimit(c)
    <2>1. PICK c \in Caller : ReadLimit(c)
      BY <1>18
    <2>2. used' = used /\ limit' = limit
      BY <2>1 DEF ReadLimit
    <2>3. Prospective(k)' \subseteq Prospective(k)
      <3>1. \A d \in Caller \ {c} : pc'[d] = pc[d] /\ key'[d] = key[d] /\ tries'[d] = tries[d]
        BY <2>1 DEF ReadLimit, CallerTypes
      <3>2. pc'[c] \in {"writing", "choosing"}
        BY <2>1 DEF ReadLimit, CallerTypes
      <3>. QED
        BY <3>1, <3>2, OthersKept
    <2>. QED
      BY <2>2, <2>3 DEF Kept, TableTypes
  <1>19. CASE \E c \in Caller : WriteExhausted(c)
    <2>1. PICK c \in Caller : WriteExhausted(c)
      BY <1>19
    <2>. QED
      <3>1. key[c] \in Key /\ pc[c] = "writing" /\ UNCHANGED <<limit, nextId, granted, edited>>
        BY <2>1 DEF WriteExhausted, CallShape
      <3>2. \/ used' = used /\ active' = active /\ exhausted' = exhausted
            \/ /\ noted[c] # 0 /\ used' = [used EXCEPT ![key[c]] = noted[c]]
               /\ active' = active /\ exhausted' = exhausted \cup {key[c]}
            \/ /\ noted[c] = 0 /\ used' = used
               /\ active' = active \ {key[c]} /\ exhausted' = exhausted \cup {key[c]}
        BY <2>1 DEF WriteExhausted
      <3>3. key[c] \notin edited => noted[c] = limit[key[c]]
        BY <3>1 DEF NotedInv
      <3>4. Prospective(k)' \subseteq Prospective(k)
        <4>1. \A d \in Caller \ {c} : pc'[d] = pc[d] /\ key'[d] = key[d] /\ tries'[d] = tries[d]
          BY <2>1 DEF WriteExhausted, CallerTypes
        <4>2. pc'[c] \in {"over", "choosing"}
          BY <2>1 DEF WriteExhausted, CallerTypes
        <4>. QED
          BY <4>1, <4>2, OthersKept
      <3>. QED
        BY <3>1, <3>2, <3>3, <3>4 DEF Kept, TableTypes
  <1>20. QED
    BY <1>1, <1>2, <1>3, <1>4, <1>5, <1>6, <1>7, <1>8, <1>9, <1>10, <1>11, <1>12,
       <1>13, <1>14, <1>15, <1>16, <1>17, <1>18, <1>19
    DEF Next, AdminStep, CallerStep, Select

\* The same after a step.
LEMMA ProspectiveBoundNext ==
  ASSUME NEW k \in Key
  PROVE  /\ IsFiniteSet(Prospective(k)')
         /\ Cardinality(Prospective(k)') \in Nat
         /\ Cardinality(Prospective(k)') <= Cardinality(Uncounted)
  <1>1. Prospective(k)' \subseteq Uncounted
    BY DEF Prospective
  <1>. QED
    BY <1>1, ProspectiveBound, FS_Subset, FS_CardinalityType

\* Every step keeps the bound.
LEMMA OvershootStep ==
  ASSUME TableTypes, TableTypes', CallerTypes, CallShape, UsingShape, NotedInv,
         OvershootBounded, Next
  PROVE  OvershootBounded'
  <1>. SUFFICES ASSUME NEW k \in Key, k \notin edited', limit'[k] # 0
              PROVE  used'[k] + Cardinality(Prospective(k)')
                        <= limit'[k] + Cardinality(Uncounted)
    BY DEF OvershootBounded
  <1>1. Kept(k) /\ (limit'[k] = limit[k] \/ used'[k] <= limit'[k])
    BY KeptStep
  <1>2. /\ used[k] \in Nat /\ used'[k] \in Nat
        /\ limit[k] \in Nat /\ limit'[k] \in Nat
    BY DEF TableTypes
  <1>3. edited \subseteq edited'
    BY DEF Next, AdminStep, CallerStep, Select, AddKey, DeleteKey, MoveKey, EditLimit,
       EnableKey, DisableKey, Reset, Claim, SelectToReserve, SelectByPriority,
       SelectAfterCursor, Reserve, NoKey, MoveCursor, Call, GiveUp, MarkUsed, ReadLimit,
       WriteExhausted
  <1>4. CASE used'[k] <= limit'[k]
    BY <1>2, <1>4, ProspectiveBound, ProspectiveBoundNext
  <1>5. ASSUME limit'[k] = limit[k] PROVE
           used[k] + Cardinality(Prospective(k)) <= limit'[k] + Cardinality(Uncounted)
    BY <1>3, <1>5 DEF OvershootBounded
  <1>6. CASE limit'[k] = limit[k] /\ used'[k] <= used[k]
             /\ Prospective(k)' \subseteq Prospective(k)
    <2>1. Cardinality(Prospective(k)') <= Cardinality(Prospective(k))
      BY <1>6, ProspectiveBound, FS_Subset
    <2>. QED
      BY <2>1, <1>2, <1>5, <1>6, ProspectiveBound, ProspectiveBoundNext
  <1>7. ASSUME limit'[k] = limit[k], used'[k] = used[k] + 1,
               NEW call \in Prospective(k), Prospective(k)' \subseteq Prospective(k) \ {call}
        PROVE  used'[k] + Cardinality(Prospective(k)')
                  <= limit'[k] + Cardinality(Uncounted)
    <2>1. /\ IsFiniteSet(Prospective(k) \ {call})
          /\ Cardinality(Prospective(k) \ {call}) = Cardinality(Prospective(k)) - 1
      BY ProspectiveBound, FS_RemoveElement
    <2>2. Cardinality(Prospective(k)') <= Cardinality(Prospective(k)) - 1
      BY <2>1, <1>7, FS_Subset
    <2>. QED
      BY <2>2, <1>2, <1>5, <1>7, ProspectiveBound, ProspectiveBoundNext
  <1>. QED
    BY <1>1, <1>4, <1>6, <1>7 DEF Kept

-----------------------------------------------------------------------------
\* The theorems.

\* Every step keeps the invariant.
LEMMA InvStep == Inv /\ [Next]_vars => Inv'
  <1>. SUFFICES ASSUME Inv, [Next]_vars PROVE Inv'
    OBVIOUS
  <1>1. TableTypes /\ CallerTypes /\ CallShape
    BY TypesAreTypes DEF Inv
  <1>2. CASE Next
    <2>1. (TableTypes /\ CallerTypes /\ CallShape)'
      BY <1>1, <1>2, TypeStep
    <2>2. TypeOK'
      BY <2>1 DEF TypeOK, TableTypes, CallerTypes, CallShape
    <2>3. IdInv' /\ NotedInv' /\ UsingShape'
      BY <1>1, <1>2, IdStep, NotedStep, UsingStep DEF Inv
    <2>4. GrantInv' /\ SkipInv'
      BY <1>1, <1>2, GrantStep, SkipStep DEF Inv
    <2>5. OvershootBounded'
      BY <1>1, <1>2, <2>1, OvershootStep DEF Inv
    <2>. QED
      BY <2>2, <2>3, <2>4, <2>5 DEF Inv
  <1>3. CASE UNCHANGED vars
    BY <1>3 DEF vars, Inv, TypeOK, IdInv, NotedInv, UsingShape, GrantInv, SkipInv,
       OvershootBounded, Prospective, Uncounted
  <1>. QED
    BY <1>2, <1>3

\* The conjunction of the invariants above holds (the whole of key_manager.py and its
\* callers), for every set of keys, callers and limits.
THEOREM Invariance == Spec => []Inv
  BY InitInv, InvStep, PTL DEF Spec

\* The variables of KeyPool keep their types.
THEOREM TypeCorrect == Spec => []TypeOK
  <1>1. Inv => TypeOK
    BY DEF Inv
  <1>. QED
    BY <1>1, Invariance, PTL

\* Reservations and claims of a day stay within the daily limit, whatever the other
\* callers, late quota failures and resets do to the counter.
THEOREM QuotaIsRespected == Spec => []QuotaRespected
  <1>1. Inv => QuotaRespected
    BY DEF Inv, GrantInv, QuotaRespected
  <1>. QED
    BY <1>1, Invariance, PTL

\* The overshoot of a counter is at most the calls that the unreserved callers make
\* (mark_key_used; speech makes one call, and counts it, for every chunk).
THEOREM OvershootIsBounded == Spec => []OvershootBounded
  <1>1. Inv => OvershootBounded
    BY DEF Inv
  <1>. QED
    BY <1>1, Invariance, PTL

\* A key marked as exhausted stays off the offer until a reset or an administrator
\* changes that, if its limit was never edited.
THEOREM ExhaustedKeysAreSkipped == Spec => []ExhaustedIsSkipped
  <1>1. Inv => ExhaustedIsSkipped
    BY DEF Inv, TypeOK, SkipInv, ExhaustedIsSkipped, Offered, Usable, WithinLimit
  <1>. QED
    BY <1>1, Invariance, PTL

-----------------------------------------------------------------------------
(***************************************************************************)
(* KeyRotation: speech takes the keys in turn.                             *)
(***************************************************************************)
USE DEF table, callers, ghosts, Goes, Holds, Administers, MayCallAgain

\* Going round from a, and past the last key to the first, j comes before k.
Between(a, j, k) == (a < j /\ j < k) \/ (j < k /\ k <= a) \/ (k <= a /\ a < j)

\* A caller that has selected a key and not yet moved the cursor has the lock.
LockInv ==
    \A c \in Caller : pc[c] = "selected" => c \in Speech /\ lock[Home[c]] = {c}

\* The callers of a process that hold its lock with a key selected.
Selecting(p) == {c \in Speech : Home[c] = p /\ pc[c] = "selected"}

\* A key that waits is eligible, and from the key that was taken last the
\* process comes to it before it comes back to the key it waits for.
WaitInv(p) ==
    \A w \in waiting[p] :
        /\ w \in Key \X Key
        /\ w[2] \in Eligible
        /\ \A c \in Selecting(p) : key[c] # 0 /\ Between(key[c], w[2], w[1])
        /\ Selecting(p) = {} => cursor[p] # 0 /\ Between(cursor[p], w[2], w[1])

\* The inductive invariant of the turns.
TurnInv == LockInv /\ waiting \in [Process -> SUBSET (Key \X Key)]
             /\ \A p \in Process : WaitInv(p)

\* The part of the pool that the turns rely on.
Types == TableTypes /\ CallerTypes /\ CallShape

-----------------------------------------------------------------------------
\* The sort key of get_next_available_key: a key that is eligible is not passed.
LEMMA FirstIsFirst ==
  ASSUME NEW S \in SUBSET Key, NEW a \in Key, NEW m \in Key, FirstAfter(a, m, S),
         NEW j \in S, NEW k \in Key, Between(a, j, k)
  PROVE  m # k /\ (m # j => Between(m, j, k))
  <1>1. a \in Nat /\ m \in Nat /\ j \in Nat /\ k \in Nat /\ a # 0
    BY Assumptions
  <1>2. (m > a /\ j <= a) \/ ((m > a <=> j > a) /\ m <= j)
    BY <1>1 DEF FirstAfter
  <1>. QED
    BY <1>1, <1>2 DEF Between

\* A caller changes its own program counter and key only, and becomes "selected"
\* by selecting after the cursor only.
LEMMA OtherSteps ==
  ASSUME Types, Next, \A c \in Caller : ~SelectAfterCursor(c)
  PROVE  /\ \A c \in Caller : pc'[c] = "selected" => pc[c] = "selected" /\ key'[c] = key[c]
         /\ \/ UNCHANGED <<cursor, lock>> /\ \A c \in Caller :
                  pc[c] = "selected" => pc'[c] = "selected"
            \/ \E c \in Caller : MoveCursor(c)
  <1>1. CASE AdminStep
    BY <1>1 DEF AdminStep, AddKey, DeleteKey, MoveKey, EditLimit, EnableKey, DisableKey,
       Reset, Claim
  <1>2. ASSUME NEW c \in Caller, CallerStep(c), ~MoveCursor(c)
        PROVE  /\ UNCHANGED <<cursor, lock>>
               /\ \A d \in Caller \ {c} : pc'[d] = pc[d] /\ key'[d] = key[d]
               /\ pc[c] # "selected" /\ pc'[c] # "selected"
    <2>1. CASE SelectToReserve(c) \/ SelectByPriority(c) \/ NoKey(c)
      BY <2>1 DEF SelectToReserve, SelectByPriority, NoKey, Types, CallerTypes
    <2>2. CASE \E k \in Key : Reserve(c, k)
      BY <2>2 DEF Reserve, Types, CallerTypes
    <2>3. CASE Call(c) \/ GiveUp(c)
      BY <2>3 DEF Call, GiveUp, Types, CallerTypes
    <2>4. CASE MarkUsed(c) \/ ReadLimit(c) \/ WriteExhausted(c)
      BY <2>4 DEF MarkUsed, ReadLimit, WriteExhausted, Types, CallerTypes
    <2>. QED
      BY <1>2, <2>1, <2>2, <2>3, <2>4 DEF CallerStep, Select
  <1>3. ASSUME NEW c \in Caller, MoveCursor(c)
        PROVE  \A d \in Caller : pc'[d] = "selected" => pc[d] = "selected" /\ key'[d] = key[d]
    BY <1>3 DEF MoveCursor
  <1>. QED
    BY <1>1, <1>2, <1>3 DEF Next

\* What a selection does to the history.
LEMMA Taken ==
  ASSUME Types, NEW c \in Speech, SelectAfterCursor(c)
  PROVE  /\ key'[c] \in Key => TakenBy(Home[c]) = {key'[c]}
         /\ key'[c] = 0 => TakenBy(Home[c]) = {}
         /\ \A p \in Process \ {Home[c]} : TakenBy(p) = {}
         /\ pc'[c] = "selected" /\ pc[c] = "choosing"
         /\ \A d \in Caller \ {c} : pc'[d] = pc[d] /\ key'[d] = key[d]
  <1>1. /\ pc'[c] = "selected" /\ pc[c] = "choosing"
        /\ \A d \in Caller \ {c} : pc'[d] = pc[d] /\ key'[d] = key[d]
    BY Assumptions DEF SelectAfterCursor, Types, CallerTypes
  <1>2. \A d \in Speech, k \in Key : Takes(d, k) <=> d = c /\ k = key'[c] /\ k # 0
    BY <1>1, Assumptions DEF Takes
  <1>3. 0 \notin Key
    BY Assumptions
  <1>. QED
    BY <1>1, <1>2, <1>3, Assumptions DEF TakenBy

-----------------------------------------------------------------------------
\* A selection, with the lock.
LEMMA SelectKeepsTurns ==
  ASSUME Types, TurnInv, RotationNext, NEW c \in Speech, SelectAfterCursor(c)
  PROVE  /\ TurnInv'
         /\ \A k \in Key : Takes(c, k) => \A j \in Key : <<k, j>> \notin waiting[Home[c]]
  <1>. DEFINE p == Home[c]
              m == key'[c]
              S == Eligible
  <1>1. p \in Process /\ c \in Caller
    BY Assumptions
  <1>2. lock[p] = {} /\ lock' = [lock EXCEPT ![p] = {c}] /\ UNCHANGED <<cursor, table>>
    BY DEF SelectAfterCursor
  <1>3. Selecting(p) = {}
    BY <1>2, Assumptions DEF Selecting, TurnInv, LockInv
  <1>4. Eligible' = Eligible /\ S \subseteq Key
    BY <1>2 DEF Eligible, Offered, Usable, WithinLimit, Types, TableTypes
  <1>5. (m \in Key /\ FirstAfter(cursor[p], m, S)) \/ (m = 0 /\ S = {})
    BY <1>1 DEF SelectAfterCursor, Eligible, Types, CallerTypes
  <1>6. /\ m \in Key => TakenBy(p) = {m}
        /\ m = 0 => TakenBy(p) = {}
        /\ \A r \in Process \ {p} : TakenBy(r) = {}
        /\ pc'[c] = "selected" /\ pc[c] = "choosing"
        /\ \A d \in Caller \ {c} : pc'[d] = pc[d] /\ key'[d] = key[d]
    BY Taken
  <1>7. Selecting(p)' = {c} /\ \A r \in Process \ {p} : Selecting(r)' = Selecting(r)
    BY <1>3, <1>6, Assumptions DEF Selecting
  <1>8. \A w \in waiting[p] : w \in Key \X Key /\ w[2] \in S
                                /\ cursor[p] # 0 /\ Between(cursor[p], w[2], w[1])
    BY <1>1, <1>3 DEF TurnInv, WaitInv
  <1>9. \A w \in waiting[p] : m \in Key => m # w[1] /\ (m # w[2] => Between(m, w[2], w[1]))
    <2>1. SUFFICES ASSUME NEW w \in waiting[p], m \in Key
                   PROVE  m # w[1] /\ (m # w[2] => Between(m, w[2], w[1]))
      OBVIOUS
    <2>2. cursor[p] \in Key /\ S \in SUBSET Key
      BY <1>1, <1>4, <1>8, <2>1 DEF Types, CallerTypes, KeyOrNone
    <2>3. w[2] \in S /\ w[1] \in Key /\ Between(cursor[p], w[2], w[1])
      BY <1>8, <2>1
    <2>4. FirstAfter(cursor[p], m, S)
      BY <1>5, <2>1, Assumptions
    <2>. QED
      BY <2>1, <2>2, <2>3, <2>4, FirstIsFirst
  <1>10. waiting'[p] = {w \in waiting[p] : w[1] \notin TakenBy(p) /\ w[2] \in S \ TakenBy(p)}
                         \cup (TakenBy(p) \X (S \ TakenBy(p)))
    BY <1>1, <1>4 DEF RotationNext
  <1>11. WaitInv(p)'
    <2>1. CASE m = 0
      <3>1. waiting'[p] = {}
        BY <1>5, <1>6, <1>10, <2>1, Assumptions
      <3>. QED
        BY <3>1 DEF WaitInv
    <2>2. CASE m \in Key
      <3>1. SUFFICES ASSUME NEW w \in waiting'[p]
                     PROVE  /\ w \in Key \X Key /\ w[2] \in S
                            /\ m # 0 /\ Between(m, w[2], w[1])
        BY <1>4, <1>7, <3>1 DEF WaitInv
      <3>2. m # 0 /\ m \in Nat /\ \A j \in Key : j \in Nat
        BY <2>2, Assumptions
      <3>3. CASE w \in waiting[p] /\ w[2] # m
        BY <1>8, <1>9, <2>2, <3>2, <3>3
      <3>4. CASE w \in {m} \X (S \ {m})
        BY <1>4, <2>2, <3>2, <3>4 DEF Between
      <3>. QED
        BY <1>6, <1>10, <2>2, <3>1, <3>3, <3>4
    <2>. QED
      BY <1>5, <2>1, <2>2
  <1>12. ASSUME NEW r \in Process, r # p PROVE WaitInv(r)'
    <2>1. waiting'[r] \subseteq waiting[r]
      BY <1>6, <1>12 DEF RotationNext
    <2>2. \A d \in Selecting(r) : key'[d] = key[d]
      BY <1>6, <1>12, Assumptions DEF Selecting
    <2>3. WaitInv(r) /\ Selecting(r)' = Selecting(r)
      BY <1>7, <1>12 DEF TurnInv
    <2>. QED
      BY <1>2, <1>4, <2>1, <2>2, <2>3 DEF WaitInv
  <1>13. LockInv'
    <2>1. SUFFICES ASSUME NEW d \in Caller, pc'[d] = "selected"
                   PROVE  d \in Speech /\ lock'[Home[d]] = {d}
      BY DEF LockInv
    <2>2. CASE d = c
      BY <1>1, <1>2, <2>2 DEF Types, CallerTypes
    <2>3. CASE d # c
      <3>1. d \in Speech /\ lock[Home[d]] = {d}
        BY <1>6, <2>1, <2>3 DEF TurnInv, LockInv
      <3>. QED
        BY <1>2, <3>1, Assumptions DEF Types, CallerTypes
    <2>. QED
      BY <2>2, <2>3
  <1>14. waiting' \in [Process -> SUBSET (Key \X Key)]
    BY <1>4 DEF RotationNext, TurnInv, TakenBy
  <1>15. ASSUME NEW k \in Key, Takes(c, k), NEW j \in Key PROVE <<k, j>> \notin waiting[p]
    <2>1. k = m
      BY <1>15 DEF Takes
    <2>. QED
      BY <1>9, <1>15, <2>1
  <1>. QED
    BY <1>11, <1>12, <1>13, <1>14, <1>15 DEF TurnInv

\* Every other step.
LEMMA OthersKeepTurns ==
  ASSUME Types, Types', TurnInv, RotationNext, \A c \in Caller : ~SelectAfterCursor(c)
  PROVE  TurnInv' /\ \A c \in Speech, k \in Key : ~Takes(c, k)
  <1>1. Next /\ Speech \subseteq Caller
    BY Assumptions DEF RotationNext
  <1>2. \A c \in Caller : pc'[c] = "selected" => pc[c] = "selected" /\ key'[c] = key[c]
    BY <1>1, OtherSteps
  <1>3. \A c \in Speech, k \in Key : ~Takes(c, k)
    BY <1>1, <1>2 DEF Takes
  <1>4. \A p \in Process : TakenBy(p) = {}
    BY <1>3 DEF TakenBy
  <1>5. \A p \in Process : waiting'[p] = {w \in waiting[p] : w[2] \in Eligible'}
    BY <1>4 DEF RotationNext
  <1>6. waiting' \in [Process -> SUBSET (Key \X Key)]
    BY <1>4 DEF RotationNext, TurnInv
  <1>7. CASE /\ UNCHANGED <<cursor, lock>>
             /\ \A c \in Caller : pc[c] = "selected" => pc'[c] = "selected"
    <2>1. \A p \in Process : Selecting(p)' = Selecting(p)
      BY <1>1, <1>2, <1>7 DEF Selecting
    <2>2. \A p \in Process : \A c \in Selecting(p) : key'[c] = key[c]
      BY <1>1, <1>2, <1>7 DEF Selecting
    <2>3. LockInv'
      BY <1>2, <1>7 DEF TurnInv, LockInv
    <2>4. ASSUME NEW p \in Process PROVE WaitInv(p)'
      BY <1>5, <1>7, <2>1, <2>2, <2>4 DEF TurnInv, WaitInv
    <2>. QED
      BY <1>3, <1>6, <2>3, <2>4 DEF TurnInv
  <1>8. ASSUME NEW c \in Caller, MoveCursor(c) PROVE TurnInv'
    <2>1. c \in Speech /\ lock[Home[c]] = {c} /\ Home[c] \in Process /\ pc[c] = "selected"
      BY <1>8, Assumptions DEF MoveCursor, TurnInv, LockInv
    <2>2. /\ pc'[c] # "selected" /\ \A d \in Caller \ {c} : pc'[d] = pc[d]
          /\ key' = key
      BY <1>8 DEF MoveCursor, Types, CallerTypes
    <2>3. Selecting(Home[c]) = {c}
      BY <2>1, <1>1 DEF Selecting, TurnInv, LockInv
    <2>4. Selecting(Home[c])' = {}
      BY <2>2, <2>3, <1>1 DEF Selecting
    <2>5. \A p \in Process \ {Home[c]} : Selecting(p)' = Selecting(p)
      BY <2>1, <2>2, <1>1 DEF Selecting
    <2>6. /\ \A p \in Process \ {Home[c]} : cursor'[p] = cursor[p] /\ lock'[p] = lock[p]
          /\ cursor'[Home[c]] = IF key[c] = 0 THEN cursor[Home[c]] ELSE key[c]
      BY <1>8, <2>1 DEF MoveCursor, Types, CallerTypes
    <2>7. LockInv'
      <3>1. SUFFICES ASSUME NEW d \in Caller, pc'[d] = "selected"
                     PROVE  d \in Speech /\ lock'[Home[d]] = {d}
        BY DEF LockInv
      <3>2. d # c /\ d \in Speech /\ lock[Home[d]] = {d} /\ Home[d] \in Process
        BY <2>2, <3>1, Assumptions DEF TurnInv, LockInv
      <3>3. Home[d] # Home[c]
        BY <2>1, <3>2
      <3>. QED
        BY <2>6, <3>2, <3>3
    <2>8. ASSUME NEW p \in Process PROVE WaitInv(p)'
      <3>1. CASE p = Home[c]
        BY <1>5, <2>2, <2>3, <2>4, <2>6, <3>1 DEF TurnInv, WaitInv
      <3>2. CASE p # Home[c]
        BY <1>5, <2>2, <2>5, <2>6, <3>2 DEF TurnInv, WaitInv
      <3>. QED
        BY <3>1, <3>2
    <2>. QED
      BY <1>6, <2>7, <2>8 DEF TurnInv
  <1>. QED
    BY <1>1, <1>3, <1>7, <1>8, OtherSteps

-----------------------------------------------------------------------------
\* A process of Gemini speech takes its keys in turn (_next_pool_key and the sort
\* key of get_next_available_key): it takes none again while another that has been
\* eligible since has not had its turn, for any keys, callers and processes.
THEOREM KeysTakeTurns == RotationSpec => RoundRobin
  <1>1. RotationInit => TurnInv
    BY DEF RotationInit, Init, TurnInv, LockInv, WaitInv
  <1>2. RotationSpec => []Inv
    <2>1. RotationInit => Init
      BY DEF RotationInit
    <2>2. [RotationNext]_rotationVars => [Next]_vars
      BY DEF RotationNext, rotationVars
    <2>. QED
      BY <2>1, <2>2, Invariance, PTL DEF RotationSpec, Spec
  <1>3. Inv => Types
    BY TypesAreTypes DEF Inv, Types
  <1>4. Inv' => Types'
    BY DEF Inv, Types, TypeOK, TableTypes, CallerTypes, CallShape
  <1>5. ASSUME Inv, Inv', TurnInv, RotationNext
        PROVE  TurnInv' /\ \A c \in Speech, k \in Key : Takes(c, k) =>
                   \A j \in Key : <<k, j>> \notin waiting[Home[c]]
    <2>1. CASE \A c \in Caller : ~SelectAfterCursor(c)
      BY <1>3, <1>4, <1>5, <2>1, OthersKeepTurns
    <2>2. ASSUME NEW c \in Caller, SelectAfterCursor(c)
          PROVE  TurnInv' /\ \A d \in Speech, k \in Key : Takes(d, k) =>
                   \A j \in Key : <<k, j>> \notin waiting[Home[d]]
      <3>1. c \in Speech
        BY <2>2 DEF SelectAfterCursor
      <3>2. \A d \in Speech, k \in Key : Takes(d, k) => d = c
        BY <1>3, <1>5, <2>2, <3>1, Taken, Assumptions DEF Takes
      <3>. QED
        BY <1>3, <1>5, <2>2, <3>1, <3>2, SelectKeepsTurns
    <2>. QED
      BY <2>1, <2>2
  <1>6. ASSUME TurnInv, UNCHANGED rotationVars PROVE TurnInv'
    BY <1>6 DEF rotationVars, vars, TurnInv, LockInv, WaitInv, Selecting, Eligible, Offered,
       Usable, WithinLimit
  <1>7. Inv /\ Inv' /\ TurnInv /\ [RotationNext]_rotationVars => TurnInv'
    BY <1>5, <1>6
  <1>8. Inv /\ Inv' /\ TurnInv /\ [RotationNext]_rotationVars =>
           [\A c \in Speech, k \in Key : Takes(c, k) =>
               \A j \in Key : <<k, j>> \notin waiting[Home[c]]]_rotationVars
    BY <1>5
  <1>. QED
    BY <1>1, <1>2, <1>7, <1>8, PTL DEF RotationSpec, RoundRobin
=============================================================================
