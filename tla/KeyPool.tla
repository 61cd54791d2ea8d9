------------------------------ MODULE KeyPool ------------------------------
(***************************************************************************)
(* The pool of API keys of one provider: how a key is selected, reserved,  *)
(* counted, marked as exhausted and reset while calls of the provider are  *)
(* under way (app/services/key_manager.py and its callers).                *)
(*                                                                         *)
(* A call of the provider is made by one of three kinds of callers.        *)
(* Queries (chat, generation, media, live speech) reserve a request before *)
(* they call.  Gemini speech and keyword extraction count a request after  *)
(* it succeeded; speech also cycles through the keys, with a cursor in     *)
(* each process.  An administrator edits and claims keys meanwhile.        *)
(*                                                                         *)
(* Priorities, total_count and SKIP LOCKED decide which of the eligible    *)
(* keys is taken; here it may be any of them, except for speech.           *)
(***************************************************************************)
EXTENDS Naturals, FiniteSets

CONSTANTS
    K,          \* ids of keys are 1 .. K
    Broken,     \* keys that cannot be decrypted
    Query, Speech, Keyword,   \* the callers
    Process,    \* gateway processes
    Home,       \* the process of a speech caller
    Limits,     \* daily limits; 0 is no limit
    MaxTries,   \* calls of the provider made by one caller
    MaxAdmin    \* bound on what administrators and the cron job do

Key == 1 .. K
Unreserved == Speech \cup Keyword
Caller == Query \cup Unreserved

ASSUME KAssumption == K \in Nat
ASSUME LimitsAssumption == Limits \subseteq Nat
ASSUME BoundsAssumption == MaxTries \in Nat /\ MaxAdmin \in Nat
ASSUME HomeAssumption == Home \in [Speech -> Process]
ASSUME CallerAssumption ==
    /\ IsFiniteSet(Query) /\ IsFiniteSet(Speech) /\ IsFiniteSet(Keyword)
    /\ Query \cap Unreserved = {}
    /\ Speech \cap Keyword = {}

VARIABLES
    rows,     \* keys in the table
    pool,     \* those of this provider
    active,   \* is_active
    limit,    \* daily_limit; 0 for NULL
    used,     \* requests_today
    nextId,   \* the next id of the table
    pc,       \* where a caller is
    key,      \* the key it calls with, or 0
    todo,     \* keys it may still try to reserve
    noted,    \* the limit read by mark_key_quota_exceeded
    tries,    \* calls it has made
    cursor,   \* _key_cursor of a process; 0 is None
    lock,     \* callers that hold _key_lock
    admin,    \* calls of administrators so far (bounds the model)
    granted, edited, exhausted   \* not variables of the code: see below

\* granted counts the requests reserved or claimed since the last reset; edited
\* has the keys whose limit an administrator changed; exhausted has the keys
\* marked by mark_key_quota_exceeded and not reset, re-enabled or edited since.
ghosts == <<granted, edited, exhausted>>
table == <<rows, pool, active, limit, used, nextId>>
callers == <<pc, key, todo, noted, tries, cursor, lock>>
vars == <<table, callers, admin, ghosts>>

\* "choosing" a key, "reserving" or (speech) having "selected" one, "calling"
\* the provider, "using": to count a success, "marking" and "writing": in
\* mark_key_quota_exceeded before its query and before its update.
CallerPC == {"choosing", "reserving", "selected", "calling", "using", "marking",
             "writing", "over"}
KeyOrNone == Key \cup {0}

TypeOK ==
    /\ rows \subseteq Key /\ pool \subseteq rows /\ active \subseteq rows
    /\ limit \in [Key -> Nat] /\ used \in [Key -> Nat]
    /\ nextId \in 1 .. K + 1
    /\ pc \in [Caller -> CallerPC]
    /\ key \in [Caller -> KeyOrNone]
    /\ todo \in [Caller -> SUBSET Key]
    /\ noted \in [Caller -> Nat]
    /\ tries \in [Caller -> 0 .. MaxTries]
    /\ cursor \in [Process -> KeyOrNone]
    /\ lock \in [Process -> SUBSET Speech]
    /\ admin \in 0 .. MaxAdmin
    /\ granted \in [Key -> Nat]
    /\ edited \subseteq Key /\ exhausted \subseteq Key
    /\ \A c \in Caller :
          pc[c] \in {"calling", "using", "marking", "writing"} => key[c] \in Key

\* The first keys of the table, with any limits.
Init ==
    /\ nextId \in 1 .. K + 1
    /\ rows = 1 .. nextId - 1
    /\ pool = rows
    /\ active = rows
    /\ limit \in [Key -> Limits]
    /\ used = [k \in Key |-> 0]
    /\ pc = [c \in Caller |-> "choosing"]
    /\ key = [c \in Caller |-> 0]
    /\ todo = [c \in Caller |-> {}]
    /\ noted = [c \in Caller |-> 0]
    /\ tries = [c \in Caller |-> 0]
    /\ cursor = [p \in Process |-> 0]
    /\ lock = [p \in Process |-> {}]
    /\ admin = 0
    /\ granted = [k \in Key |-> 0]
    /\ edited = {}
    /\ exhausted = {}

\* is_within_limit
WithinLimit(k) == limit[k] = 0 \/ used[k] < limit[k]

\* What the conditional update of a reservation rechecks, by id.
Usable(k) == k \in active /\ WithinLimit(k)

\* What the query of get_next_available_key and is_within_limit leave.
Offered == {k \in pool : Usable(k)}

Goes(c, p) == pc' = [pc EXCEPT ![c] = p]
Holds(c, k) == key' = [key EXCEPT ![c] = k]
Grant(S) ==
    /\ used' = [k \in Key |-> IF k \in S THEN used[k] + 1 ELSE used[k]]
    /\ granted' = [k \in Key |-> IF k \in S THEN granted[k] + 1 ELSE granted[k]]

MayCallAgain(c) == tries[c] < MaxTries

-----------------------------------------------------------------------------
\* get_next_available_key(reserve=True), by queries.

\* Its query.  Keys that cannot be decrypted are skipped.
SelectToReserve(c) ==
    /\ c \in Query
    /\ pc[c] = "choosing"
    /\ MayCallAgain(c)
    /\ todo' = [todo EXCEPT ![c] = Offered \ Broken]
    /\ Goes(c, "reserving")
    /\ UNCHANGED <<table, key, noted, tries, cursor, lock, admin, ghosts>>

\* Mutant: the key of the snapshot is taken without a recheck.
ReserveUnchecked(c, k) ==
    /\ pc[c] = "reserving"
    /\ k \in todo[c]
    /\ todo' = [todo EXCEPT ![c] = {}]
    /\ Grant({k})
    /\ Holds(c, k)
    /\ Goes(c, "calling")
    /\ UNCHANGED <<rows, pool, active, limit, nextId, noted, tries, cursor, lock,
                   admin, edited, exhausted>>

\* The conditional update of one key and its commit, whose answer may be lost.
Reserve(c, k) ==
    /\ pc[c] = "reserving"
    /\ k \in todo[c]
    /\ \/ /\ Usable(k)
          /\ Grant({k})
          /\ todo' = [todo EXCEPT ![c] = {}]
          /\ \/ Holds(c, k) /\ Goes(c, "calling")
             \/ Goes(c, "over") /\ UNCHANGED key
       \/ /\ ~Usable(k)
          /\ todo' = [todo EXCEPT ![c] = @ \ {k}]
          /\ UNCHANGED <<used, granted, key, pc>>
    /\ UNCHANGED <<rows, pool, active, limit, nextId, noted, tries, cursor, lock,
                   admin, edited, exhausted>>

\* No key is left: the model is skipped, and the next one may be tried.
NoKey(c) ==
    /\ pc[c] = "reserving"
    /\ todo[c] = {}
    /\ \E p \in {"choosing", "over"} : Goes(c, p)
    /\ UNCHANGED <<table, key, todo, noted, tries, cursor, lock, admin, ghosts>>

\* get_next_available_key without a reservation, by keyword extraction.
SelectByPriority(c) ==
    /\ c \in Keyword
    /\ pc[c] = "choosing"
    /\ \/ /\ MayCallAgain(c)
          /\ \E k \in Offered \ Broken : Holds(c, k)
          /\ Goes(c, "calling")
       \/ (Offered \ Broken = {} \/ ~MayCallAgain(c)) /\ Goes(c, "over") /\ UNCHANGED key
    /\ UNCHANGED <<table, todo, noted, tries, cursor, lock, admin, ghosts>>

\* The sort key of get_next_available_key: ids after a, then from the start.
\* Without a cursor the order is that of the priorities.
FirstAfter(a, k, S) ==
    /\ k \in S
    /\ \A j \in S : a # 0 => (k > a /\ j <= a) \/ ((k > a <=> j > a) /\ k <= j)

\* Mutant: _key_lock is not taken.
SelectUnlocked(c) ==
    /\ c \in Speech
    /\ pc[c] = "choosing"
    /\ lock' = [lock EXCEPT ![Home[c]] = @ \cup {c}]
    /\ \/ /\ \E k \in Key : FirstAfter(cursor[Home[c]], k, Offered \ Broken) /\ Holds(c, k)
          /\ Goes(c, "selected")
       \/ /\ Offered \ Broken = {}
          /\ Holds(c, 0)
          /\ Goes(c, "selected")
    /\ UNCHANGED <<table, todo, noted, tries, cursor, admin, ghosts>>

\* _next_pool_key of speech: with the lock, the cursor is read and the keys queried.
SelectAfterCursor(c) ==
    /\ c \in Speech
    /\ pc[c] = "choosing"
    /\ lock[Home[c]] = {}
    /\ lock' = [lock EXCEPT ![Home[c]] = {c}]
    /\ \/ /\ \E k \in Key : FirstAfter(cursor[Home[c]], k, Offered \ Broken) /\ Holds(c, k)
          /\ Goes(c, "selected")
       \/ /\ Offered \ Broken = {}
          /\ Holds(c, 0)
          /\ Goes(c, "selected")
    /\ UNCHANGED <<table, todo, noted, tries, cursor, admin, ghosts>>

\* The cursor moves to the key, if there is one, and the lock is released.
MoveCursor(c) ==
    /\ pc[c] = "selected"
    /\ lock' = [lock EXCEPT ![Home[c]] = @ \ {c}]
    /\ cursor' = [cursor EXCEPT ![Home[c]] = IF key[c] = 0 THEN @ ELSE key[c]]
    /\ Goes(c, IF key[c] # 0 /\ MayCallAgain(c) THEN "calling" ELSE "over")
    /\ UNCHANGED <<table, key, todo, noted, tries, admin, ghosts>>

-----------------------------------------------------------------------------
\* The call of the provider and what follows.

\* It succeeds, is refused for quota, or fails in some other way.
Call(c) ==
    /\ pc[c] = "calling"
    /\ MayCallAgain(c)
    /\ tries' = [tries EXCEPT ![c] = @ + 1]
    /\ \/ c \in Unreserved /\ Goes(c, "using")
       \/ Goes(c, "marking")
       \/ c \in Query /\ Goes(c, "choosing")    \* the next model
       \/ c \in Speech /\ Goes(c, "calling")    \* a retry
       \/ Goes(c, "over")
    /\ UNCHANGED <<table, key, todo, noted, cursor, lock, admin, ghosts>>

\* A query looks for no other model, and speech does not retry or go on to another
\* chunk, after its last call.
GiveUp(c) ==
    /\ (c \in Query /\ pc[c] = "choosing") \/ (c \in Speech /\ pc[c] = "calling")
    /\ ~MayCallAgain(c)
    /\ Goes(c, "over")
    /\ UNCHANGED <<table, key, todo, noted, tries, cursor, lock, admin, ghosts>>

\* Mutant: a success is counted twice.
CountTwice(c) ==
    /\ pc[c] = "using"
    /\ used' = [used EXCEPT ![key[c]] = @ + 2]
    /\ Goes(c, "over")
    /\ UNCHANGED <<rows, pool, active, limit, nextId, key, todo, noted, tries, cursor,
                   lock, admin, ghosts>>

\* mark_key_used; a failure of it is ignored by speech, which goes on with the same
\* key if there is another chunk.  Keyword extraction
\* takes an exception whose text looks like one for a quota failure, here and
\* when it parses the answer afterwards.
MarkUsed(c) ==
    /\ pc[c] = "using"
    /\ \/ key[c] \in rows /\ used' = [used EXCEPT ![key[c]] = @ + 1]
       \/ UNCHANGED used
    /\ \/ Goes(c, "over")
       \/ c \in Speech /\ Goes(c, "calling")
       \/ c \in Keyword /\ Goes(c, "marking")
    /\ UNCHANGED <<rows, pool, active, limit, nextId, key, todo, noted, tries, cursor,
                   lock, admin, ghosts>>

\* mark_key_quota_exceeded: its query.
ReadLimit(c) ==
    /\ pc[c] = "marking"
    /\ \/ /\ key[c] \in rows
          /\ noted' = [noted EXCEPT ![c] = limit[key[c]]]
          /\ Goes(c, "writing")
       \/ key[c] \notin rows /\ Goes(c, "choosing") /\ UNCHANGED noted
    /\ UNCHANGED <<table, key, todo, tries, cursor, lock, admin, ghosts>>

\* Mutant: a key is never disabled.
PushCounter(c) ==
    /\ pc[c] = "writing"
    /\ key[c] \in rows
    /\ used' = [used EXCEPT ![key[c]] = noted[c]]
    /\ exhausted' = exhausted \cup {key[c]}
    /\ Goes(c, "choosing")
    /\ UNCHANGED <<rows, pool, active, limit, nextId, key, todo, noted, tries, cursor,
                   lock, admin, granted, edited>>

\* Its update: the counter is pushed to the limit that was read, or a key with
\* no limit is disabled.  It may fail; a query then ends with the exception.
WriteExhausted(c) ==
    /\ pc[c] = "writing"
    /\ \/ /\ key[c] \in rows
          /\ \/ /\ noted[c] # 0
                /\ used' = [used EXCEPT ![key[c]] = noted[c]]
                /\ UNCHANGED active
             \/ /\ noted[c] = 0
                /\ active' = active \ {key[c]}
                /\ UNCHANGED used
          /\ exhausted' = exhausted \cup {key[c]}
       \/ UNCHANGED <<used, active, exhausted>>
    /\ \/ Goes(c, "choosing")
       \/ c \notin Speech /\ Goes(c, "over")
    /\ UNCHANGED <<rows, pool, limit, nextId, key, todo, noted, tries, cursor, lock,
                   admin, granted, edited>>

-----------------------------------------------------------------------------
\* Administrators and the daily reset.

Administers == admin < MaxAdmin /\ admin' = admin + 1

\* add_provider_key
AddKey(l) ==
    /\ Administers
    /\ nextId \in Key
    /\ rows' = rows \cup {nextId}
    /\ pool' = pool \cup {nextId}
    /\ active' = active \cup {nextId}
    /\ limit' = [limit EXCEPT ![nextId] = l]
    /\ used' = [used EXCEPT ![nextId] = 0]
    /\ nextId' = nextId + 1
    /\ UNCHANGED <<callers, ghosts>>

\* delete_provider_key
DeleteKey(k) ==
    /\ Administers
    /\ k \in rows
    /\ rows' = rows \ {k}
    /\ pool' = pool \ {k}
    /\ active' = active \ {k}
    /\ UNCHANGED <<limit, used, nextId, callers, ghosts>>

\* update_provider_key with another provider, and back.
MoveKey(k) ==
    /\ Administers
    /\ k \in rows
    /\ pool' = IF k \in pool THEN pool \ {k} ELSE pool \cup {k}
    /\ UNCHANGED <<rows, active, limit, used, nextId, callers, ghosts>>

\* update_provider_key with another limit, which cannot be removed again.
EditLimit(k, l) ==
    /\ Administers
    /\ k \in rows
    /\ l # 0
    /\ limit' = [limit EXCEPT ![k] = l]
    /\ edited' = edited \cup {k}
    /\ exhausted' = exhausted \ {k}
    /\ UNCHANGED <<rows, pool, active, used, nextId, callers, granted>>

\* toggle_key
EnableKey(k) ==
    /\ Administers
    /\ k \in rows
    /\ active' = active \cup {k}
    /\ exhausted' = IF limit[k] = 0 THEN exhausted \ {k} ELSE exhausted
    /\ UNCHANGED <<rows, pool, limit, used, nextId, callers, granted, edited>>

DisableKey(k) ==
    /\ Administers
    /\ k \in rows
    /\ active' = active \ {k}
    /\ UNCHANGED <<rows, pool, limit, used, nextId, callers, ghosts>>

\* reset_daily_counts, of this provider or of all.
Reset(S) ==
    /\ Administers
    /\ S \in {pool, rows}
    /\ used' = [k \in Key |-> IF k \in S THEN 0 ELSE used[k]]
    /\ active' = active \cup S
    /\ granted' = [k \in Key |-> IF k \in S THEN 0 ELSE granted[k]]
    /\ exhausted' = exhausted \ S
    /\ UNCHANGED <<rows, pool, limit, nextId, callers, edited>>

\* claim_provider_keys: up to two eligible keys, or none if one cannot be decrypted.
Claim(S) ==
    /\ Administers
    /\ S \subseteq Offered \ Broken
    /\ Cardinality(S) \in 1 .. 2
    /\ Grant(S)
    /\ UNCHANGED <<rows, pool, active, limit, nextId, callers, edited, exhausted>>

-----------------------------------------------------------------------------
Select(c) == SelectToReserve(c) \/ SelectByPriority(c) \/ SelectAfterCursor(c)

CallerStep(c) ==
    \/ Select(c)
    \/ \E k \in Key : Reserve(c, k)
    \/ NoKey(c)
    \/ MoveCursor(c)
    \/ Call(c)
    \/ GiveUp(c)
    \/ MarkUsed(c)
    \/ ReadLimit(c)
    \/ WriteExhausted(c)

AdminStep ==
    \/ \E l \in Limits : AddKey(l)
    \/ \E k \in Key : DeleteKey(k)
    \/ \E k \in Key : MoveKey(k)
    \/ \E k \in Key, l \in Limits : EditLimit(k, l)
    \/ \E k \in Key : EnableKey(k)
    \/ \E k \in Key : DisableKey(k)
    \/ \E S \in SUBSET Key : Reset(S)
    \/ \E S \in SUBSET Key : Claim(S)

Next == AdminStep \/ \E c \in Caller : CallerStep(c)

Spec == Init /\ [][Next]_vars

-----------------------------------------------------------------------------
\* Concurrent queries and claims never get more requests of a key in a day than
\* its daily limit, whatever speech, keyword extraction, late quota failures and
\* resets do to the counter meanwhile (get_next_available_key, claim_provider_keys).
\* A limit that is edited is excluded: see MarkedIsSkipped.
QuotaRespected ==
    \A k \in Key \ edited : limit[k] # 0 => granted[k] <= limit[k]

\* A call of a caller that counts afterwards: the caller, and the number of the call.
Uncounted == Unreserved \X (1 .. MaxTries)

\* Those that may yet be counted for k: a caller that has selected k keeps it for the
\* calls it still makes, until it is refused.
Prospective(k) ==
    {call \in Uncounted :
        LET c == call[1]
        IN /\ key[c] = k
           /\ \/ pc[c] \in {"selected", "calling"} /\ tries[c] < call[2]
              \/ pc[c] = "using" /\ tries[c] <= call[2]}

\* Callers that count after they succeed overshoot a limit by no more than the calls
\* they make: each has looked at the counter before the first of its calls, and speech
\* not again before the others (mark_key_used).
OvershootBounded ==
    \A k \in Key \ edited : limit[k] # 0 =>
        used[k] + Cardinality(Prospective(k)) <= limit[k] + Cardinality(Uncounted)

\* A key marked as exhausted is not offered again before a reset, or before an
\* administrator changes it, although others still count and mark it
\* (mark_key_quota_exceeded), unless its limit has been edited.
ExhaustedIsSkipped == \A k \in exhausted \ edited : k \notin Offered

\* The same of every key: mark_key_quota_exceeded says that it "sets requests_today
\* = daily_limit so the key is skipped on next call".  A limit raised between
\* its query and its update leaves the key on offer.
MarkedIsSkipped == \A k \in exhausted : k \notin Offered

=============================================================================
