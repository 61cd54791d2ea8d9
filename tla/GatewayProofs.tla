---------------------------- MODULE GatewayProofs ---------------------------
(***************************************************************************)
(* Proofs about what stands before the calls of the gateway: SignIn,       *)
(* ModelCatalog and QueryPipeline, for any constants.                      *)
(***************************************************************************)
EXTENDS SignIn, ModelCatalog, QueryPipeline, FiniteSetTheorems, TLAPS

\* The states of a login with Google.
OAuthState == {"none", "started", "consumed", "ticket", "taken", "expired"}

\* The row of an email code, and the handler that has it locked.
Challenge == [state : {"none", "sent", "minute", "expired", "consumed"}, attempts : Nat,
              lock : Handler \cup {Free}]

\* What a handler of a login is doing.
LoginWork == [at : {"google", "exchange", "deliver"}, login : Login]

\* A handler that compares a code, or commits an attempt: the attempts it read.
VerifyWork == [at : {"verify", "wrong"}, login : Login, attempts : Nat]

\* The types of the sign-in.
SignInTypeOK ==
    /\ oauth \in [Login -> OAuthState]
    /\ challenge \in [Login -> Challenge]
    /\ handler \in [Handler -> {Rest} \cup LoginWork \cup VerifyWork]
    /\ approved \in BOOLEAN
    /\ sessions \in [Login -> Nat]
    /\ guesses \in [Login -> Nat]

\* Where a login is decides what a request for it may be doing, and a request that
\* may still lead to a session is the only one, before any session.
WorkInv(h) ==
    handler[h] # Rest =>
        LET l == handler[h].login
        IN /\ At(h, "google") => oauth[l] = "consumed"
           /\ At(h, "exchange") \/ At(h, "deliver") =>
                oauth[l] = "taken" /\ challenge[l].state = "none"
           /\ At(h, "verify") \/ At(h, "wrong") =>
                /\ challenge[l].lock = h
                /\ challenge[l].state \in {"sent", "minute"}
                /\ challenge[l].attempts = handler[h].attempts
                /\ challenge[l].attempts < MaxAttempts
           /\ sessions[l] = 0
           /\ \A g \in Handler \ {h} : handler[g] # Rest => handler[g].login # l

\* What a login can still lead to, and the wrong codes it has had.
LoginInv(l) ==
    /\ oauth[l] \in {"none", "started", "ticket", "expired"} => sessions[l] = 0
    /\ challenge[l].state # "none" => oauth[l] = "taken"
    /\ challenge[l].state \notin {"none", "consumed"} => sessions[l] = 0
    /\ sessions[l] <= 1
    /\ guesses[l] <= challenge[l].attempts
    /\ challenge[l].attempts <= MaxAttempts

\* The inductive invariant of the sign-in.
SignInInv == SignInTypeOK /\ (\A h \in Handler : WorkInv(h)) /\ \A l \in Login : LoginInv(l)

\* Nobody has begun to sign in.
LEMMA SignInInitInv == SignInInit => SignInInv
BY DEF SignInInit, SignInInv, SignInTypeOK, WorkInv, LoginInv, OAuthState, Challenge, NoChallenge,
   MaxAttempts

\* Every step of a login, of a handler and of the clock preserves it.
LEMMA SignInStepInv == SignInInv /\ [SignInNext]_signInVars => SignInInv'
<1> SUFFICES ASSUME SignInInv, [SignInNext]_signInVars PROVE SignInInv'
  OBVIOUS
<1> USE DEF SignInInv, SignInTypeOK, OAuthState, Challenge, LoginWork, VerifyWork, Rest, At, WorkInv, LoginInv
<1>1. ASSUME NEW l \in Login, StartLogin(l) PROVE SignInInv'
  BY <1>1 DEF StartLogin
<1>2. ASSUME NEW l \in Login, ExpireLogin(l) PROVE SignInInv'
  BY <1>2 DEF ExpireLogin
<1>3. ASSUME NEW l \in Login, AgeChallenge(l) PROVE SignInInv'
  BY <1>3, FreeAssumption DEF AgeChallenge
<1>4. ASSUME NEW h \in Handler, NEW l \in Login, Callback(h, l) PROVE SignInInv'
  <2>1. SignInTypeOK'
    BY <1>4 DEF Callback, LogsOn
  <2>2. ASSUME NEW g \in Handler PROVE WorkInv(g)'
    <3>1. CASE g = h
      BY <1>4, <3>1 DEF Callback, LogsOn
    <3>2. CASE g # h
      BY <1>4, <3>2 DEF Callback, LogsOn
    <3> QED BY <3>1, <3>2
  <2>3. ASSUME NEW k \in Login PROVE LoginInv(k)'
    BY <1>4 DEF Callback, LogsOn
  <2> QED BY <2>1, <2>2, <2>3
<1>5. ASSUME NEW h \in Handler, NEW l \in Login, Exchange(h, l) PROVE SignInInv'
  BY <1>5, SMTT(30) DEF Exchange, LogsOn
<1>6. ASSUME NEW h \in Handler, NEW l \in Login, LockChallenge(h, l) PROVE SignInInv'
  <2>1. \A g \in Handler : handler[g] # Rest => handler[g].login # l
    BY <1>6, FreeAssumption DEF LockChallenge, Verifiable
  <2>2. sessions[l] = 0 /\ challenge[l].attempts < MaxAttempts
    BY <1>6 DEF LockChallenge, Verifiable
  <2>3. SignInTypeOK'
    BY <1>6 DEF LockChallenge
  <2>4. ASSUME NEW g \in Handler PROVE WorkInv(g)'
    <3>1. CASE g = h
      BY <1>6, <2>1, <2>2, <3>1 DEF LockChallenge, Verifiable
    <3>2. CASE g # h
      BY <1>6, <2>1, <3>2 DEF LockChallenge
    <3> QED BY <3>1, <3>2
  <2>5. ASSUME NEW k \in Login PROVE LoginInv(k)'
    BY <1>6 DEF LockChallenge
  <2> QED BY <2>3, <2>4, <2>5
<1>7. ASSUME NEW h \in Handler, IssueTicket(h) PROVE SignInInv'
  BY <1>7 DEF IssueTicket, Ends
<1>8. ASSUME NEW h \in Handler, IssueCookie(h) PROVE SignInInv'
  BY <1>8 DEF IssueCookie, Ends
<1>9. ASSUME NEW h \in Handler, Admit(h) PROVE SignInInv'
  BY <1>9 DEF Admit, Ends, Establish
<1>10. ASSUME NEW h \in Handler, CheckRecent(h) PROVE SignInInv'
  <2>1. CASE Recent
    <3>1. /\ At(h, "exchange") /\ handler' = [handler EXCEPT ![h] = Rest]
          /\ UNCHANGED <<oauth, challenge, approved, sessions, guesses>>
      BY <1>10, <2>1 DEF CheckRecent, Ends
    <3> QED BY <3>1
  <2>2. CASE ~Recent
    <3>1. /\ At(h, "exchange")
          /\ handler' = [handler EXCEPT ![h] = [at |-> "deliver", login |-> handler[h].login]]
          /\ UNCHANGED <<oauth, challenge, approved, sessions, guesses>>
      BY <1>10, <2>2 DEF CheckRecent, LogsOn
    <3> QED BY <3>1
  <2> QED BY <2>1, <2>2
<1>11. ASSUME NEW h \in Handler, Deliver(h) PROVE SignInInv'
  BY <1>11 DEF Deliver, Ends
<1>12. ASSUME NEW h \in Handler, CountAttempt(h) PROVE SignInInv'
  <2>1. PICK l \in Login : l = handler[h].login
    BY <1>12 DEF CountAttempt
  <2>2. /\ handler[h] # Rest /\ handler[h].attempts = challenge[l].attempts
        /\ challenge[l].attempts \in Nat /\ challenge[l].attempts < MaxAttempts
        /\ \A g \in Handler \ {h} : handler[g] # Rest => handler[g].login # l
    BY <1>12, <2>1 DEF CountAttempt
  <2>3. /\ handler' = [handler EXCEPT ![h] = Rest]
        /\ guesses' \in {guesses, [guesses EXCEPT ![l] = @ + 1]}
        /\ UNCHANGED <<oauth, approved, sessions>>
    BY <1>12, <2>1 DEF CountAttempt, Ends
  <2>4. PICK c : c = [challenge[l] EXCEPT !.attempts = challenge[l].attempts + 1, !.lock = Free]
    OBVIOUS
  <2>5. challenge' = [challenge EXCEPT ![l] = c]
    BY <1>12, <2>1, <2>2, <2>4 DEF CountAttempt
  <2>6. /\ c \in Challenge /\ c.attempts = challenge[l].attempts + 1 /\ c.attempts <= MaxAttempts
        /\ c.state = challenge[l].state
    <3>1. challenge[l] \in Challenge /\ challenge[l].attempts + 1 <= MaxAttempts
      BY <2>2 DEF MaxAttempts
    <3>2. c = [state |-> challenge[l].state, attempts |-> challenge[l].attempts + 1, lock |-> Free]
      BY <2>4, <3>1
    <3>3. c \in Challenge
      BY <2>2, <3>1, <3>2
    <3> QED BY <3>1, <3>2, <3>3
  <2>7. SignInTypeOK'
    BY <2>3, <2>5, <2>6
  <2>8. ASSUME NEW g \in Handler PROVE WorkInv(g)'
    BY <2>1, <2>2, <2>3, <2>5
  <2>9. ASSUME NEW k \in Login PROVE LoginInv(k)'
    <3>1. guesses'[k] \in Nat /\ guesses'[k] <= IF k = l THEN guesses[k] + 1 ELSE guesses[k]
      BY <2>3
    <3>2. /\ challenge'[k].state = challenge[k].state
          /\ challenge'[k].attempts = IF k = l THEN challenge[k].attempts + 1 ELSE challenge[k].attempts
      BY <2>5, <2>6
    <3>3. challenge'[k].attempts <= MaxAttempts
      BY <2>6, <3>2
    <3>4. guesses'[k] <= challenge'[k].attempts
      BY <3>1, <3>2
    <3> QED BY <2>3, <3>2, <3>3, <3>4
  <2> QED BY <2>7, <2>8, <2>9
<1>13. ASSUME NEW h \in Handler, RightCode(h) PROVE SignInInv'
  BY <1>13 DEF RightCode, Ends, Establish, MaxAttempts
<1>14. ASSUME NEW h \in Handler, Fail(h) PROVE SignInInv'
  BY <1>14 DEF Fail, Ends
<1>15. CASE Approve
  BY <1>15 DEF Approve
<1>16. ASSUME NEW h \in Handler, WrongCode(h) PROVE SignInInv'
  BY <1>16 DEF WrongCode
<1>17. CASE UNCHANGED signInVars
  BY <1>17 DEF signInVars
<1> QED
  BY <1>1, <1>2, <1>3, <1>4, <1>5, <1>6, <1>7, <1>8, <1>9, <1>10, <1>11, <1>12, <1>13, <1>14, <1>15, <1>16, <1>17
  DEF SignInNext

\* Every reachable state satisfies the invariant.
THEOREM SignInInvariance == SignInSpec => []SignInInv
BY SignInInitInv, SignInStepInv, PTL DEF SignInSpec

\* The variables of the sign-in have their types.
THEOREM SignInTypeCorrect == SignInSpec => []SignInTypeOK
<1>1. SignInInv => SignInTypeOK
  BY DEF SignInInv
<1> QED BY <1>1, SignInInvariance, PTL

\* A login, however its steps are repeated and raced, leads to one session at most.
THEOREM LoginsGiveOneSession == SignInSpec => []OneSessionPerSignIn
<1>1. SignInInv => OneSessionPerSignIn
  BY DEF SignInInv, LoginInv, OneSessionPerSignIn
<1> QED BY <1>1, SignInInvariance, PTL

\* No more than five codes are answered as wrong for a challenge.
THEOREM CodesAreLimited == SignInSpec => []GuessesAreLimited
<1>1. SignInInv => GuessesAreLimited
  <2> SUFFICES ASSUME SignInInv, NEW l \in Login PROVE guesses[l] <= MaxAttempts
    BY DEF GuessesAreLimited
  <2>1. guesses[l] \in Nat /\ challenge[l].attempts \in Nat
    BY DEF SignInInv, SignInTypeOK, Challenge
  <2>2. guesses[l] <= challenge[l].attempts /\ challenge[l].attempts <= MaxAttempts
    BY DEF SignInInv, LoginInv
  <2> QED BY <2>1, <2>2 DEF MaxAttempts
<1> QED BY <1>1, SignInInvariance, PTL
-----------------------------------------------------------------------------
(***************************************************************************)
(* ModelCatalog.                                                           *)
(***************************************************************************)
Work == [does : {"none", "sync", "create", "link", "shell"},
         at : {"idle", "select", "flush", "linking", "success", "failed"},
         names : SUBSET Name, left : SUBSET Name, wrote : SUBSET Name, next : SUBSET Name,
         row : CatalogRow, type : Type]

\* A synchronisation has written, or found as it should be, what it is done with.
SyncInv(work) ==
    /\ work.at \in {"select", "flush"} =>
          /\ work.does = "sync"
          /\ \A n \in work.names \ (work.left \cup work.next) : n \in work.wrote \/ catalog[n] = SyncedRow
    /\ work.at = "select" => work.next = {}
    /\ work.at = "flush" => \E n \in Name : work.next = {n}
    /\ work.at = "flush" /\ work.row = SyncedRow => \A n \in work.next : catalog[n] = SyncedRow

\* A model that a synchronisation has written, and may have taken over.
Claimed(n) == \E w \in Writer : Stage(w, "sync", "success") /\ n \in writing[w].wrote

\* What was read of a model is still so, unless a synchronisation has claimed it, and
\* a row of the older tables stays.
LinkInv(work) ==
    work.at = "linking" =>
        /\ work.does \in {"link", "shell"}
        /\ \A n \in work.next :
              /\ catalog[n].there
              /\ work.row.provider = catalog[n].provider \/ Claimed(n)
              /\ work.does = "link" =>
                    LET old == legacy[Table(work.type)][n]
                    IN old.there /\ old.type = work.type /\ old.provider = work.row.provider

\* The inductive invariant of the catalog: what each writer has done so far, and what it found, is told
\* by where it is.
CatalogInv ==
    /\ CatalogTypeOK
    /\ \A w \in Writer : SyncInv(writing[w]) /\ LinkInv(writing[w])
    /\ CatalogIsWhole

\* Rows that nobody has written.
LEMMA CatalogRows ==
    /\ Absent \in CatalogRow /\ ~Absent.there /\ NoLegacy \in LegacyRow
    /\ NotWriting \in Work /\ NotWriting.at = "idle" /\ NotWriting.wrote = {} /\ NotWriting.left = {}
    /\ SyncedRow \in CatalogRow /\ SyncedRow.there /\ SyncedRow.provider = Synced
    /\ \A type \in Type : Table(type) \in {"tts_models", "media_models"}
<1>1. Absent \in CatalogRow /\ ~Absent.there /\ NoLegacy \in LegacyRow
  BY SyncedAssumption DEF Absent, NoLegacy, CatalogRow, LegacyRow, Type
<1> QED BY <1>1, SyncedAssumption DEF NotWriting, Work, SyncedRow, CatalogRow, Type, Table

\* Nothing is written yet.
LEMMA CatalogInitInv == CatalogInit => CatalogInv
<1> SUFFICES ASSUME CatalogInit PROVE CatalogInv
  OBVIOUS
<1>1. legacy \in [{"tts_models", "media_models"} -> [Name -> LegacyRow]]
  <2>1. PICK old \in {NoLegacy} \cup [there : {TRUE}, provider : Vendor, type : {"image"}] :
            legacy = [table \in {"tts_models", "media_models"} |->
                         [n \in Name |-> IF table = "media_models" THEN old ELSE NoLegacy]]
    BY DEF CatalogInit
  <2>2. old \in LegacyRow
    BY CatalogRows DEF LegacyRow, Type
  <2> QED BY <2>1, <2>2, CatalogRows
<1>2. CatalogTypeOK
  BY <1>1, CatalogRows, MaxBreakdownsAssumption DEF CatalogInit, CatalogTypeOK, Work
<1>3. \A w \in Writer : SyncInv(writing[w]) /\ LinkInv(writing[w])
  BY CatalogRows DEF CatalogInit, SyncInv, LinkInv
<1>4. CatalogIsWhole
  BY CatalogRows DEF CatalogInit, CatalogIsWhole, Stage
<1> QED BY <1>2, <1>3, <1>4 DEF CatalogInv

\* What a step of one writer leaves of the others, and the types of what it does.
OneWrites(w, v) ==
    /\ writing' = [writing EXCEPT ![w] = v]
    /\ \A u \in Writer : writing'[u] = IF u = w THEN v ELSE writing[u]
    /\ writing' \in [Writer -> Work]

\* The others do not move.
LEMMA OtherWriters ==
    ASSUME CatalogTypeOK, NEW w \in Writer, NEW v \in Work, Now(w, v)
    PROVE  OneWrites(w, v)
BY DEF CatalogTypeOK, Work, Now, OneWrites

\* A step of a writer that changes nothing of the catalog and does not succeed.
LEMMA WriterStep ==
    ASSUME CatalogInv, NEW w \in Writer, NEW v \in Work, Now(w, v),
           UNCHANGED <<catalog, legacy, endpoints>>, breakdowns' \in 0 .. MaxBreakdowns,
           writing[w].at # "success", v.at # "success", SyncInv(v), LinkInv(v)
    PROVE  CatalogInv'
<1>1. OneWrites(w, v)
  BY OtherWriters DEF CatalogInv
<1>2. CatalogTypeOK'
  BY <1>1 DEF CatalogInv, CatalogTypeOK, OneWrites, Work
<1>3. \A n : Claimed(n)' <=> Claimed(n)
  BY <1>1 DEF Claimed, Stage, OneWrites
<1>4. ASSUME NEW u \in Writer PROVE SyncInv(writing[u])' /\ LinkInv(writing[u])'
  <2>1. PICK x : x = writing'[u]
    OBVIOUS
  <2>2. SyncInv(x) /\ LinkInv(x)
    BY <1>1, <2>1 DEF OneWrites, CatalogInv
  <2> QED BY <1>3, <2>1, <2>2 DEF SyncInv, LinkInv
<1>5. CatalogIsWhole'
  <2>1. ASSUME NEW u \in Writer, Stage(u, "sync", "success")'
        PROVE  \A n \in writing'[u].names : catalog'[n] = SyncedRow
    BY <1>1, <2>1 DEF OneWrites, Stage, CatalogInv, CatalogIsWhole
  <2>2. ASSUME NEW n \in Name, catalog'[n].there
        PROVE  \E u \in Writer : writing'[u].at = "success" /\ n \in writing'[u].wrote
    BY <1>1, <2>2 DEF OneWrites, CatalogInv, CatalogIsWhole
  <2>3. ASSUME NEW e \in endpoints'
        PROVE  LET row == legacy[Table(e[2])][e[1]]
               IN /\ catalog[e[1]].there /\ row.there /\ row.type = e[2]
                  /\ row.provider = catalog[e[1]].provider \/ Claimed(e[1])
    BY DEF CatalogInv, CatalogIsWhole, Claimed
  <2> QED BY <1>3, <2>1, <2>2, <2>3 DEF CatalogIsWhole, Claimed
<1> QED BY <1>2, <1>4, <1>5 DEF CatalogInv

\* The writer begins, reads, or ends without a result.
LEMMA BeginSyncInv ==
    ASSUME CatalogInv, NEW w \in Writer, NEW names \in SUBSET Name, BeginSync(w, names)
    PROVE  CatalogInv'
<1>1. PICK v : v = [NotWriting EXCEPT !.does = "sync", !.at = "select", !.names = names, !.left = names]
  OBVIOUS
<1>2. v \in Work /\ v.does = "sync" /\ v.at = "select" /\ v.names = names /\ v.left = names /\ v.next = {}
  BY <1>1, CatalogRows DEF Work, NotWriting
<1>3. SyncInv(v) /\ LinkInv(v)
  BY <1>2 DEF SyncInv, LinkInv
<1>4. Now(w, v) /\ writing[w].at # "success" /\ UNCHANGED <<catalog, legacy, endpoints>> /\ breakdowns' \in 0 .. MaxBreakdowns
  BY <1>1 DEF BeginSync, CatalogInv, CatalogTypeOK
<1> QED BY <1>2, <1>3, <1>4, WriterStep

\* A name is taken from what is left, and its row is read.
LEMMA SelectModelInv ==
    ASSUME CatalogInv, NEW w \in Writer, NEW n \in Name, SelectModel(w, n)
    PROVE  CatalogInv'
<1>1. PICK old : old = writing[w]
  OBVIOUS
<1>2. old \in Work /\ SyncInv(old) /\ old.at = "select" /\ old.does = "sync" /\ n \in old.left /\ catalog[n] \in CatalogRow
  BY <1>1 DEF SelectModel, Stage, CatalogInv, CatalogTypeOK, Work
<1>3. PICK v : v = [old EXCEPT !.at = "flush", !.left = @ \ {n}, !.next = {n}, !.row = catalog[n]]
  OBVIOUS
<1>4. /\ v \in Work /\ v.does = "sync" /\ v.at = "flush" /\ v.names = old.names /\ v.wrote = old.wrote
      /\ v.left = old.left \ {n} /\ v.next = {n} /\ v.row = catalog[n]
  BY <1>2, <1>3 DEF Work
<1>5. SyncInv(v) /\ LinkInv(v)
  BY <1>2, <1>4 DEF SyncInv, LinkInv
<1>6. Now(w, v) /\ writing[w].at # "success" /\ UNCHANGED <<catalog, legacy, endpoints>> /\ breakdowns' \in 0 .. MaxBreakdowns
  BY <1>1, <1>2, <1>3 DEF SelectModel, CatalogInv, CatalogTypeOK
<1> QED BY <1>4, <1>5, <1>6, WriterStep

\* A writer that stops without a result holds nothing.
LEMMA StopsInv ==
    ASSUME CatalogInv, NEW w \in Writer, Stops(w, "failed"), writing[w].at # "success",
           UNCHANGED <<catalog, legacy, endpoints>>, breakdowns' \in 0 .. MaxBreakdowns
    PROVE  CatalogInv'
<1>1. PICK old : old = writing[w]
  OBVIOUS
<1>2. old \in Work
  BY <1>1 DEF CatalogInv, CatalogTypeOK, Work
<1>3. PICK v : v = [old EXCEPT !.at = "failed", !.next = {}]
  OBVIOUS
<1>4. v \in Work /\ v.at = "failed"
  BY <1>2, <1>3 DEF Work
<1>5. SyncInv(v) /\ LinkInv(v)
  BY <1>4 DEF SyncInv, LinkInv
<1>6. Now(w, v)
  BY <1>1, <1>3 DEF Stops
<1> QED BY <1>4, <1>5, <1>6, WriterStep

\* The row is as it should be, or is written, unless it appeared since it was read.
LEMMA FlushModelInv ==
    ASSUME CatalogInv, NEW w \in Writer, NEW n \in Name, FlushModel(w, n)
    PROVE  CatalogInv'
<1>1. PICK old : old = writing[w]
  OBVIOUS
<1>2. old \in Work /\ SyncInv(old) /\ old.at = "flush" /\ old.does = "sync" /\ n \in old.next
  BY <1>1 DEF FlushModel, Stage, CatalogInv, CatalogTypeOK, Work
<1>3. old.next = {n}
  BY <1>2 DEF SyncInv
<1>4. writing[w].at # "success" /\ UNCHANGED <<catalog, legacy, endpoints>> /\ breakdowns' \in 0 .. MaxBreakdowns
  BY <1>1, <1>2 DEF FlushModel, CatalogInv, CatalogTypeOK
<1>5. CASE old.row = SyncedRow /\ Now(w, [old EXCEPT !.at = "select", !.next = {}])
  <2>1. PICK v : v = [old EXCEPT !.at = "select", !.next = {}]
    OBVIOUS
  <2>2. /\ v \in Work /\ v.does = "sync" /\ v.at = "select" /\ v.names = old.names /\ v.wrote = old.wrote
        /\ v.left = old.left /\ v.next = {}
    BY <1>2, <2>1 DEF Work
  <2>3. SyncInv(v) /\ LinkInv(v)
    BY <1>2, <1>3, <1>5, <2>2 DEF SyncInv, LinkInv
  <2> QED BY <1>4, <1>5, <2>1, <2>2, <2>3, WriterStep
<1>6. CASE Now(w, [old EXCEPT !.at = "select", !.next = {}, !.wrote = @ \cup {n}])
  <2>1. PICK v : v = [old EXCEPT !.at = "select", !.next = {}, !.wrote = @ \cup {n}]
    OBVIOUS
  <2>2. /\ v \in Work /\ v.does = "sync" /\ v.at = "select" /\ v.names = old.names /\ v.wrote = old.wrote \cup {n}
        /\ v.left = old.left /\ v.next = {}
    BY <1>2, <2>1 DEF Work
  <2>3. SyncInv(v) /\ LinkInv(v)
    BY <1>2, <1>3, <2>2 DEF SyncInv, LinkInv
  <2> QED BY <1>4, <1>6, <2>1, <2>2, <2>3, WriterStep
<1>7. CASE Stops(w, "failed")
  BY <1>4, <1>7, StopsInv
<1> QED BY <1>1, <1>5, <1>6, <1>7 DEF FlushModel

\* A model is read for an endpoint, with the row of the older table.
LEMMA ReadModelInv ==
    ASSUME CatalogInv, NEW w \in Writer, NEW n \in Name, NEW type \in Type, ReadModel(w, n, type)
    PROVE  CatalogInv'
<1>1. PICK old : old = legacy[Table(type)][n]
  OBVIOUS
<1>2. catalog[n] \in CatalogRow /\ old \in LegacyRow
  BY <1>1, CatalogRows DEF CatalogInv, CatalogTypeOK
<1>3. PICK fits \in BOOLEAN : fits = (old.there => old.provider = catalog[n].provider /\ old.type = type)
  OBVIOUS
<1>4. PICK v : v = [NotWriting EXCEPT !.does = IF old.there THEN "link" ELSE "shell",
                                      !.at = IF fits THEN "linking" ELSE "failed",
                                      !.next = {n}, !.row = catalog[n], !.type = type]
  OBVIOUS
<1>5. /\ v \in Work /\ v.does = IF old.there THEN "link" ELSE "shell"
      /\ v.at = IF fits THEN "linking" ELSE "failed"
      /\ v.next = {n} /\ v.row = catalog[n] /\ v.type = type
  BY <1>2, <1>4, CatalogRows DEF Work, NotWriting
<1>6. SyncInv(v)
  BY <1>5 DEF SyncInv
<1>7. LinkInv(v)
  BY <1>1, <1>2, <1>3, <1>5 DEF LinkInv, ReadModel, LegacyRow
<1>8. Now(w, v)
  BY <1>1, <1>3, <1>4 DEF ReadModel
<1>9. /\ writing[w].at # "success" /\ v.at # "success" /\ UNCHANGED <<catalog, legacy, endpoints>>
      /\ breakdowns' \in 0 .. MaxBreakdowns
  BY <1>5 DEF ReadModel, CatalogInv, CatalogTypeOK
<1> QED BY <1>5, <1>6, <1>7, <1>8, <1>9, WriterStep

\* An endpoint and its row of the older table.
EndpointIsWhole(e) ==
    LET row == legacy[Table(e[2])][e[1]]
    IN /\ catalog[e[1]].there /\ row.there /\ row.type = e[2]
       /\ row.provider = catalog[e[1]].provider \/ Claimed(e[1])

\* Rows are never taken away, only claimed; those of the older tables stay as they are.
CatalogGrows ==
    /\ \A n \in Name : catalog[n] = SyncedRow => catalog'[n] = SyncedRow
    /\ \A n \in Name : catalog[n].there =>
          catalog'[n].there /\ (catalog'[n].provider = catalog[n].provider \/ Claimed(n)')
    /\ \A type \in Type, n \in Name :
          legacy[Table(type)][n].there => legacy'[Table(type)][n] = legacy[Table(type)][n]

\* What holds of the others and of what was there holds of what has grown.
LEMMA GrowthKeeps ==
    ASSUME CatalogInv, NEW w \in Writer, NEW v \in Work, OneWrites(w, v),
           writing[w].at # "success", CatalogGrows
    PROVE  /\ \A n \in Name : Claimed(n) => Claimed(n)'
           /\ \A u \in Writer \ {w} : SyncInv(writing[u])' /\ LinkInv(writing[u])'
           /\ \A u \in Writer \ {w} : Stage(u, "sync", "success")' =>
                  \A n \in writing'[u].names : catalog'[n] = SyncedRow
           /\ \A n \in Name : catalog[n].there =>
                  \E u \in Writer : writing'[u].at = "success" /\ n \in writing'[u].wrote
           /\ \A e \in endpoints : EndpointIsWhole(e)'
<1>1. \A n \in Name : Claimed(n) => Claimed(n)'
  BY DEF Claimed, Stage, OneWrites
<1>2. ASSUME NEW u \in Writer \ {w} PROVE SyncInv(writing[u])' /\ LinkInv(writing[u])'
  <2>1. PICK x : x = writing'[u]
    OBVIOUS
  <2>2. x = writing[u] /\ x \in Work /\ SyncInv(x) /\ LinkInv(x)
    BY <2>1 DEF OneWrites, CatalogInv
  <2>3. SyncInv(x)'
    BY <2>2 DEF SyncInv, CatalogGrows, Work
  <2>4. ASSUME x.at = "linking", NEW n \in x.next
        PROVE  /\ catalog'[n].there
               /\ x.row.provider = catalog'[n].provider \/ Claimed(n)'
    BY <1>1, <2>2, <2>4 DEF LinkInv, CatalogGrows, Work
  <2>5. ASSUME x.at = "linking", x.does = "link", NEW n \in x.next
        PROVE  legacy'[Table(x.type)][n] = legacy[Table(x.type)][n]
    BY <2>2, <2>5 DEF LinkInv, CatalogGrows, Work
  <2>6. LinkInv(x)'
    BY <2>2, <2>4, <2>5 DEF LinkInv
  <2> QED BY <2>1, <2>3, <2>6 DEF SyncInv, LinkInv
<1>3. ASSUME NEW u \in Writer \ {w}, Stage(u, "sync", "success")'
      PROVE  \A n \in writing'[u].names : catalog'[n] = SyncedRow
  <2>1. writing'[u] = writing[u] /\ writing[u].names \subseteq Name
    BY DEF OneWrites, CatalogInv, CatalogTypeOK
  <2> QED BY <1>3, <2>1 DEF Stage, CatalogInv, CatalogIsWhole, CatalogGrows
<1>4. ASSUME NEW n \in Name, catalog[n].there
      PROVE  \E u \in Writer : writing'[u].at = "success" /\ n \in writing'[u].wrote
  BY <1>4 DEF OneWrites, CatalogInv, CatalogIsWhole
<1>5. ASSUME NEW e \in endpoints PROVE EndpointIsWhole(e)'
  <2>1. e[1] \in Name /\ e[2] \in Type
    BY DEF CatalogInv, CatalogTypeOK
  <2>2. EndpointIsWhole(e)
    BY DEF CatalogInv, CatalogIsWhole, EndpointIsWhole, Claimed
  <2>3. legacy'[Table(e[2])][e[1]] = legacy[Table(e[2])][e[1]]
    BY <2>1, <2>2 DEF EndpointIsWhole, CatalogGrows
  <2> QED BY <1>1, <2>1, <2>2, <2>3 DEF EndpointIsWhole, CatalogGrows
<1> QED BY <1>1, <1>2, <1>3, <1>4, <1>5

\* The commit: every name was written, or its row was found as it should be.
LEMMA CommitSyncInv ==
    ASSUME CatalogInv, NEW w \in Writer, CommitSync(w)
    PROVE  CatalogInv'
<1>1. PICK old : old = writing[w]
  OBVIOUS
<1>2. old \in Work /\ SyncInv(old) /\ old.at = "select" /\ old.does = "sync" /\ old.left = {} /\ old.next = {}
  BY <1>1 DEF CommitSync, AllWritten, Stage, CatalogInv, CatalogTypeOK, Work, SyncInv
<1>3. PICK v : v = [old EXCEPT !.at = "success", !.next = {}]
  OBVIOUS
<1>4. v \in Work /\ v.does = "sync" /\ v.at = "success" /\ v.names = old.names /\ v.wrote = old.wrote
  BY <1>2, <1>3 DEF Work
<1>5. OneWrites(w, v)
  BY <1>1, <1>3, <1>4, OtherWriters DEF CommitSync, Stops, CatalogInv
<1>6. \A n \in Name : catalog'[n] = IF n \in old.wrote THEN SyncedRow ELSE catalog[n]
  BY <1>1 DEF CommitSync
<1>7. catalog' \in [Name -> CatalogRow]
  BY <1>1, CatalogRows DEF CommitSync, CatalogInv, CatalogTypeOK
<1>8. CatalogTypeOK'
  BY <1>5, <1>7 DEF CommitSync, CatalogInv, CatalogTypeOK, OneWrites, Work
<1>9. \A n \in old.wrote : Claimed(n)'
  BY <1>4, <1>5 DEF Claimed, Stage, OneWrites
<1>10. CatalogGrows
  BY <1>6, <1>9, CatalogRows DEF CatalogGrows, CommitSync
<1>11. \A n \in old.names : catalog'[n] = SyncedRow
  BY <1>2, <1>6 DEF SyncInv, Work
<1>12. writing[w].at # "success"
  BY <1>1, <1>2
<1>13. SyncInv(writing[w])' /\ LinkInv(writing[w])'
  BY <1>4, <1>5 DEF SyncInv, LinkInv, OneWrites
<1>14. \A u \in Writer : SyncInv(writing[u])' /\ LinkInv(writing[u])'
  BY <1>4, <1>5, <1>10, <1>12, <1>13, GrowthKeeps
<1>15. ASSUME NEW u \in Writer, Stage(u, "sync", "success")'
       PROVE  \A n \in writing'[u].names : catalog'[n] = SyncedRow
  <2>1. CASE u = w
    BY <1>4, <1>5, <1>11, <2>1 DEF OneWrites
  <2>2. CASE u # w
    BY <1>4, <1>5, <1>10, <1>12, <1>15, <2>2, GrowthKeeps
  <2> QED BY <2>1, <2>2
<1>16. ASSUME NEW n \in Name, catalog'[n].there
       PROVE  \E u \in Writer : writing'[u].at = "success" /\ n \in writing'[u].wrote
  <2>1. CASE n \in old.wrote
    BY <1>4, <1>5, <2>1 DEF OneWrites
  <2>2. CASE n \notin old.wrote
    BY <1>4, <1>5, <1>6, <1>10, <1>12, <1>16, <2>2, GrowthKeeps
  <2> QED BY <2>1, <2>2
<1>17. \A e \in endpoints' : EndpointIsWhole(e)'
  BY <1>4, <1>5, <1>10, <1>12, GrowthKeeps DEF CommitSync
<1>18. CatalogIsWhole'
  BY <1>15, <1>16, <1>17 DEF CatalogIsWhole, EndpointIsWhole, Claimed
<1> QED BY <1>8, <1>14, <1>18 DEF CatalogInv

\* An administrator adds a model whose name was free.
LEMMA CreateModelInv ==
    ASSUME CatalogInv, NEW w \in Writer, NEW n \in Name, NEW provider \in Vendor, NEW active \in BOOLEAN,
           CreateModel(w, n, provider, active)
    PROVE  CatalogInv'
<1>1. PICK row : row = [there |-> TRUE, provider |-> provider, active |-> active]
  OBVIOUS
<1>2. row \in CatalogRow
  BY <1>1 DEF CatalogRow
<1>3. writing[w].at = "idle"
  BY DEF CreateModel
<1>4. CASE catalog[n].there
  <2>1. PICK v : v = [NotWriting EXCEPT !.does = "create", !.at = "failed"]
    OBVIOUS
  <2>2. v \in Work /\ v.at = "failed"
    BY <2>1, CatalogRows DEF Work, NotWriting
  <2>3. SyncInv(v) /\ LinkInv(v)
    BY <2>2 DEF SyncInv, LinkInv
  <2>4. Now(w, v) /\ UNCHANGED <<catalog, legacy, endpoints>> /\ breakdowns' \in 0 .. MaxBreakdowns
    BY <1>4, <2>1 DEF CreateModel, CatalogInv, CatalogTypeOK
  <2> QED BY <1>3, <2>2, <2>3, <2>4, WriterStep
<1>5. CASE ~catalog[n].there
  <2>1. PICK v : v = [NotWriting EXCEPT !.does = "create", !.at = "success", !.wrote = {n}]
    OBVIOUS
  <2>2. v \in Work /\ v.does = "create" /\ v.at = "success" /\ v.wrote = {n}
    BY <2>1, CatalogRows DEF Work, NotWriting
  <2>3. OneWrites(w, v) /\ catalog' = [catalog EXCEPT ![n] = row] /\ UNCHANGED <<legacy, endpoints, breakdowns>>
    BY <1>1, <1>5, <2>1, <2>2, OtherWriters DEF CreateModel, CatalogInv
  <2>4. catalog \in [Name -> CatalogRow]
    BY DEF CatalogInv, CatalogTypeOK
  <2>5. CatalogTypeOK'
    BY <1>2, <2>3, <2>4 DEF CatalogInv, CatalogTypeOK, OneWrites, Work
  <2>6. \A m \in Name \ {n} : catalog'[m] = catalog[m]
    BY <2>3, <2>4
  <2>7. catalog[n] # SyncedRow
    BY <1>5, CatalogRows
  <2>8. CatalogGrows
    BY <1>5, <2>3, <2>6, <2>7 DEF CatalogGrows
  <2>9. writing[w].at # "success"
    BY <1>3
  <2>10. SyncInv(writing[w])' /\ LinkInv(writing[w])'
    BY <2>2, <2>3 DEF SyncInv, LinkInv, OneWrites
  <2>11. \A u \in Writer : SyncInv(writing[u])' /\ LinkInv(writing[u])'
    BY <2>2, <2>3, <2>8, <2>9, <2>10, GrowthKeeps
  <2>12. ASSUME NEW u \in Writer, Stage(u, "sync", "success")'
         PROVE  \A m \in writing'[u].names : catalog'[m] = SyncedRow
    <3>1. u # w
      BY <2>2, <2>3, <2>12 DEF OneWrites, Stage
    <3> QED BY <2>2, <2>3, <2>8, <2>9, <2>12, <3>1, GrowthKeeps
  <2>13. ASSUME NEW m \in Name, catalog'[m].there
         PROVE  \E u \in Writer : writing'[u].at = "success" /\ m \in writing'[u].wrote
    <3>1. CASE m = n
      BY <2>2, <2>3, <3>1 DEF OneWrites
    <3>2. CASE m # n
      BY <2>2, <2>3, <2>6, <2>8, <2>9, <2>13, <3>2, GrowthKeeps
    <3> QED BY <3>1, <3>2
  <2>14. \A e \in endpoints' : EndpointIsWhole(e)'
    BY <2>2, <2>3, <2>8, <2>9, GrowthKeeps
  <2>15. CatalogIsWhole'
    BY <2>12, <2>13, <2>14 DEF CatalogIsWhole, EndpointIsWhole, Claimed
  <2> QED BY <2>5, <2>11, <2>15 DEF CatalogInv
<1> QED BY <1>4, <1>5

\* An endpoint is saved with a row of the older table that was there and fits, or is new.
LEMMA SaveEndpointInv ==
    ASSUME CatalogInv, NEW w \in Writer, NEW n \in Name, NEW change \in BOOLEAN, SaveEndpoint(w, n, change)
    PROVE  CatalogInv'
<1>1. PICK old : old = writing[w]
  OBVIOUS
<1>2. old \in Work /\ LinkInv(old) /\ old.at = "linking" /\ n \in old.next
  BY <1>1 DEF SaveEndpoint, CatalogInv, CatalogTypeOK, Work
<1>3. PICK shell : shell = [there |-> TRUE, provider |-> old.row.provider, type |-> old.type]
  OBVIOUS
<1>4. shell \in LegacyRow /\ shell.there /\ shell.provider = old.row.provider /\ shell.type = old.type /\ old.type \in Type
  BY <1>2, <1>3 DEF Work, CatalogRow, LegacyRow
<1>5. writing[w].at # "success" /\ UNCHANGED <<catalog, breakdowns>>
  BY <1>1, <1>2 DEF SaveEndpoint
<1>6. CASE Now(w, [old EXCEPT !.at = "failed"]) /\ UNCHANGED <<legacy, endpoints>>
  <2>1. PICK v : v = [old EXCEPT !.at = "failed"]
    OBVIOUS
  <2>2. v \in Work /\ v.at = "failed"
    BY <1>2, <2>1 DEF Work
  <2>3. SyncInv(v) /\ LinkInv(v)
    BY <2>2 DEF SyncInv, LinkInv
  <2> QED BY <1>5, <1>6, <2>1, <2>2, <2>3, WriterStep DEF CatalogInv, CatalogTypeOK
<1>7. CASE /\ ~(old.does = "shell" /\ legacy[Table(old.type)][n].there)
           /\ Now(w, [old EXCEPT !.at = "success"])
           /\ endpoints' = endpoints \cup {<<n, old.type>>}
           /\ legacy' = IF old.does = "link" THEN legacy
                        ELSE [legacy EXCEPT ![Table(old.type)][n] = shell]
  <2>1. PICK v : v = [old EXCEPT !.at = "success"]
    OBVIOUS
  <2>2. v \in Work /\ v.at = "success" /\ v.does = old.does
    BY <1>2, <2>1 DEF Work
  <2>3. OneWrites(w, v)
    BY <1>7, <2>1, <2>2, OtherWriters DEF CatalogInv
  <2>4. v.does \in {"link", "shell"}
    BY <1>2, <2>2 DEF LinkInv
  <2>5. PICK table \in {"tts_models", "media_models"} : table = Table(old.type)
    BY <1>4, CatalogRows
  <2>6. legacy \in [{"tts_models", "media_models"} -> [Name -> LegacyRow]]
    BY DEF CatalogInv, CatalogTypeOK
  <2>7. endpoints' \subseteq Name \X Type
    BY <1>4, <1>7 DEF CatalogInv, CatalogTypeOK
  <2>8. ASSUME legacy' \in [{"tts_models", "media_models"} -> [Name -> LegacyRow]] PROVE CatalogTypeOK'
    BY <1>5, <2>3, <2>7, <2>8 DEF CatalogInv, CatalogTypeOK, OneWrites, Work
  <2>9. /\ CatalogGrows /\ CatalogTypeOK'
        /\ legacy'[table][n].there /\ legacy'[table][n].type = old.type
        /\ legacy'[table][n].provider = old.row.provider
    <3>1. CASE old.does = "link"
      <4>1. legacy' = legacy
        BY <1>7, <3>1
      <4>2. CatalogGrows
        BY <1>5, <4>1 DEF CatalogGrows
      <4>3. /\ legacy'[table][n].there /\ legacy'[table][n].type = old.type
            /\ legacy'[table][n].provider = old.row.provider
        BY <1>2, <2>5, <3>1, <4>1 DEF LinkInv
      <4> QED BY <2>6, <2>8, <4>1, <4>2, <4>3
    <3>2. CASE old.does = "shell"
      <4>1. legacy' = [legacy EXCEPT ![table][n] = shell]
        BY <1>7, <2>5, <3>2
      <4>2. ~legacy[table][n].there
        BY <1>7, <2>5, <3>2
      <4>3. legacy' \in [{"tts_models", "media_models"} -> [Name -> LegacyRow]]
        BY <1>4, <2>6, <4>1
      <4>4. legacy'[table][n] = shell
        BY <2>6, <4>1
      <4>5. ASSUME NEW t \in {"tts_models", "media_models"}, NEW m \in Name, legacy[t][m].there
            PROVE  legacy'[t][m] = legacy[t][m]
        BY <2>6, <4>1, <4>2, <4>5
      <4>6. CatalogGrows
        BY <1>5, <4>5, CatalogRows DEF CatalogGrows
      <4> QED BY <1>4, <2>8, <4>3, <4>4, <4>6
    <3>3. old.does \in {"link", "shell"}
      BY <2>2, <2>4
    <3> QED BY <3>1, <3>2, <3>3
  <2>10. SyncInv(writing[w])' /\ LinkInv(writing[w])'
    BY <2>2, <2>3 DEF SyncInv, LinkInv, OneWrites
  <2>11. \A u \in Writer : SyncInv(writing[u])' /\ LinkInv(writing[u])'
    BY <1>5, <2>2, <2>3, <2>9, <2>10, GrowthKeeps
  <2>12. ASSUME NEW u \in Writer, Stage(u, "sync", "success")'
         PROVE  \A m \in writing'[u].names : catalog'[m] = SyncedRow
    <3>1. u # w
      BY <2>3, <2>4, <2>12 DEF OneWrites, Stage
    <3> QED BY <1>5, <2>2, <2>3, <2>9, <2>12, <3>1, GrowthKeeps
  <2>13. ASSUME NEW m \in Name, catalog'[m].there
         PROVE  \E u \in Writer : writing'[u].at = "success" /\ m \in writing'[u].wrote
    BY <1>5, <2>2, <2>3, <2>9, <2>13, GrowthKeeps
  <2>14. ASSUME NEW e \in endpoints' PROVE EndpointIsWhole(e)'
    <3>1. CASE e \in endpoints
      BY <1>5, <2>2, <2>3, <2>9, <3>1, GrowthKeeps
    <3>2. CASE e = <<n, old.type>>
      <4>1. e[1] = n /\ Table(e[2]) = table /\ e[2] = old.type
        BY <2>5, <3>2
      <4>2. catalog'[n].there /\ (old.row.provider = catalog'[n].provider \/ Claimed(n)')
        <5>1. catalog[n].there /\ (old.row.provider = catalog[n].provider \/ Claimed(n))
          BY <1>2 DEF LinkInv
        <5>2. Claimed(n) => Claimed(n)'
          BY <1>5, <2>2, <2>3, <2>9, GrowthKeeps
        <5> QED BY <1>5, <5>1, <5>2
      <4> QED BY <2>9, <4>1, <4>2 DEF EndpointIsWhole
    <3> QED BY <1>7, <2>14, <3>1, <3>2
  <2>15. CatalogIsWhole'
    BY <2>12, <2>13, <2>14 DEF CatalogIsWhole, EndpointIsWhole, Claimed
  <2> QED BY <2>9, <2>11, <2>15 DEF CatalogInv
<1> QED BY <1>1, <1>3, <1>6, <1>7 DEF SaveEndpoint

\* One step per action.
LEMMA CatalogStepInv == CatalogInv /\ [CatalogNext]_catalogVars => CatalogInv'
<1> SUFFICES ASSUME CatalogInv, [CatalogNext]_catalogVars PROVE CatalogInv'
  OBVIOUS
<1>1. ASSUME NEW w \in Writer, NEW names \in SUBSET Name, BeginSync(w, names) PROVE CatalogInv'
  BY <1>1, BeginSyncInv
<1>2. ASSUME NEW w \in Writer, NEW n \in Name, SelectModel(w, n) \/ FlushModel(w, n) PROVE CatalogInv'
  BY <1>2, SelectModelInv, FlushModelInv
<1>3. ASSUME NEW w \in Writer, NEW n \in Name, NEW provider \in Vendor, NEW active \in BOOLEAN,
             CreateModel(w, n, provider, active)
      PROVE  CatalogInv'
  BY <1>3, CreateModelInv
<1>4. ASSUME NEW w \in Writer, NEW n \in Name, NEW type \in Type, ReadModel(w, n, type) PROVE CatalogInv'
  BY <1>4, ReadModelInv
<1>5. ASSUME NEW w \in Writer, NEW n \in Name, NEW change \in BOOLEAN, SaveEndpoint(w, n, change)
      PROVE  CatalogInv'
  BY <1>5, SaveEndpointInv
<1>6. ASSUME NEW w \in Writer, CommitSync(w) PROVE CatalogInv'
  BY <1>6, CommitSyncInv
<1>7. ASSUME NEW w \in Writer, BreakDeadlock(w) PROVE CatalogInv'
  BY <1>7, StopsInv DEF BreakDeadlock, WaitsFor, CatalogInv, CatalogTypeOK
<1>8. ASSUME NEW w \in Writer, BreakDown(w) PROVE CatalogInv'
  <2>1. breakdowns' \in 0 .. MaxBreakdowns
    BY <1>8, MaxBreakdownsAssumption DEF BreakDown, CatalogInv, CatalogTypeOK
  <2> QED BY <1>8, <2>1, StopsInv DEF BreakDown
<1>9. CASE UNCHANGED catalogVars
  BY <1>9 DEF catalogVars, CatalogInv, CatalogTypeOK, SyncInv, LinkInv, Claimed, Stage, CatalogIsWhole
<1> QED BY <1>1, <1>2, <1>3, <1>4, <1>5, <1>6, <1>7, <1>8, <1>9 DEF CatalogNext

\* The inductive invariant of the catalog: what each writer has read of it is still so, or
\* was claimed by a synchronisation.
THEOREM CatalogInvariance == CatalogSpec => []CatalogInv
BY CatalogInitInv, CatalogStepInv, PTL DEF CatalogSpec

\* The types of the catalog.
THEOREM CatalogTypeCorrect == CatalogSpec => []CatalogTypeOK
<1>1. CatalogInv => CatalogTypeOK
  BY DEF CatalogInv
<1> QED BY <1>1, CatalogInvariance, PTL

\* A synchronisation is whole or has left nothing, and an endpoint has its row of the older
\* table, whoever writes the catalog beside them.
THEOREM WritersLeaveTheCatalogWhole == CatalogSpec => []CatalogIsWhole
<1>1. CatalogInv => CatalogIsWhole
  BY DEF CatalogInv
<1> QED BY <1>1, CatalogInvariance, PTL
-----------------------------------------------------------------------------
(***************************************************************************)
(* QueryPipeline.                                                          *)
(***************************************************************************)
Request == [at : {"idle", "lookup", "rules", "search", "model", "persist", "store", "answered", "failed"},
            fresh : BOOLEAN, step : Nat, static : BOOLEAN, since : 0 .. MaxTime,
            hit : {"none", "upstash", "rules"}, answer : Reply]

\* The rows of response_db.
Response == [asker : Asker, answer : Reply, at : 0 .. MaxTime, status : {"completed", "failed"}]

\* Nothing is composed or reused yet.
Unanswered == {"idle", "lookup", "rules", "search", "model"}

\* An answer that was recorded as it is, or before Upstash garbled it.
Genuine(answer) == Recorded(Original(answer))

\* Upstash changes nothing but the text of an answer, and the original is what it was.
LEMMA GarbledAnswers ==
    ASSUME NEW answer \in Reply
    PROVE  /\ Garbled(answer) \in Reply /\ Garbled(answer).kind = answer.kind
           /\ Original(answer).by = answer.by
           /\ answer.text # "garbled" => Original(answer) = answer /\ Original(Garbled(answer)) = answer
<1>1. CASE answer.text = "accented"
  <2>1. PICK other : other = [answer EXCEPT !.text = "garbled"]
    OBVIOUS
  <2>2. other \in Reply /\ other.kind = answer.kind /\ other.text = "garbled" /\ other.by = answer.by
    BY <2>1 DEF Reply, Text
  <2>3. [other EXCEPT !.text = "accented"] = answer
    BY <1>1, <2>1 DEF Reply
  <2> QED BY <1>1, <2>1, <2>2, <2>3 DEF Garbled, Original
<1>2. CASE answer.text # "accented"
  BY <1>2 DEF Garbled, Original, Reply
<1> QED BY <1>1, <1>2

\* What a request has before it is persisted has no row; what it persists is its own answer
\* or a recorded one of another, and what it stores is recorded.
RequestInv(r, a) ==
    /\ a.at \in Unanswered => a.hit = "none"
    /\ a.at \in Unanswered \cup {"persist"} => \A row \in responses : row.asker # r
    /\ a.at = "persist" /\ a.hit = "none" =>
          a.answer.by = r /\ a.answer.kind # "failed" /\ a.answer.text # "garbled"
    /\ a.at = "store" => /\ a.hit = "none" /\ a.answer.kind # "failed"
                         /\ Recorded(a.answer) /\ a.answer.text # "garbled"
    /\ a.hit # "none" => /\ ~a.fresh /\ Lasting(a.answer)
                         /\ Genuine(a.answer) /\ a.answer.by # r

\* What the shared cache has is lasting and recorded.
EntryInv(entry) ==
    entry # NoEntry => Lasting(entry.answer) /\ Recorded(entry.answer) /\ entry.answer.text # "garbled"

\* The inductive invariant of the pipeline: every completed row repeats an answer that some request
\* composed, whatever the caches and the rules took it from.
PipelineInv ==
    /\ PipelineTypeOK
    /\ \A r \in Asker : RequestInv(r, asking[r])
    /\ \A row \in responses : row.status = "completed" => Genuine(row.answer)
    /\ EntryInv(upstash)

\* Before anything is asked.
LEMMA PipelineInitInv == PipelineInit => PipelineInv
<1> SUFFICES ASSUME PipelineInit PROVE PipelineInv
  OBVIOUS
<1>1. 0 \in 0 .. MaxTime
  BY PipelineAssumption
<1>2. NoAnswer \in Reply
  BY <1>1 DEF NoAnswer, Reply, Text
<1>3. NotAsked \in Request /\ NotAsked.at = "idle" /\ NotAsked.hit = "none"
  BY <1>1, <1>2 DEF NotAsked, Request
<1>4. PipelineTypeOK
  BY <1>1, <1>2, <1>3 DEF PipelineInit, PipelineTypeOK, NoEntry, Request
<1> QED BY <1>3, <1>4 DEF PipelineInit, PipelineInv, RequestInv, EntryInv

\* What a step may do to the rows: those of others stay, and an answer that was recorded
\* stays recorded.
RowsKept(r) ==
    /\ responses' \subseteq Response
    /\ \A answer : Recorded(answer) => Recorded(answer)'
    /\ \A row \in responses' : row.status = "completed" => Genuine(row.answer)'
    /\ \A row \in responses' : row.asker # r => row \in responses

\* A step of one request.
LEMMA RequestStep ==
    ASSUME PipelineInv, NEW r \in Asker, NEW a \in Request, Does(r, a), RowsKept(r),
           UNCHANGED <<clock, question>>, upstash' \in [answer : Reply, until : Nat],
           EntryInv(upstash)', RequestInv(r, a)'
    PROVE  PipelineInv'
<1>1. asking \in [Asker -> Request]
  BY DEF PipelineInv, PipelineTypeOK, Request
<1>2. asking' \in [Asker -> Request] /\ \A q \in Asker : asking'[q] = IF q = r THEN a ELSE asking[q]
  BY <1>1 DEF Does
<1>3. PipelineTypeOK'
  BY <1>2 DEF PipelineInv, PipelineTypeOK, RowsKept, Request, Response
<1>4. ASSUME NEW q \in Asker \ {r} PROVE RequestInv(q, asking[q])'
  <2>1. PICK b : b = asking'[q]
    OBVIOUS
  <2>2. RequestInv(q, b)
    BY <1>2, <2>1 DEF PipelineInv
  <2>3. RequestInv(q, b)'
    BY <2>2 DEF RequestInv, RowsKept, Genuine
  <2> QED BY <2>1, <2>3 DEF RequestInv
<1>5. RequestInv(r, asking[r])'
  BY <1>2 DEF RequestInv
<1> QED BY <1>3, <1>4, <1>5 DEF PipelineInv, RowsKept

\* A step of one request that writes nothing.
LEMMA QuietStep ==
    ASSUME PipelineInv, NEW r \in Asker, NEW a \in Request, Does(r, a),
           UNCHANGED <<clock, question, upstash, responses>>, RequestInv(r, a)
    PROVE  PipelineInv'
<1>1. RowsKept(r)
  BY DEF RowsKept, PipelineInv, PipelineTypeOK, Response, Recorded, Genuine
<1>2. RequestInv(r, a)'
  BY DEF RequestInv, Recorded, Genuine
<1>3. EntryInv(upstash)'
  BY DEF PipelineInv, EntryInv, Recorded
<1>4. upstash' \in [answer : Reply, until : Nat]
  BY DEF PipelineInv, PipelineTypeOK
<1> QED BY <1>1, <1>2, <1>3, <1>4, RequestStep

\* An answer is composed.
LEMMA ComposeInv ==
    ASSUME PipelineInv, NEW r \in Asker, NEW kind \in {"fixed", "answered", "degraded", "time"},
           NEW text \in Text \ {"garbled"}, Compose(r, kind, text), asking[r].at \in Unanswered, UNCHANGED <<clock, question, upstash, responses>>
    PROVE  PipelineInv'
<1>1. PICK old : old = asking[r]
  OBVIOUS
<1>2. old \in Request /\ RequestInv(r, old) /\ old.at \in Unanswered
  BY <1>1 DEF PipelineInv, PipelineTypeOK, Request
<1>3. PICK composed : composed = [by |-> r, born |-> clock, kind |-> kind, text |-> text]
  OBVIOUS
<1>4. composed \in Reply /\ composed.by = r /\ composed.kind # "failed" /\ composed.text # "garbled"
  BY <1>3 DEF Reply, PipelineInv, PipelineTypeOK
<1>5. PICK a : a = [old EXCEPT !.at = "persist", !.step = 0, !.answer = composed]
  OBVIOUS
<1>6. a \in Request /\ a.at = "persist" /\ a.answer = composed /\ a.hit = old.hit
  BY <1>2, <1>4, <1>5 DEF Request
<1>7. RequestInv(r, a)
  BY <1>2, <1>4, <1>6 DEF RequestInv, Unanswered
<1>8. Does(r, a)
  BY <1>1, <1>3, <1>5 DEF Compose
<1> QED BY <1>6, <1>7, <1>8, QuietStep

\* An answer that another request recorded is reused.
LEMMA ReusesInv ==
    ASSUME PipelineInv, NEW r \in Asker, NEW cache \in {"upstash", "rules"}, NEW answer \in Reply,
           Reuses(r, cache, answer), asking[r].at \in Unanswered, ~asking[r].fresh,
           Lasting(answer), Genuine(answer), UNCHANGED <<clock, question, upstash, responses>>
    PROVE  PipelineInv'
<1>1. PICK old : old = asking[r]
  OBVIOUS
<1>2. old \in Request /\ RequestInv(r, old) /\ old.at \in Unanswered /\ ~old.fresh
  BY <1>1 DEF PipelineInv, PipelineTypeOK, Request
<1>3. PICK a : a = [old EXCEPT !.at = "persist", !.hit = cache, !.since = clock, !.answer = answer]
  OBVIOUS
<1>4. a \in Request /\ a.at = "persist" /\ a.answer = answer /\ a.hit = cache /\ a.fresh = old.fresh
  BY <1>2, <1>3 DEF Request, PipelineInv, PipelineTypeOK
<1>5. answer.by # r
  BY <1>2, GarbledAnswers DEF RequestInv, Recorded, Genuine
<1>6. RequestInv(r, a)
  BY <1>2, <1>4, <1>5 DEF RequestInv, Unanswered
<1>7. Does(r, a)
  BY <1>1, <1>3 DEF Reuses
<1> QED BY <1>4, <1>6, <1>7, QuietStep

\* A request that only moves on has nothing to show for it yet.
LEMMA MovesOn ==
    ASSUME PipelineInv, NEW r \in Asker, NEW a \in Request, Does(r, a), asking[r].at \in Unanswered,
           a.at \in Unanswered, a.hit = asking[r].hit, UNCHANGED <<clock, question, upstash, responses>>
    PROVE  PipelineInv'
<1>1. RequestInv(r, asking[r])
  BY DEF PipelineInv
<1>2. RequestInv(r, a)
  BY <1>1 DEF RequestInv, Unanswered
<1> QED BY <1>2, QuietStep

\* Before an answer: the request is asked, or moves from place to place.
LEMMA AskInv ==
    ASSUME PipelineInv, NEW r \in Asker, NEW fresh \in BOOLEAN, Ask(r, fresh)
    PROVE  PipelineInv'
<1>1. PICK old : old = asking[r]
  OBVIOUS
<1>2. old \in Request /\ old.at = "idle"
  BY <1>1 DEF Ask, Doing, PipelineInv, PipelineTypeOK, Request
<1>3. PICK no \in BOOLEAN : no = (fresh \/ question = "time")
  OBVIOUS
<1>4. PICK a : a = [old EXCEPT !.at = "lookup", !.fresh = no]
  OBVIOUS
<1>5. a \in Request /\ a.at = "lookup" /\ a.hit = old.hit
  BY <1>2, <1>4 DEF Request
<1>6. Does(r, a) /\ UNCHANGED <<clock, question, upstash, responses>>
  BY <1>1, <1>3, <1>4 DEF Ask
<1> QED BY <1>1, <1>2, <1>5, <1>6, MovesOn DEF Unanswered

\* LookUp: what a request reuses from the fast cache is recorded.
LEMMA LookUpInv ==
    ASSUME PipelineInv, NEW r \in Asker, LookUp(r)
    PROVE  PipelineInv'
<1>1. PICK old : old = asking[r]
  OBVIOUS
<1>2. old \in Request /\ old.at = "lookup"
  BY <1>1 DEF LookUp, Doing, PipelineInv, PipelineTypeOK, Request
<1>3. CASE ~old.fresh /\ upstash # NoEntry /\ Reuses(r, "upstash", Garbled(upstash.answer))
  <2>1. PICK stored : stored = upstash.answer
    OBVIOUS
  <2>2. stored \in Reply /\ Lasting(stored) /\ Recorded(stored) /\ stored.text # "garbled"
    BY <1>3, <2>1 DEF PipelineInv, PipelineTypeOK, EntryInv
  <2>3. PICK answer : answer = Garbled(stored)
    OBVIOUS
  <2>4. answer \in Reply /\ Lasting(answer) /\ Genuine(answer)
    BY <2>2, <2>3, GarbledAnswers DEF Lasting, Genuine
  <2> QED BY <1>1, <1>2, <1>3, <2>1, <2>3, <2>4, ReusesInv DEF LookUp, Unanswered
<1>4. CASE Does(r, [old EXCEPT !.at = "rules"])
  <2>1. PICK a : a = [old EXCEPT !.at = "rules"]
    OBVIOUS
  <2>2. a \in Request /\ a.at = "rules" /\ a.hit = old.hit
    BY <1>2, <2>1 DEF Request
  <2> QED BY <1>1, <1>2, <1>4, <2>1, <2>2, MovesOn DEF LookUp, Unanswered
<1> QED BY <1>1, <1>3, <1>4 DEF LookUp

\* _check_cache: what a request reuses from the rows is recorded.
LEMMA RuleHitInv ==
    ASSUME PipelineInv, NEW r \in Asker, RuleHit(r)
    PROVE  PipelineInv'
<1>1. PICK row \in Reusable : Reuses(r, "rules", row.answer)
  BY DEF RuleHit
<1>2. row \in responses /\ row.status = "completed" /\ row.answer.kind \notin {"time", "degraded", "failed"}
  BY <1>1 DEF Reusable
<1>3. row.answer \in Reply
  BY <1>2 DEF PipelineInv, PipelineTypeOK
<1>4. Lasting(row.answer)
  BY <1>2, <1>3 DEF Lasting, Reply
<1>5. Genuine(row.answer)
  BY <1>2 DEF PipelineInv
<1> QED BY <1>1, <1>3, <1>4, <1>5, ReusesInv DEF RuleHit, Doing, Unanswered

\* The route of a request: an answer that is composed without a model, the search or the model.
LEMMA RouteInv ==
    ASSUME PipelineInv, NEW r \in Asker, NEW static \in BOOLEAN, Route(r, static)
    PROVE  PipelineInv'
<1>1. PICK old : old = asking[r]
  OBVIOUS
<1>2. old \in Request /\ old.at = "rules"
  BY <1>1 DEF Route, Doing, PipelineInv, PipelineTypeOK, Request
<1>3. UNCHANGED <<clock, question, upstash, responses>>
  BY DEF Route
<1>4. ASSUME NEW place \in {"search", "model"},
             Does(r, [[old EXCEPT !.static = static, !.step = 1] EXCEPT !.at = place])
      PROVE  PipelineInv'
  <2>1. PICK a : a = [[old EXCEPT !.static = static, !.step = 1] EXCEPT !.at = place]
    OBVIOUS
  <2>2. a \in Request /\ a.at = place /\ a.hit = old.hit
    BY <1>2, <2>1 DEF Request
  <2> QED BY <1>1, <1>2, <1>3, <1>4, <2>1, <2>2, MovesOn DEF Unanswered
<1>5. CASE \E kind \in {"time", "fixed"} : Compose(r, kind, "ascii")
  BY <1>1, <1>2, <1>3, <1>5, ComposeInv DEF Unanswered, Text
<1> QED BY <1>1, <1>4, <1>5 DEF Route

\* The search answers, is degraded, or leaves the request to the model.
LEMMA SearchInv ==
    ASSUME PipelineInv, NEW r \in Asker, Search(r)
    PROVE  PipelineInv'
<1>1. PICK old : old = asking[r]
  OBVIOUS
<1>2. old \in Request /\ old.at = "search"
  BY <1>1 DEF Search, Doing, PipelineInv, PipelineTypeOK, Request
<1>3. UNCHANGED <<clock, question, upstash, responses>>
  BY DEF Search
<1>4. CASE Does(r, [old EXCEPT !.step = @ + 1])
  <2>1. PICK a : a = [old EXCEPT !.step = @ + 1]
    OBVIOUS
  <2>2. a \in Request /\ a.at = "search" /\ a.hit = old.hit
    BY <1>2, <2>1 DEF Request
  <2> QED BY <1>1, <1>2, <1>3, <1>4, <2>1, <2>2, MovesOn DEF Unanswered
<1>5. CASE Compose(r, "degraded", "ascii")
  BY <1>1, <1>2, <1>3, <1>5, ComposeInv DEF Unanswered, Text
<1>6. CASE Does(r, [old EXCEPT !.at = "model", !.step = 1])
  <2>1. PICK a : a = [old EXCEPT !.at = "model", !.step = 1]
    OBVIOUS
  <2>2. a \in Request /\ a.at = "model" /\ a.hit = old.hit
    BY <1>2, <2>1 DEF Request
  <2> QED BY <1>1, <1>2, <1>3, <1>6, <2>1, <2>2, MovesOn DEF Unanswered
<1> QED BY <1>1, <1>4, <1>5, <1>6 DEF Search

\* The model answers or fails.
LEMMA CallModelInv ==
    ASSUME PipelineInv, NEW r \in Asker, CallModel(r)
    PROVE  PipelineInv'
<1>1. PICK old : old = asking[r]
  OBVIOUS
<1>2. old \in Request /\ old.at = "model"
  BY <1>1 DEF CallModel, Doing, PipelineInv, PipelineTypeOK, Request
<1>3. UNCHANGED <<clock, question, upstash, responses>>
  BY DEF CallModel
<1>4. CASE Does(r, [old EXCEPT !.step = @ + 1])
  <2>1. PICK a : a = [old EXCEPT !.step = @ + 1]
    OBVIOUS
  <2>2. a \in Request /\ a.at = "model" /\ a.hit = old.hit
    BY <1>2, <2>1 DEF Request
  <2> QED BY <1>1, <1>2, <1>3, <1>4, <2>1, <2>2, MovesOn DEF Unanswered
<1>5. CASE \E text \in Text \ {"garbled"} : Compose(r, "answered", text)
  BY <1>1, <1>2, <1>3, <1>5, ComposeInv DEF Unanswered
<1> QED BY <1>1, <1>4, <1>5 DEF CallModel

\* No candidate is left: a row of its own, which is not completed.
LEMMA NoModelInv ==
    ASSUME PipelineInv, NEW r \in Asker, NoModel(r)
    PROVE  PipelineInv'
<1>1. PICK old : old = asking[r]
  OBVIOUS
<1>2. old \in Request /\ RequestInv(r, old) /\ old.at = "model"
  BY <1>1 DEF NoModel, Doing, PipelineInv, PipelineTypeOK, Request
<1>3. PICK row : row = [asker |-> r, answer |-> NoAnswer, at |-> clock, status |-> "failed"]
  OBVIOUS
<1>4. row \in Response /\ row.status = "failed" /\ row.asker = r
  <2>1. NoAnswer \in Reply
    BY PipelineAssumption DEF NoAnswer, Reply, Text
  <2> QED BY <1>3, <2>1 DEF Response, PipelineInv, PipelineTypeOK
<1>5. responses' = responses \cup {row} /\ UNCHANGED <<clock, question, upstash>>
  BY <1>3 DEF NoModel
<1>6. \A answer : Recorded(answer) => Recorded(answer)'
  BY <1>5 DEF Recorded
<1>7. RowsKept(r)
  BY <1>4, <1>5, <1>6 DEF RowsKept, PipelineInv, PipelineTypeOK, Response, Genuine
<1>8. PICK a : a = [old EXCEPT !.at = "failed"]
  OBVIOUS
<1>9. a \in Request /\ a.at = "failed" /\ a.hit = old.hit
  BY <1>2, <1>8 DEF Request
<1>10. RequestInv(r, a)'
  BY <1>2, <1>9 DEF RequestInv, Unanswered
<1>11. upstash' \in [answer : Reply, until : Nat] /\ EntryInv(upstash)'
  BY <1>5, <1>6 DEF PipelineInv, PipelineTypeOK, EntryInv
<1>12. Does(r, a)
  BY <1>1, <1>8 DEF NoModel
<1> QED BY <1>5, <1>7, <1>9, <1>10, <1>11, <1>12, RequestStep

\* The answer is recorded, or recorded again.
LEMMA PersistFinalInv ==
    ASSUME PipelineInv, NEW r \in Asker, PersistFinal(r)
    PROVE  PipelineInv'
<1>1. PICK old : old = asking[r]
  OBVIOUS
<1>2. old \in Request /\ RequestInv(r, old) /\ old.at = "persist"
  BY <1>1 DEF PersistFinal, Doing, PipelineInv, PipelineTypeOK, Request
<1>3. PICK row : row = [asker |-> r, answer |-> old.answer, at |-> clock, status |-> "completed"]
  OBVIOUS
<1>4. row \in Response /\ row.status = "completed" /\ row.asker = r /\ row.answer = old.answer
  BY <1>2, <1>3 DEF Response, Request, PipelineInv, PipelineTypeOK
<1>5. responses' = responses \cup {row} /\ UNCHANGED <<clock, question, upstash>>
  BY <1>1, <1>3 DEF PersistFinal
<1>6. \A answer : Recorded(answer) => Recorded(answer)'
  BY <1>5 DEF Recorded
<1>7. Genuine(old.answer)' /\ (old.hit = "none" => Recorded(old.answer)')
  <2>1. CASE old.hit = "none"
    <3>1. Recorded(old.answer)'
      BY <1>2, <1>4, <1>5, <2>1 DEF RequestInv, Recorded
    <3>2. Original(old.answer) = old.answer
      BY <1>2, <2>1, GarbledAnswers DEF RequestInv, Request
    <3> QED BY <3>1, <3>2 DEF Genuine
  <2>2. CASE old.hit # "none"
    BY <1>2, <1>6, <2>2 DEF RequestInv, Genuine
  <2> QED BY <2>1, <2>2
<1>8. RowsKept(r)
  <2>1. \A q \in responses' : q.status = "completed" => Genuine(q.answer)'
    <3>1. ASSUME NEW q \in responses, q.status = "completed" PROVE Genuine(q.answer)'
      BY <1>6, <3>1 DEF PipelineInv, Genuine
    <3> QED BY <1>4, <1>5, <1>7, <3>1
  <2> QED BY <1>4, <1>5, <1>6, <2>1 DEF RowsKept, PipelineInv, PipelineTypeOK, Response
<1>9. PICK a : a = [old EXCEPT !.at = IF old.hit = "none" THEN "store" ELSE "answered"]
  OBVIOUS
<1>10. /\ a \in Request /\ a.at = IF old.hit = "none" THEN "store" ELSE "answered"
       /\ a.hit = old.hit /\ a.fresh = old.fresh /\ a.answer = old.answer
  BY <1>2, <1>9 DEF Request
<1>11. RequestInv(r, a)'
  BY <1>2, <1>7, <1>10 DEF RequestInv, Unanswered
<1>12. upstash' \in [answer : Reply, until : Nat] /\ EntryInv(upstash)'
  BY <1>5, <1>6 DEF PipelineInv, PipelineTypeOK, EntryInv
<1>13. Does(r, a)
  BY <1>1, <1>9 DEF PersistFinal
<1> QED BY <1>5, <1>8, <1>10, <1>11, <1>12, <1>13, RequestStep

\* The shared cache takes a recorded answer.
LEMMA StoreAnswerInv ==
    ASSUME PipelineInv, NEW r \in Asker, StoreAnswer(r)
    PROVE  PipelineInv'
<1>1. PICK old : old = asking[r]
  OBVIOUS
<1>2. old \in Request /\ RequestInv(r, old) /\ old.at = "store"
  BY <1>1 DEF StoreAnswer, Doing, PipelineInv, PipelineTypeOK, Request
<1>3. PICK a : a = [old EXCEPT !.at = "answered"]
  OBVIOUS
<1>4. a \in Request /\ a.at = "answered" /\ a.hit = old.hit
  BY <1>2, <1>3 DEF Request
<1>5. Does(r, a) /\ UNCHANGED <<clock, question, responses>>
  BY <1>1, <1>3 DEF StoreAnswer
<1>6. RequestInv(r, a)'
  BY <1>2, <1>4 DEF RequestInv, Unanswered
<1>7. RowsKept(r)
  BY <1>5 DEF RowsKept, PipelineInv, PipelineTypeOK, Response, Recorded, Genuine
<1>8. PICK until : until = clock + (IF old.static THEN Week ELSE Hour)
  OBVIOUS
<1>9. until \in Nat
  BY <1>8, PipelineAssumption DEF PipelineInv, PipelineTypeOK
<1>10. upstash' \in [answer : Reply, until : Nat] /\ EntryInv(upstash)'
  <2>1. CASE upstash' = upstash
    BY <1>5, <2>1 DEF PipelineInv, PipelineTypeOK, EntryInv, Recorded
  <2>2. CASE Keeps(old.answer) /\ upstash' = [answer |-> old.answer, until |-> until]
    <3>1. old.answer \in Reply /\ Lasting(old.answer) /\ old.answer.text # "garbled"
      BY <1>2, <2>2 DEF Keeps, Lasting, RequestInv, Request, Reply
    <3>2. Recorded(old.answer)'
      BY <1>2, <1>5 DEF RequestInv, Recorded
    <3>3. upstash'.answer = old.answer
      BY <2>2
    <3> QED BY <1>9, <2>2, <3>1, <3>2, <3>3 DEF EntryInv, Recorded
  <2> QED BY <1>1, <1>8, <2>1, <2>2 DEF StoreAnswer
<1> QED BY <1>4, <1>5, <1>6, <1>7, <1>10, RequestStep

\* A request fails: its row is marked, or is made.
LEMMA FailQueryInv ==
    ASSUME PipelineInv, NEW r \in Asker, FailQuery(r)
    PROVE  PipelineInv'
<1>1. PICK old : old = asking[r]
  OBVIOUS
<1>2. old \in Request /\ RequestInv(r, old)
  BY <1>1 DEF PipelineInv, PipelineTypeOK, Request
<1>3. PICK own : own = {row \in responses : row.asker = r}
  OBVIOUS
<1>4. PICK made : made = [asker |-> r, answer |-> NoAnswer, at |-> clock, status |-> "failed"]
  OBVIOUS
<1>5. made \in Response /\ made.asker = r /\ made.status = "failed"
  <2>1. NoAnswer \in Reply
    BY PipelineAssumption DEF NoAnswer, Reply, Text
  <2> QED BY <1>4, <2>1 DEF Response, PipelineInv, PipelineTypeOK
<1>6. PICK marked : marked = IF own = {} THEN {made} ELSE {[row EXCEPT !.status = "failed"] : row \in own}
  OBVIOUS
<1>7. responses' = (responses \ own) \cup marked /\ UNCHANGED <<clock, question, upstash>>
  BY <1>3, <1>4, <1>6 DEF FailQuery
<1>8. responses \subseteq Response /\ own \subseteq responses /\ \A row \in own : row.asker = r
  BY <1>3 DEF PipelineInv, PipelineTypeOK, Response
<1>9. \A row \in own : LET m == [row EXCEPT !.status = "failed"]
                       IN m \in Response /\ m.asker = r /\ m.answer = row.answer /\ m.status = "failed"
  BY <1>8 DEF Response
<1>10. \A m \in marked : m \in Response /\ m.asker = r /\ m.status = "failed"
  BY <1>5, <1>6, <1>9
<1>11. \A row \in own : \E m \in marked : m.asker = row.asker /\ m.answer = row.answer
  <2> SUFFICES ASSUME NEW row \in own PROVE \E m \in marked : m.asker = row.asker /\ m.answer = row.answer
    OBVIOUS
  <2>1. [row EXCEPT !.status = "failed"] \in marked
    BY <1>6
  <2> QED BY <1>8, <1>9, <2>1
<1>12. \A answer : Recorded(answer) => Recorded(answer)'
  BY <1>7, <1>11 DEF Recorded
<1>13. RowsKept(r)
  <2>1. ASSUME NEW row \in responses', row.status = "completed" PROVE Genuine(row.answer)'
    BY <1>7, <1>10, <1>12, <2>1 DEF PipelineInv, Genuine
  <2> QED BY <1>7, <1>8, <1>10, <1>12, <2>1 DEF RowsKept
<1>14. PICK a : a = [old EXCEPT !.at = "failed"]
  OBVIOUS
<1>15. /\ a \in Request /\ a.at = "failed"
       /\ a.hit = old.hit /\ a.fresh = old.fresh /\ a.answer = old.answer
  BY <1>2, <1>14 DEF Request
<1>16. RequestInv(r, a)'
  BY <1>2, <1>12, <1>15 DEF RequestInv, Unanswered, Genuine
<1>17. upstash' \in [answer : Reply, until : Nat] /\ EntryInv(upstash)'
  BY <1>7, <1>12 DEF PipelineInv, PipelineTypeOK, EntryInv
<1>18. Does(r, a)
  BY <1>1, <1>14 DEF FailQuery
<1> QED BY <1>7, <1>13, <1>15, <1>16, <1>17, <1>18, RequestStep

\* One step per action.
LEMMA PipelineStepInv == PipelineInv /\ [PipelineNext]_pipelineVars => PipelineInv'
<1> SUFFICES ASSUME PipelineInv, [PipelineNext]_pipelineVars PROVE PipelineInv'
  OBVIOUS
<1>1. ASSUME NEW r \in Asker, NEW choice \in BOOLEAN, Ask(r, choice) \/ Route(r, choice) PROVE PipelineInv'
  BY <1>1, AskInv, RouteInv
<1>2. ASSUME NEW r \in Asker, LookUp(r) \/ RuleHit(r) \/ Search(r) \/ CallModel(r) PROVE PipelineInv'
  BY <1>2, LookUpInv, RuleHitInv, SearchInv, CallModelInv
<1>3. ASSUME NEW r \in Asker, NoModel(r) \/ PersistFinal(r) \/ StoreAnswer(r) \/ FailQuery(r) PROVE PipelineInv'
  BY <1>3, NoModelInv, PersistFinalInv, StoreAnswerInv, FailQueryInv
<1>4. CASE Tick
  <2>1. clock' \in 0 .. MaxTime
    BY <1>4, PipelineAssumption DEF Tick, PipelineInv, PipelineTypeOK
  <2>2. UNCHANGED <<question, upstash, responses, asking>>
    BY <1>4 DEF Tick
  <2> QED BY <2>1, <2>2 DEF PipelineInv, PipelineTypeOK, RequestInv, EntryInv, Recorded, Genuine
<1>5. CASE UNCHANGED pipelineVars
  BY <1>5 DEF pipelineVars, PipelineInv, PipelineTypeOK, RequestInv, EntryInv, Recorded, Genuine
<1> QED BY <1>1, <1>2, <1>3, <1>4, <1>5 DEF PipelineNext

\* The inductive invariant of the answers: every completed row repeats a recorded answer.
THEOREM PipelineInvariance == PipelineSpec => []PipelineInv
BY PipelineInitInv, PipelineStepInv, PTL DEF PipelineSpec

\* The types of the answers.
THEOREM PipelineTypeCorrect == PipelineSpec => []PipelineTypeOK
<1>1. PipelineInv => PipelineTypeOK
  BY DEF PipelineInv
<1> QED BY <1>1, PipelineInvariance, PTL

\* What a request is given from a cache is the recorded, real answer of another one, garbled at
\* most once, however the requests race and fail.
THEOREM ReuseIsSound == PipelineSpec => []ReusedIsSound
<1>1. PipelineInv => ReusedIsSound
  BY DEF PipelineInv, RequestInv, EntryInv, ReusedIsSound, Genuine
<1> QED BY <1>1, PipelineInvariance, PTL
=============================================================================
