-------------------------- MODULE MembershipProofs --------------------------
(***************************************************************************)
(* Proofs about Membership, for any members, requests, changes and bounds. *)
(* The handlers are told apart by their locks: what a handler has read     *)
(* under a lock still holds, because whoever writes it needs that lock.    *)
(***************************************************************************)
EXTENDS Membership, SequenceTheorems, TLAPS

\* What a handler may be asked for: a change, a revocation, a grant, or nothing.
Asked == Update \cup [status : {"revoked"}] \cup [api : {"off", "on"}] \cup {<<>>} \cup [served : BOOLEAN]

\* A request in progress.
Handled == [kind : Kind, actor : Member, target : Member, update : Asked, todo : Seq(Lock),
            held : SUBSET Lock, seen : [entry : Entry, user : BOOLEAN]]

\* The types of the tables and of the bounds.
DataTypes ==
    /\ member \in [Member -> Membership]
    /\ account \in [Member -> Account]
    /\ entry \in [Member -> Entry]
    /\ session \subseteq Member /\ cookie \subseteq Member
    /\ keys \in [Member -> Keys]
    /\ begun \in 0 .. MaxRequests /\ events \in 0 .. MaxEvents

\* The types of all the state.
MembershipTypes == DataTypes /\ request \in [Request -> {Idle} \cup Handled]

\* No two handlers hold conflicting locks.
Exclusive ==
    \A p, r \in Active : p # r => \A x \in Held(p), y \in Held(r) : ~Conflict(x, y)

\* How far a handler has come: the locks it has and those that are left.
OneLock(q, x) == \/ q.todo = <<x>> /\ q.held = {}
                 \/ q.todo = <<>> /\ q.held = {x}

\* A handler that takes x and then y.
TwoLocks(q, x, y) == \/ q.todo = <<x, y>> /\ q.held = {}
                     \/ q.todo = <<y>> /\ q.held = {x}
                     \/ q.todo = <<>> /\ q.held = {x, y}

\* The locks of a change and of a deletion: the advisory lock, the rows in the order of the
\* statement, and then what the change touches.
ChangeShape(q, a, t) ==
    /\ a # t
    /\ \/ q.todo = <<Advisory, Row(a), Row(t)>> /\ q.held = {}
       \/ q.todo = <<Row(a), Row(t)>> /\ q.held = {Advisory}
       \/ q.todo = <<Row(t)>> /\ q.held = {Advisory, Row(a)}
       \/ /\ {Advisory, Row(a), Row(t)} \subseteq q.held
          /\ q.held \subseteq {Advisory, Row(a), Row(t), EntryRow(t), User(t)}
          /\ \/ q.todo \in {<<EntryRow(t), User(t)>>, <<EntryRow(t)>>} /\ {EntryRow(t), User(t)} \cap q.held = {}
             \/ q.todo = <<User(t)>> /\ User(t) \notin q.held
             \/ q.todo = <<>>

\* The locks of an invitation.
InviteShape(q, a, t) ==
    \/ q.todo = <<Advisory, Row(a)>> /\ q.held = {}
    \/ q.todo = <<Row(a)>> /\ q.held = {Advisory}
    \/ q.todo = <<EntryRow(t)>> /\ q.held = {Advisory, Row(a)}
    \/ /\ q.todo = <<>> /\ {Advisory, Row(a)} \subseteq q.held
       /\ q.held \subseteq {Advisory, Row(a), EntryRow(t)}

\* A handler has taken a prefix of the locks of its kind (nothing is needed of enable and
\* reject, which write nothing that the invariants speak of).
Shape(q) ==
    LET a == q.actor
        t == q.target
    IN /\ q.kind \in {"change", "delete"} => ChangeShape(q, a, t)
       /\ q.kind = "invite" => InviteShape(q, a, t)
       /\ q.kind \in {"create", "execute", "signin"} => TwoLocks(q, Row(a), User(a))
       /\ q.kind = "issue" => IF q.seen.user THEN TwoLocks(q, Row(t), User(t)) ELSE OneLock(q, User(t))
       /\ q.kind = "permit" => TwoLocks(q, Ref(a), User(t))
       /\ q.kind = "forget" => OneLock(q, Row(a))
       /\ q.kind = "audit" => OneLock(q, Ref(a))
       /\ q.kind = "apply" => OneLock(q, EntryRow(t))
       /\ q.kind = "call" => q.todo = <<>> /\ q.held = {}

\* What a handler knows of what it has locked.
Spares(q) ==
    LET t == q.target
    IN /\ member[t].status # "none"
       /\ member[t].role = "admin" /\ (Wanted(q).role # "admin" \/ Wanted(q).status # "approved")
            => \E o \in Member \ {t} : Administers(o)

\* What a handler read under its locks still holds.
Knows(q) ==
    LET a == q.actor
        t == q.target
    IN /\ q.kind \in {"change", "delete"} /\ Row(t) \in q.held => Spares(q)
       /\ q.kind = "change" => q.update \in Update
       /\ q.kind = "delete" => q.update = [status |-> "revoked"]
       /\ q.kind = "permit" => q.update \in [api : {"off", "on"}]
       /\ q.kind = "invite" => q.update \in Update
       /\ q.kind = "invite" /\ Row(a) \in q.held => member[t].status = "none"
       /\ q.kind \in {"create", "execute", "signin"} /\ Row(a) \in q.held => member[a].status = "approved"
       /\ q.kind = "issue" /\ Row(t) \in q.held => member[t].status = "approved"

\* Both, of every request in progress.
HandlersInv == \A r \in Active : Shape(request[r]) /\ Knows(request[r])

\* The inductive invariant.
MembershipInv ==
    /\ MembershipTypes /\ Exclusive /\ HandlersInv
    /\ RevokedHasNothing /\ AdministratorRemains

-----------------------------------------------------------------------------
\* Locks of different kinds, or of different members, are different.
LEMMA LockNames ==
    ASSUME NEW m \in Member, NEW n \in Member
    PROVE  /\ Row(m) # Advisory /\ Ref(m) # Advisory /\ User(m) # Advisory /\ EntryRow(m) # Advisory
           /\ Row(m) # Ref(n) /\ Row(m) # User(n) /\ Row(m) # EntryRow(n)
           /\ Ref(m) # User(n) /\ Ref(m) # EntryRow(n) /\ User(m) # EntryRow(n)
           /\ Row(m) = Row(n) => m = n
           /\ {Advisory, Row(m), Ref(m), User(m), EntryRow(m)} \subseteq Lock
BY DEF Row, Ref, User, EntryRow, Advisory, Lock

\* Conflicts are mutual.
LEMMA ConflictSym == \A x, y : Conflict(x, y) => Conflict(y, x)
BY DEF Conflict

\* An advisory lock, and the lock of a row, exclude themselves.
LEMMA Clash == Conflict(Advisory, Advisory) /\ \A m : Conflict(Row(m), Row(m))
BY DEF Conflict, Advisory, Row

\* What a lock can be in conflict with.
LEMMA ConflictIs ==
    ASSUME NEW y \in Lock, NEW m \in Member
    PROVE  /\ Conflict(y, Advisory) => y = Advisory
           /\ Conflict(y, User(m)) => y = User(m)
           /\ Conflict(y, EntryRow(m)) => y = EntryRow(m)
           /\ Conflict(y, Row(m)) => y = Row(m) \/ y = Ref(m)
           /\ Conflict(y, Ref(m)) => y = Row(m)
<1>1. PICK n \in Member : y \in {Advisory, Row(n), Ref(n), User(n), EntryRow(n)}
  BY DEF Lock
<1> QED BY <1>1 DEF Row, Ref, User, EntryRow, Advisory, Conflict

\* Short sequences.
LEMMA Pairs ==
    ASSUME NEW S, NEW a \in S, NEW b \in S
    PROVE  /\ <<a>> \o <<b>> = <<a, b>>
           /\ <<>> \in Seq(S) /\ <<a>> \in Seq(S) /\ <<a, b>> \in Seq(S)
<1>1. <<>> \in Seq(S) /\ <<a>> \in Seq(S) /\ <<b>> \in Seq(S) /\ <<a, b>> \in Seq(S)
  OBVIOUS
<1>2. Len(<<a>>) = 1 /\ Len(<<b>>) = 1 /\ Len(<<a, b>>) = 2
  OBVIOUS
<1>3. /\ <<a>> \o <<b>> \in Seq(S) /\ Len(<<a>> \o <<b>>) = 2
      /\ (<<a>> \o <<b>>)[1] = <<a>>[1] /\ (<<a>> \o <<b>>)[2] = <<b>>[1]
  BY <1>1, <1>2, ConcatProperties
<1>4. \A i \in 1 .. 2 : (<<a>> \o <<b>>)[i] = <<a, b>>[i]
  BY <1>3
<1> QED BY <1>1, <1>2, <1>3, <1>4, SeqEqual

\* The first and the rest of a short sequence of locks.
LEMMA Tuples ==
    ASSUME NEW S, NEW a \in S, NEW b \in S, NEW c \in S
    PROVE  /\ Head(<<a>>) = a /\ Tail(<<a>>) = <<>>
           /\ Head(<<a, b>>) = a /\ Tail(<<a, b>>) = <<b>>
           /\ Head(<<a, b, c>>) = a /\ Tail(<<a, b, c>>) = <<b, c>>
           /\ <<a, b, c>> \in Seq(S)
           /\ <<a>> # <<>> /\ <<a, b>> # <<>> /\ <<a, b, c>> # <<>>
<1>1. Head(<<a>>) = a /\ Tail(<<a>>) = <<>>
  OBVIOUS
<1>2. Head(<<a, b>>) = a /\ Tail(<<a, b>>) = <<b>>
  OBVIOUS
<1>3. Head(<<a, b, c>>) = a /\ Tail(<<a, b, c>>) = <<b, c>>
  OBVIOUS
<1>4. <<a, b, c>> \in Seq(S)
  OBVIOUS
<1>5. <<a>> # <<>> /\ <<a, b>> # <<>> /\ <<a, b, c>> # <<>>
  OBVIOUS
<1> QED BY <1>1, <1>2, <1>3, <1>4, <1>5

\* A sequence that names a lock is not empty.
LEMMA NotEmpty == \A a, b, c : <<a>> # <<>> /\ <<a, b>> # <<>> /\ <<a, b, c>> # <<>>
OBVIOUS

\* A change leaves the person and the project of a membership alone.
LEMMA Merging ==
    ASSUME NEW u \in Update \cup [status : {"revoked"}], NEW old \in Membership
    PROVE  /\ Merged(u, old) \in Membership
           /\ Merged(u, old).user = old.user
           /\ Merged(u, old).role = IF "role" \in DOMAIN u THEN u.role ELSE old.role
           /\ Merged(u, old).status = IF "status" \in DOMAIN u THEN u.status ELSE old.status
           /\ old.status # "none" => Merged(u, old).status # "none"
<1>1. /\ DOMAIN u \subseteq {"role", "status", "expires"}
      /\ "role" \in DOMAIN u => u.role \in {"admin", "viewer"}
      /\ "status" \in DOMAIN u => u.status \in {"pending", "approved", "revoked"}
      /\ "expires" \in DOMAIN u => u.expires \in {"never", "later", "past"}
  BY UpdateAssumption
<1> DEFINE new == Merged(u, old)
<1>2. /\ DOMAIN new = {"role", "status", "expires", "user", "project"}
      /\ \A f \in {"role", "status", "expires", "user", "project"} :
            new[f] = IF f \in DOMAIN u THEN u[f] ELSE old[f]
      /\ new = [f \in {"role", "status", "expires", "user", "project"} |-> new[f]]
  BY DEF Merged, Membership
<1>3. new.user = old.user /\ new.project = old.project
  BY <1>1, <1>2
<1>4. /\ new.role = IF "role" \in DOMAIN u THEN u.role ELSE old.role
      /\ new.status = IF "status" \in DOMAIN u THEN u.status ELSE old.status
      /\ new.expires = IF "expires" \in DOMAIN u THEN u.expires ELSE old.expires
  BY <1>2
<1>5. new \in Membership
  BY <1>1, <1>2, <1>3, <1>4 DEF Membership
<1> QED BY <1>1, <1>3, <1>4, <1>5 DEF Membership

\* What a handler knows survives what leaves roles and statuses alone ...
LEMMA KnowsKept ==
    ASSUME DataTypes, DataTypes', NEW q \in Handled, Knows(q),
           \A m \in Member : /\ member'[m].status = member[m].status
                             /\ member'[m].role = member[m].role
                             /\ member[m].user => member'[m].user
    PROVE  Knows(q)'
<1>1. q.actor \in Member /\ q.target \in Member
  BY DEF Handled
<1>2. ASSUME q.kind \in {"change", "delete"} PROVE /\ Wanted(q)'.role = Wanted(q).role
                                                  /\ Wanted(q)'.status = Wanted(q).status
  <2>1. q.update \in Update \cup [status : {"revoked"}]
    BY <1>2 DEF Knows
  <2> QED BY <1>1, <2>1, Merging DEF Wanted, DataTypes
<1>3. \A o \in Member : Administers(o) => Administers(o)'
  BY DEF Administers
<1>4. ASSUME q.kind \in {"change", "delete"}, Row(q.target) \in q.held PROVE Spares(q)'
  BY <1>1, <1>2, <1>3, <1>4 DEF Knows, Spares
<1> QED BY <1>1, <1>4 DEF Knows

\* ... and what a handler with the advisory lock does to a row that it has locked.
LEMMA KnowsWithoutAdvisory ==
    ASSUME DataTypes, NEW q \in Handled, Shape(q), Knows(q), Advisory \notin q.held,
           \A m \in Member : member[m].status = "approved" /\ Row(m) \in q.held
                => member'[m].status = "approved"
    PROVE  Knows(q)'
<1>1. q.actor \in Member /\ q.target \in Member
  BY DEF Handled
<1>2. ASSUME q.kind \in {"change", "delete"} PROVE Row(q.target) \notin q.held
  BY <1>1, <1>2, LockNames DEF Shape, ChangeShape
<1>3. ASSUME q.kind = "invite" PROVE Row(q.actor) \notin q.held
  BY <1>1, <1>3, LockNames DEF Shape, InviteShape
<1> QED BY <1>1, <1>2, <1>3 DEF Knows

\* Locks that are given back or not yet taken are in nobody's way.
LEMMA ExclusiveKept ==
    ASSUME MembershipTypes, Exclusive, NEW r \in Request, NEW w \in {Idle} \cup Handled,
           request' = [request EXCEPT ![r] = w],
           w = Idle \/ w.held = {} \/ (r \in Active /\ w.held \subseteq request[r].held)
    PROVE  Exclusive'
BY DEF Exclusive, Active, Held, Idle

\* A step that leaves one handler's request in a good state, and the others' knowledge true.
LEMMA HandlersFrame ==
    ASSUME MembershipInv, DataTypes', NEW r \in Request, NEW w \in {Idle} \cup Handled,
           request' = [request EXCEPT ![r] = w],
           w = Idle \/ (Shape(w) /\ Knows(w)'),
           \A p \in Active \ {r}, q \in Handled : q = request[p] => Knows(q)',
           Exclusive', RevokedHasNothing', AdministratorRemains'
    PROVE  MembershipInv'
<1>1. MembershipTypes'
  BY DEF MembershipInv, MembershipTypes
<1>2. ASSUME NEW p \in Active' PROVE (Shape(request[p]) /\ Knows(request[p]))'
  <2> DEFINE q == request'[p]
  <2>1. q \in Handled
    BY <1>1, <1>2 DEF MembershipTypes, Active, Idle
  <2>2. CASE p = r
    <3>1. q = w /\ w # Idle
      BY <1>2, <2>2 DEF MembershipInv, MembershipTypes, Active, Idle
    <3>2. Shape(w) /\ Knows(w)' /\ w = request'[p]
      BY <3>1
    <3> QED BY <3>2
  <2>3. CASE p # r
    <3>1. q = request[p] /\ p \in Active
      BY <1>2, <2>3 DEF MembershipInv, MembershipTypes, Active
    <3>2. Shape(q)
      BY <3>1 DEF MembershipInv, HandlersInv
    <3>3. \A k \in Handled : k = request'[p] => Knows(k)'
      BY <3>1, <2>3
    <3> QED BY <2>1, <3>2, <3>3 DEF Shape, ChangeShape, InviteShape, OneLock, TwoLocks
  <2> QED BY <2>2, <2>3
<1>3. HandlersInv'
  BY <1>2 DEF HandlersInv
<1> QED BY <1>1, <1>3 DEF MembershipInv

\* What a handler that is at work is.
LEMMA AtWork ==
    ASSUME MembershipInv, NEW p \in Active
    PROVE  p \in Request /\ request[p] \in Handled /\ Shape(request[p]) /\ Knows(request[p])
BY DEF MembershipInv, MembershipTypes, Active, Idle, HandlersInv

\* What nobody wrote, everybody still knows.
LEMMA KnowsUnchanged ==
    ASSUME MembershipInv, UNCHANGED data, DataTypes'
    PROVE  \A p \in Active, q \in Handled : q = request[p] => Knows(q)'
<1> SUFFICES ASSUME NEW p \in Active, NEW q \in Handled, q = request[p] PROVE Knows(q)'
  OBVIOUS
<1>1. Knows(q)
  BY AtWork
<1>2. DataTypes
  BY DEF MembershipInv, MembershipTypes
<1>3. \A m \in Member : member'[m] = member[m]
  BY DEF data
<1> QED BY <1>1, <1>2, <1>3, KnowsKept

\* The properties speak of the tables only.
LEMMA DataUnchanged ==
    ASSUME MembershipInv, UNCHANGED data
    PROVE  RevokedHasNothing' /\ AdministratorRemains'
BY DEF MembershipInv, data, RevokedHasNothing, AdministratorRemains, Administers

\* What may be asked of a handler of each kind.
MayAsk(kind, a, t, u) ==
    /\ kind \in {"change", "delete"} => a # t
    /\ kind \in {"change", "invite"} => u \in Update
    /\ kind = "delete" => u = [status |-> "revoked"]
    /\ kind = "permit" => u \in [api : {"off", "on"}]

\* A request begins: it has no lock and knows nothing yet.
LEMMA BeginStep ==
    ASSUME MembershipInv, NEW r \in Request, NEW kind \in Kind \ {"call"}, NEW a \in Member,
           NEW t \in Member, NEW u \in Asked, MayAsk(kind, a, t, u), Begin(r, kind, a, t, u)
    PROVE  MembershipInv'
<1>1. First(kind, a, t) \in Seq(Lock)
  BY LockNames, Pairs, Tuples DEF First, AdminLocks, MemberLocks, Kind
<1>2. PICK w \in Handled :
        w = [kind |-> kind, actor |-> a, target |-> t, update |-> u, todo |-> First(kind, a, t), held |-> {},
             seen |-> [entry |-> entry[t], user |-> member[t].user]]
  BY <1>1 DEF Handled, MembershipInv, MembershipTypes, DataTypes, Membership
<1>3. /\ request' = [request EXCEPT ![r] = w] /\ UNCHANGED data
      /\ begun < MaxRequests /\ begun' = begun + 1 /\ events' = events
  BY <1>2 DEF Begin
<1>4. DataTypes'
  BY <1>3, BoundsAssumption DEF MembershipInv, MembershipTypes, DataTypes, data
<1>5. Shape(w)
  <2>1. CASE kind \in {"change", "delete"}
    BY <1>2, <2>1 DEF Shape, First, AdminLocks, ChangeShape, MayAsk
  <2>2. CASE kind = "invite"
    BY <1>2, <2>2 DEF Shape, First, InviteShape
  <2>3. CASE kind \in {"create", "execute", "signin", "issue", "permit"}
    BY <1>2, <2>3 DEF Shape, First, MemberLocks, TwoLocks, OneLock
  <2>4. CASE kind \in {"forget", "audit", "apply", "enable", "reject"}
    BY <1>2, <2>4 DEF Shape, First, OneLock
  <2> QED BY <2>1, <2>2, <2>3, <2>4 DEF Kind
<1>6. Knows(w)'
  BY <1>2 DEF Knows, MayAsk
<1>7. \A p \in Active, q \in Handled : q = request[p] => Knows(q)'
  BY <1>3, <1>4, KnowsUnchanged
<1>8. Exclusive'
  BY <1>2, <1>3, ExclusiveKept DEF MembershipInv
<1>9. RevokedHasNothing' /\ AdministratorRemains'
  BY <1>3, DataUnchanged
<1> QED BY <1>3, <1>4, <1>5, <1>6, <1>7, <1>8, <1>9, HandlersFrame

\* Each of the requests that may begin.
LEMMA BeginsStep == ASSUME MembershipInv, NEW r \in Request, Begins(r) PROVE MembershipInv'
<1>1. ASSUME NEW a \in Member, NEW t \in Member, a # t, NEW u \in Update,
             NEW k \in {"change", "invite"}, Begin(r, k, a, t, u)
      PROVE  MembershipInv'
  BY <1>1, BeginStep DEF MayAsk, Asked, Kind
<1>2. ASSUME NEW a \in Member, NEW t \in Member, a # t, Begin(r, "delete", a, t, [status |-> "revoked"])
      PROVE  MembershipInv'
  BY <1>2, BeginStep DEF MayAsk, Asked, Kind
<1>3. ASSUME NEW a \in Member, NEW t \in Member, NEW api \in {"off", "on"},
             Begin(r, "permit", a, t, [api |-> api])
      PROVE  MembershipInv'
  BY <1>3, BeginStep DEF MayAsk, Asked, Kind
<1>4. ASSUME NEW a \in Member, NEW t \in Member,
             NEW k \in {"enable", "reject", "create", "forget", "execute", "signin", "issue", "apply"},
             Begin(r, k, a, t, <<>>)
      PROVE  MembershipInv'
  BY <1>4, BeginStep DEF MayAsk, Asked, Kind
<1>5. CASE BeginAdmin(r)
  BY <1>5, <1>1, <1>2, <1>3, <1>4 DEF BeginAdmin
<1>6. CASE BeginMember(r)
  BY <1>6, <1>4 DEF BeginMember
<1>7. CASE BeginSignIn(r) \/ BeginIssue(r) \/ BeginApply(r)
  BY <1>7, <1>4 DEF BeginSignIn, BeginIssue, BeginApply
<1> QED BY <1>5, <1>6, <1>7 DEF Begins

\* A request that the database aborts, or that its checks refuse, releases its locks.
LEMMA AbortStep == ASSUME MembershipInv, NEW r \in Request, Abort(r) PROVE MembershipInv'
<1>1. request' = [request EXCEPT ![r] = Idle] /\ UNCHANGED data /\ DataTypes'
  BY DEF Abort, MembershipInv, MembershipTypes, DataTypes, data
<1>2. Exclusive'
  BY <1>1, ExclusiveKept DEF MembershipInv
<1>3. \A p \in Active, q \in Handled : q = request[p] => Knows(q)'
  BY <1>1, KnowsUnchanged
<1>4. RevokedHasNothing' /\ AdministratorRemains'
  BY <1>1, DataUnchanged
<1> DEFINE w == Idle
<1>5. w \in {Idle} \cup Handled /\ w = Idle /\ request' = [request EXCEPT ![r] = w]
  BY <1>1
<1> HIDE DEF w
<1> QED BY <1>1, <1>2, <1>3, <1>4, <1>5, HandlersFrame

\* What a lock does to the list of those that are left.
LEMMA Furthers ==
    ASSUME MembershipTypes, NEW q \in Handled, NEW x \in Lock
    PROVE  /\ q.kind \in {"change", "delete"} /\ x = Row(q.target) =>
                Further(q, x) \in {<<>>, <<EntryRow(q.target)>>, <<User(q.target)>>,
                                   <<EntryRow(q.target), User(q.target)>>}
           /\ q.kind = "invite" /\ x = Row(q.actor) => Further(q, x) \in {<<>>, <<EntryRow(q.target)>>}
           /\ q.kind = "enable" /\ x = Row(q.target) =>
                Further(q, x) \in {<<Ref(q.actor)>>, <<User(q.target), Ref(q.actor)>>}
           /\ q.kind \in {"change", "delete", "enable"} /\ x # Row(q.target) => Further(q, x) = <<>>
           /\ q.kind = "invite" /\ x # Row(q.actor) => Further(q, x) = <<>>
           /\ q.kind \notin {"change", "delete", "enable", "invite"} => Further(q, x) = <<>>
           /\ Further(q, x) \in Seq(Lock)
<1>1. q.actor \in Member /\ q.target \in Member
  BY DEF Handled
<1>2. Linked(q) \in {<<>>, <<User(q.target)>>}
  BY DEF Linked
<1> DEFINE e == IF entry[q.target].status = "pending" THEN <<EntryRow(q.target)>> ELSE <<>>
<1>3. e \o Linked(q) \in {<<>>, <<EntryRow(q.target)>>, <<User(q.target)>>,
                          <<EntryRow(q.target), User(q.target)>>}
  <2>1. /\ EntryRow(q.target) \in Lock /\ User(q.target) \in Lock
    BY <1>1, LockNames
  <2>2. ASSUME NEW y \in Lock, NEW z \in Lock
        PROVE  <<y>> \o <<z>> = <<y, z>> /\ <<y>> \in Seq(Lock) /\ <<>> \in Seq(Lock)
    BY Pairs
  <2>3. /\ <<EntryRow(q.target)>> \o <<User(q.target)>> = <<EntryRow(q.target), User(q.target)>>
        /\ <<EntryRow(q.target)>> \in Seq(Lock) /\ <<User(q.target)>> \in Seq(Lock) /\ <<>> \in Seq(Lock)
    BY <2>1, <2>2
  <2>4. /\ <<EntryRow(q.target)>> \o <<>> = <<EntryRow(q.target)>>
        /\ <<>> \o <<User(q.target)>> = <<User(q.target)>> /\ <<>> \o <<>> = <<>>
    BY <2>3, ConcatEmptySeq
  <2> QED BY <1>2, <2>3, <2>4
<1>4. Linked(q) \o <<Ref(q.actor)>> \in {<<Ref(q.actor)>>, <<User(q.target), Ref(q.actor)>>}
  <2>1. Ref(q.actor) \in Lock /\ User(q.target) \in Lock
    BY <1>1, LockNames
  <2>2. ASSUME NEW y \in Lock, NEW z \in Lock PROVE <<y>> \o <<z>> = <<y, z>> /\ <<z>> \in Seq(Lock)
    BY Pairs
  <2>3. <<>> \o <<Ref(q.actor)>> = <<Ref(q.actor)>>
    BY <2>1, <2>2, ConcatEmptySeq
  <2> QED BY <1>2, <2>1, <2>2, <2>3
<1>5. /\ q.kind = "change" /\ x = Row(q.target) => Further(q, x) = e \o Linked(q)
      /\ q.kind = "delete" /\ x = Row(q.target) => Further(q, x) = Linked(q)
      /\ q.kind = "invite" /\ x = Row(q.actor) => Further(q, x) \in {<<>>, <<EntryRow(q.target)>>}
      /\ q.kind = "enable" /\ x = Row(q.target) => Further(q, x) = Linked(q) \o <<Ref(q.actor)>>
  BY DEF Further
<1>6. /\ q.kind \in {"change", "delete", "enable"} /\ x # Row(q.target) => Further(q, x) = <<>>
      /\ q.kind = "invite" /\ x # Row(q.actor) => Further(q, x) = <<>>
      /\ q.kind \notin {"change", "delete", "enable", "invite"} => Further(q, x) = <<>>
  BY DEF Further
<1> HIDE DEF e
<1>7. Further(q, x) \in {<<>>, <<EntryRow(q.target)>>, <<User(q.target)>>, <<EntryRow(q.target), User(q.target)>>,
                         <<Ref(q.actor)>>, <<User(q.target), Ref(q.actor)>>}
  BY <1>2, <1>3, <1>4, <1>5, <1>6
<1>8. Further(q, x) \in Seq(Lock)
  <2>1. {EntryRow(q.target), User(q.target), Ref(q.actor)} \subseteq Lock
    BY <1>1, LockNames
  <2>2. ASSUME NEW y \in Lock, NEW z \in Lock
        PROVE  <<y, z>> \in Seq(Lock) /\ <<y>> \in Seq(Lock) /\ <<>> \in Seq(Lock)
    BY Pairs
  <2> QED BY <1>7, <2>1, <2>2
<1> QED BY <1>2, <1>3, <1>4, <1>5, <1>6, <1>8

\* A handler that has got one more lock has come to the next of its stages.
LEMMA NextStage ==
    ASSUME MembershipTypes, NEW q \in Handled, Shape(q), q.todo # <<>>, NEW w \in Handled,
           w.kind = q.kind, w.actor = q.actor, w.target = q.target, w.seen.user = q.seen.user,
           w.todo = Tail(q.todo) \o Further(q, Head(q.todo)), w.held = q.held \cup {Head(q.todo)}
    PROVE  Shape(w)
<1> DEFINE a == q.actor
           t == q.target
<1>1. a \in Member /\ t \in Member
  BY DEF Handled
<1>2. {Advisory, Row(a), Row(t), EntryRow(t), User(t), User(a), Ref(a)} \subseteq Lock
  BY <1>1, LockNames
<1>3. Head(q.todo) \in Lock /\ Tail(q.todo) \in Seq(Lock)
  BY HeadTailProperties DEF Handled
<1>4. \A s \in Seq(Lock) : s \o <<>> = s /\ <<>> \o s = s
  BY ConcatEmptySeq
<1> HIDE DEF a, t
<1>5. CASE q.kind \in {"change", "delete"}
  <2>1. ChangeShape(q, a, t)
    BY <1>5 DEF Shape, a, t
  <2>2. CASE q.todo = <<Advisory, Row(a), Row(t)>> /\ q.held = {}
    <3>1. Head(q.todo) = Advisory /\ Tail(q.todo) = <<Row(a), Row(t)>>
      BY <1>2, <2>2, Tuples
    <3>2. Further(q, Advisory) = <<>>
      BY <1>1, <1>2, <1>5, LockNames, Furthers DEF a, t
    <3>3. w.todo = <<Row(a), Row(t)>> /\ w.held = {Advisory}
      BY <1>3, <1>4, <2>2, <3>1, <3>2
    <3> QED BY <1>5, <2>1, <3>3 DEF Shape, ChangeShape, a, t
  <2>3. CASE q.todo = <<Row(a), Row(t)>> /\ q.held = {Advisory}
    <3>1. Head(q.todo) = Row(a) /\ Tail(q.todo) = <<Row(t)>>
      BY <1>2, <2>3, Tuples
    <3>2. Further(q, Row(a)) = <<>>
      BY <1>1, <1>2, <1>5, <2>1, LockNames, Furthers DEF a, t, ChangeShape
    <3>3. w.todo = <<Row(t)>> /\ w.held = {Advisory, Row(a)}
      BY <1>3, <1>4, <2>3, <3>1, <3>2
    <3> QED BY <1>5, <2>1, <3>3 DEF Shape, ChangeShape, a, t
  <2>4. CASE q.todo = <<Row(t)>> /\ q.held = {Advisory, Row(a)}
    <3>1. Head(q.todo) = Row(t) /\ Tail(q.todo) = <<>>
      BY <1>2, <2>4, Tuples
    <3>2. Further(q, Row(t)) \in {<<>>, <<EntryRow(t)>>, <<User(t)>>, <<EntryRow(t), User(t)>>} \cap Seq(Lock)
      BY <1>1, <1>2, <1>5, Furthers DEF a, t
    <3>3. w.todo = Further(q, Row(t)) /\ w.held = {Advisory, Row(a), Row(t)}
      BY <1>3, <1>4, <2>4, <3>1, <3>2
    <3>4. {EntryRow(t), User(t)} \cap w.held = {}
      BY <1>1, <3>3, LockNames
    <3> QED BY <1>5, <2>1, <3>2, <3>3, <3>4 DEF Shape, ChangeShape, a, t
  <2>5. CASE /\ {Advisory, Row(a), Row(t)} \subseteq q.held
             /\ q.held \subseteq {Advisory, Row(a), Row(t), EntryRow(t), User(t)}
             /\ \/ q.todo \in {<<EntryRow(t), User(t)>>, <<EntryRow(t)>>} /\ {EntryRow(t), User(t)} \cap q.held = {}
                \/ q.todo = <<User(t)>> /\ User(t) \notin q.held
    <3>1. EntryRow(t) # User(t)
      BY <1>1, LockNames DEF t
    <3>2. Head(q.todo) \in {EntryRow(t), User(t)}
      <4>1. /\ Head(<<EntryRow(t), User(t)>>) = EntryRow(t) /\ Head(<<EntryRow(t)>>) = EntryRow(t)
            /\ Head(<<User(t)>>) = User(t)
        BY <1>2, Tuples
      <4> QED BY <2>5, <4>1
    <3>3. Further(q, Head(q.todo)) = <<>>
      BY <1>1, <1>2, <1>5, <3>2, LockNames, Furthers DEF a, t
    <3>4. w.todo = Tail(q.todo)
      BY <1>3, <1>4, <3>3
    <3>5. CASE q.todo = <<EntryRow(t), User(t)>>
      <4>1. Head(q.todo) = EntryRow(t) /\ Tail(q.todo) = <<User(t)>>
        BY <1>2, <3>5, Tuples
      <4>2. w.todo = <<User(t)>> /\ User(t) \notin w.held
        BY <2>5, <3>1, <3>4, <3>5, <4>1
      <4> QED BY <1>5, <2>1, <2>5, <3>2, <4>2 DEF Shape, ChangeShape, a, t
    <3>6. CASE q.todo = <<EntryRow(t)>> \/ q.todo = <<User(t)>>
      <4>1. w.todo = <<>>
        <5>1. Tail(<<EntryRow(t)>>) = <<>> /\ Tail(<<User(t)>>) = <<>>
          BY <1>2, Tuples
        <5> QED BY <3>4, <3>6, <5>1
      <4> QED BY <1>5, <2>1, <2>5, <3>2, <4>1 DEF Shape, ChangeShape, a, t
    <3>7. q.todo = <<EntryRow(t), User(t)>> \/ q.todo = <<EntryRow(t)>> \/ q.todo = <<User(t)>>
      BY <2>5
    <3> QED BY <3>5, <3>6, <3>7
  <2> QED BY <2>1, <2>2, <2>3, <2>4, <2>5 DEF ChangeShape
<1>6. CASE q.kind = "invite"
  <2>1. InviteShape(q, a, t)
    BY <1>6 DEF Shape, a, t
  <2>2. CASE q.todo = <<Advisory, Row(a)>> /\ q.held = {}
    <3>1. Head(q.todo) = Advisory /\ Tail(q.todo) = <<Row(a)>>
      BY <1>2, <2>2, Tuples
    <3>2. Further(q, Advisory) = <<>>
      BY <1>1, <1>2, <1>6, LockNames, Furthers DEF a, t
    <3>3. w.todo = <<Row(a)>> /\ w.held = {Advisory}
      BY <1>3, <1>4, <2>2, <3>1, <3>2
    <3> QED BY <1>6, <3>3 DEF Shape, InviteShape, a, t
  <2>3. CASE q.todo = <<Row(a)>> /\ q.held = {Advisory}
    <3>1. Head(q.todo) = Row(a) /\ Tail(q.todo) = <<>>
      BY <1>2, <2>3, Tuples
    <3>2. Further(q, Row(a)) \in {<<>>, <<EntryRow(t)>>} \cap Seq(Lock)
      BY <1>1, <1>2, <1>6, Furthers DEF a, t
    <3>3. w.todo = Further(q, Row(a)) /\ w.held = {Advisory, Row(a)}
      BY <1>3, <1>4, <2>3, <3>1, <3>2
    <3> QED BY <1>6, <3>2, <3>3 DEF Shape, InviteShape, a, t
  <2>4. CASE q.todo = <<EntryRow(t)>> /\ q.held = {Advisory, Row(a)}
    <3>1. Head(q.todo) = EntryRow(t) /\ Tail(q.todo) = <<>>
      BY <1>2, <2>4, Tuples
    <3>2. Further(q, EntryRow(t)) = <<>>
      BY <1>1, <1>2, <1>6, LockNames, Furthers DEF a, t
    <3>3. w.todo = <<>> /\ w.held = {Advisory, Row(a), EntryRow(t)}
      BY <1>3, <1>4, <2>4, <3>1, <3>2
    <3> QED BY <1>6, <3>3 DEF Shape, InviteShape, a, t
  <2> QED BY <2>1, <2>2, <2>3, <2>4 DEF InviteShape
<1>7. CASE q.kind \notin {"change", "delete", "invite", "enable", "reject"}
  <2>1. Further(q, Head(q.todo)) = <<>>
    BY <1>3, <1>7, Furthers
  <2>2. w.todo = Tail(q.todo)
    BY <1>3, <1>4, <2>1
  <2>3. ASSUME NEW x \in Lock, OneLock(q, x) PROVE OneLock(w, x)
    <3>1. q.todo = <<x>> /\ q.held = {}
      BY <2>3 DEF OneLock
    <3>2. Head(q.todo) = x /\ Tail(q.todo) = <<>>
      BY <3>1
    <3> QED BY <2>2, <3>1, <3>2 DEF OneLock
  <2>4. ASSUME NEW x \in Lock, NEW y \in Lock, TwoLocks(q, x, y) PROVE TwoLocks(w, x, y)
    <3>1. CASE q.todo = <<x, y>> /\ q.held = {}
      <4>1. Head(q.todo) = x /\ Tail(q.todo) = <<y>>
        BY <3>1, Tuples
      <4> QED BY <2>2, <3>1, <4>1 DEF TwoLocks
    <3>2. CASE q.todo = <<y>> /\ q.held = {x}
      <4>1. Head(q.todo) = y /\ Tail(q.todo) = <<>>
        BY <3>2, Tuples
      <4> QED BY <2>2, <3>2, <4>1 DEF TwoLocks
    <3> QED BY <2>4, <3>1, <3>2 DEF TwoLocks
  <2> QED BY <1>2, <1>7, <2>3, <2>4 DEF Shape, Kind, Handled, a, t
<1>8. CASE q.kind \in {"enable", "reject"}
  BY <1>8 DEF Shape
<1> QED BY <1>5, <1>6, <1>7, <1>8

\* What a handler learns of what it has just locked.
LEMMA Learns ==
    ASSUME MembershipTypes, NEW q \in Handled, Shape(q), Knows(q), q.todo # <<>>,
           Accepts(q, Head(q.todo)), NEW w \in Handled,
           w.kind = q.kind, w.actor = q.actor, w.target = q.target, w.update = q.update,
           w.held = q.held \cup {Head(q.todo)}
    PROVE  Knows(w)
<1> DEFINE a == q.actor
           t == q.target
           x == Head(q.todo)
<1>1. a \in Member /\ t \in Member /\ a = w.actor /\ t = w.target
  BY DEF Handled
<1>2. Wanted(w) = Wanted(q)
  BY DEF Wanted
<1>3. ASSUME q.kind \in {"change", "delete"}, Row(t) \in w.held PROVE Spares(w)
  <2>1. CASE Row(t) \in q.held
    BY <1>2, <1>3, <2>1 DEF Knows, Spares
  <2>2. CASE x = Row(t)
    <3>1. Row(a) # Row(t)
      BY <1>1, <1>3, LockNames DEF Shape, ChangeShape
    <3>2. /\ member[t].status # "none"
          /\ Reduces(t, Wanted(q)) => AnotherAdministrator(t)
      BY <1>3, <2>2, <3>1 DEF Accepts
    <3> QED BY <1>2, <3>2 DEF Spares, Reduces, AnotherAdministrator
  <2> QED BY <1>3, <2>1, <2>2
<1>4. ASSUME q.kind = "invite", Row(a) \in w.held PROVE member[t].status = "none"
  BY <1>4 DEF Knows, Accepts
<1>5. ASSUME q.kind \in {"create", "execute", "signin"}, Row(a) \in w.held PROVE member[a].status = "approved"
  <2>1. CASE Row(a) \in q.held
    BY <1>5, <2>1 DEF Knows
  <2>2. CASE x = Row(a)
    BY <1>1, <1>5, <2>2, LockNames DEF Accepts, Live
  <2> QED BY <1>1, <1>5, <2>1, <2>2
<1>6. ASSUME q.kind = "issue", Row(t) \in w.held PROVE member[t].status = "approved"
  <2>1. CASE Row(t) \in q.held
    BY <1>6, <2>1 DEF Knows
  <2>2. CASE x = Row(t)
    BY <1>1, <1>6, <2>2, LockNames DEF Accepts, Live
  <2> QED BY <1>1, <1>6, <2>1, <2>2
<1> QED BY <1>3, <1>4, <1>5, <1>6 DEF Knows

\* A lock is granted: nobody else has one in conflict with it, and the handler reads the row under it.
LEMMA GrantStep == ASSUME MembershipInv, NEW r \in Request, Grant(r) PROVE MembershipInv'
<1>1. r \in Active /\ UNCHANGED <<data, begun, events>>
  BY DEF Grant
<1>2. PICK q \in Handled : q = request[r] /\ Shape(q) /\ Knows(q) /\ q.todo # <<>>
  BY <1>1, AtWork DEF Grant
<1>3. PICK x \in Lock : x = Head(q.todo) /\ Tail(q.todo) \in Seq(Lock)
  BY <1>2, HeadTailProperties DEF Handled
<1>4. MembershipTypes /\ DataTypes /\ DataTypes'
  BY <1>1 DEF MembershipInv, MembershipTypes, DataTypes, data
<1>5. \A p \in Active, k \in Handled : k = request[p] => Knows(k)'
  BY <1>1, <1>4, KnowsUnchanged
<1>6. RevokedHasNothing' /\ AdministratorRemains'
  BY <1>1, DataUnchanged
<1>7. CASE Accepts(q, x)
  <2>1. Further(q, x) \in Seq(Lock) /\ Tail(q.todo) \o Further(q, x) \in Seq(Lock)
    BY <1>3, <1>4, Furthers, ConcatProperties
  <2>2. PICK w \in Handled :
          w = [q EXCEPT !.todo = Tail(q.todo) \o Further(q, x), !.held = @ \cup {x},
                        !.seen.entry = IF x[1] = "row" THEN entry[q.target] ELSE @]
    BY <1>4, <2>1 DEF Handled, DataTypes
  <2>3. /\ w.kind = q.kind /\ w.actor = q.actor /\ w.target = q.target /\ w.seen.user = q.seen.user
        /\ w.todo = Tail(q.todo) \o Further(q, x) /\ w.held = q.held \cup {x} /\ w.update = q.update
    BY <2>2 DEF Handled
  <2>4. request' = [request EXCEPT ![r] = w]
    BY <1>2, <1>3, <1>7, <2>2 DEF Grant
  <2>5. Shape(w)
    BY <1>2, <1>3, <1>4, <2>3, NextStage
  <2>6. Knows(w)'
    <3>1. Knows(w)
      BY <1>2, <1>3, <1>4, <1>7, <2>3, Learns
    <3>2. \A m \in Member : member'[m] = member[m]
      BY <1>1 DEF data
    <3> QED BY <1>4, <3>1, <3>2, KnowsKept
  <2>7. Exclusive'
    <3>1. \A p \in Active \ {r} : \A y \in Held(p) : ~Conflict(y, x) /\ ~Conflict(x, y)
      BY <1>1, <1>2, <1>3, ConflictSym DEF Grant, Waits, Blocks
    <3>2. Held(r)' = Held(r) \cup {x} /\ Active' = Active
      BY <1>1, <1>2, <2>3, <2>4, <1>4 DEF Held, Active, MembershipTypes
    <3>3. \A p \in Active \ {r} : Held(p)' = Held(p)
      BY <1>4, <2>4 DEF Held, MembershipTypes
    <3> QED BY <3>1, <3>2, <3>3 DEF Exclusive, MembershipInv
  <2> QED BY <1>4, <1>5, <1>6, <2>4, <2>5, <2>6, <2>7, HandlersFrame
<1>8. CASE ~Accepts(q, x)
  <2>1. request' = [request EXCEPT ![r] = Idle]
    BY <1>2, <1>3, <1>8 DEF Grant
  <2>2. Exclusive'
    BY <1>4, <2>1, ExclusiveKept DEF MembershipInv
  <2> QED BY <1>4, <1>5, <1>6, <2>1, <2>2, HandlersFrame
<1> QED BY <1>7, <1>8

\* What leaves roles, statuses and links alone disturbs neither the handlers nor the administrators.
LEMMA Steady ==
    ASSUME MembershipInv, DataTypes',
           \A m \in Member : /\ member'[m].status = member[m].status
                             /\ member'[m].role = member[m].role
                             /\ member[m].user => member'[m].user
    PROVE  /\ \A p \in Active, q \in Handled : q = request[p] => Knows(q)'
           /\ AdministratorRemains'
<1>1. DataTypes
  BY DEF MembershipInv, MembershipTypes
<1>2. ASSUME NEW p \in Active, NEW q \in Handled, q = request[p] PROVE Knows(q)'
  <2>1. Knows(q)
    BY <1>2, AtWork
  <2> QED BY <1>1, <2>1, KnowsKept
<1>3. AdministratorRemains'
  BY DEF MembershipInv, AdministratorRemains, Administers
<1> QED BY <1>2, <1>3

\* A commit after which nobody knows anything false.
LEMMA Commit ==
    ASSUME MembershipInv, DataTypes', NEW r \in Request, request' = [request EXCEPT ![r] = Idle],
           \A p \in Active \ {r}, q \in Handled : q = request[p] => Knows(q)',
           RevokedHasNothing', AdministratorRemains'
    PROVE  MembershipInv'
<1>1. Exclusive'
  BY ExclusiveKept DEF MembershipInv
<1> DEFINE w == Idle
<1>2. w \in {Idle} \cup Handled /\ w = Idle /\ request' = [request EXCEPT ![r] = w]
  OBVIOUS
<1> HIDE DEF w
<1> QED BY <1>1, <1>2, HandlersFrame

\* An event that leaves statuses and roles alone, and removes no user, disturbs no handler.
LEMMA Event ==
    ASSUME MembershipInv, DataTypes', UNCHANGED request, RevokedHasNothing',
           \A m \in Member : /\ member'[m].status = member[m].status
                             /\ member'[m].role = member[m].role
                             /\ member[m].user => member'[m].user
    PROVE  MembershipInv'
<1>1. AdministratorRemains' /\ \A p \in Active, q \in Handled : q = request[p] => Knows(q)'
  BY Steady
<1>2. MembershipTypes' /\ Exclusive'
  BY DEF MembershipInv, MembershipTypes, Exclusive, Active, Held
<1>3. ASSUME NEW p \in Active' PROVE (Shape(request[p]) /\ Knows(request[p]))'
  <2>1. p \in Active /\ request'[p] = request[p]
    BY <1>3 DEF Active
  <2>2. PICK q \in Handled : q = request[p] /\ q = request'[p] /\ Shape(q)
    BY <2>1, AtWork
  <2>3. Knows(q)'
    BY <1>1, <2>1, <2>2
  <2> QED BY <2>2, <2>3 DEF Shape, ChangeShape, InviteShape, OneLock, TwoLocks
<1> QED BY <1>1, <1>2, <1>3 DEF MembershipInv, HandlersInv

\* The administrator who commits a change is alone with the advisory lock and the row.
LEMMA AloneWithAdvisory ==
    ASSUME MembershipInv, NEW r \in Request, request[r].kind \in {"change", "delete", "invite"},
           request[r].todo = <<>>
    PROVE  /\ r \in Active
           /\ \A p \in Active \ {r} : Advisory \notin request[p].held
           /\ request[r].kind # "invite" => Row(request[r].target) \in request[r].held
           /\ request[r].kind # "invite" =>
                \A p \in Active \ {r} : Row(request[r].target) \notin request[p].held
           /\ Row(request[r].actor) \in request[r].held
<1>1. r \in Active
  BY DEF Active
<1>2. PICK q \in Handled : q = request[r] /\ Shape(q)
  BY <1>1, AtWork
<1>3. /\ Advisory \in q.held /\ Row(q.actor) \in q.held
      /\ q.kind # "invite" => Row(q.target) \in q.held
  <2>1. q.todo = <<>> /\ q.kind \in {"change", "delete", "invite"}
    BY <1>2
  <2>2. CASE q.kind = "invite"
    BY <1>2, <2>1, <2>2, NotEmpty DEF Shape, InviteShape
  <2>3. CASE q.kind # "invite"
    BY <1>2, <2>1, <2>3, NotEmpty DEF Shape, ChangeShape
  <2> QED BY <2>2, <2>3
<1>4. \A p \in Active \ {r} : Advisory \notin request[p].held
  BY <1>1, <1>2, <1>3, Clash DEF MembershipInv, Exclusive, Held
<1>5. q.kind # "invite" => \A p \in Active \ {r} : Row(q.target) \notin request[p].held
  BY <1>1, <1>2, <1>3, Clash DEF MembershipInv, Exclusive, Held
<1> QED BY <1>1, <1>2, <1>3, <1>4, <1>5

\* Who commits under the advisory lock does not disturb the handlers that have no part in it.
LEMMA OthersWithoutAdvisory ==
    ASSUME MembershipInv, NEW r \in Request, request[r].kind \in {"change", "delete", "invite"},
           request[r].todo = <<>>, NEW new \in Membership, 
           member' = [member EXCEPT ![request[r].target] = new]
    PROVE  \A p \in Active \ {r}, q \in Handled : q = request[p] => Knows(q)'
<1> SUFFICES ASSUME NEW p \in Active \ {r}, NEW q \in Handled, q = request[p] PROVE Knows(q)'
  OBVIOUS
<1>1. Advisory \notin q.held
  BY AloneWithAdvisory
<1>2. Shape(q) /\ Knows(q)
  BY AtWork
<1>3. PICK k \in Handled : k = request[r] /\ Knows(k)
  BY AtWork, AloneWithAdvisory
<1>4. \A m \in Member : member[m].status = "approved" /\ Row(m) \in q.held => member'[m].status = "approved"
  <2>1. CASE k.kind = "invite"
    <3>1. member[k.target].status = "none"
      BY <1>3, <2>1, AloneWithAdvisory DEF Knows
    <3> QED BY <1>3, <3>1 DEF MembershipInv, MembershipTypes, DataTypes, Handled
  <2>2. CASE k.kind # "invite"
    <3>1. Row(k.target) \notin q.held
      BY <1>3, <2>2, AloneWithAdvisory
    <3> QED BY <1>3, <3>1 DEF MembershipInv, MembershipTypes, DataTypes, Handled
  <2> QED BY <2>1, <2>2
<1>5. DataTypes
  BY DEF MembershipInv, MembershipTypes
<1> QED BY <1>1, <1>2, <1>4, <1>5, KnowsWithoutAdvisory

\* The entry that a handler writes is an entry.
LEMMA ReviewedIs ==
    ASSUME DataTypes, NEW q, NEW s \in {"none", "pending", "approved", "revoked"}
    PROVE  Reviewed(q, s) \in [Member -> Entry]
BY DEF Reviewed, DataTypes, Entry

\* A change and a deletion commit: an administrator is spared, and what a revoked
\* member had is gone.
LEMMA CommitChangeStep ==
    ASSUME MembershipInv, NEW r \in Request, CommitChange(r) \/ CommitDelete(r) PROVE MembershipInv'
<1>1. /\ request[r].kind \in {"change", "delete"} /\ request[r].todo = <<>>
      /\ request' = [request EXCEPT ![r] = Idle]
  BY DEF CommitChange, CommitDelete, Ready, Done
<1>2. PICK q \in Handled : q = request[r] /\ Shape(q) /\ Knows(q)
  BY <1>1, AloneWithAdvisory, AtWork
<1> DEFINE t == q.target
<1>3. Spares(q) /\ t \in Member /\ q.update \in Update \cup [status : {"revoked"}]
  BY <1>1, <1>2, AloneWithAdvisory DEF Knows, Handled
<1>4. DataTypes
  BY DEF MembershipInv, MembershipTypes
<1>5. PICK new \in Membership : new = Wanted(q)
  BY <1>3, <1>4, Merging DEF Wanted, DataTypes
<1>6. new.user = member[t].user
  BY <1>3, <1>4, <1>5, Merging DEF Wanted, DataTypes
<1>7. /\ member' = [member EXCEPT ![t] = new] /\ UNCHANGED <<account, begun, events>>
      /\ EndSessions(t)
      /\ IF new.status # "approved" THEN RevokeKeys(t) ELSE RevokeKeys(t) \/ UNCHANGED keys
      /\ entry' = Reviewed(q, new.status) \/ entry' = entry
  <2>1. CASE CommitChange(r)
    BY <1>2, <1>5, <2>1 DEF CommitChange, Done
  <2>2. CASE CommitDelete(r)
    BY <1>2, <1>5, <2>2 DEF CommitDelete, Done
  <2> QED BY <2>1, <2>2
<1>8. session' \subseteq session /\ cookie' \subseteq cookie /\ t \notin session'
  BY <1>7 DEF EndSessions
<1>9. /\ keys' \in [Member -> Keys]
      /\ \A m \in Member \ {t} : keys'[m] = keys[m]
      /\ new.status # "approved" /\ new.user => keys'[t] = NoKeys
  <2>1. NoKeys \in Keys /\ keys \in [Member -> Keys]
    BY <1>4 DEF DataTypes, Keys, NoKeys
  <2>2. \/ keys' = keys
        \/ keys' = [keys EXCEPT ![t] = NoKeys]
    BY <1>7 DEF RevokeKeys
  <2>3. new.status # "approved" /\ new.user => keys' = [keys EXCEPT ![t] = NoKeys]
    BY <1>6, <1>7 DEF RevokeKeys
  <2> QED BY <1>3, <2>1, <2>2, <2>3
<1>10. DataTypes'
  <2>1. entry' \in [Member -> Entry]
    BY <1>4, <1>7, ReviewedIs DEF Membership, DataTypes
  <2> QED BY <1>3, <1>4, <1>7, <1>8, <1>9, <2>1 DEF DataTypes
<1>11. \A m \in Member : member'[m] = IF m = t THEN new ELSE member[m]
  BY <1>3, <1>4, <1>7 DEF DataTypes
<1>12. RevokedHasNothing'
  BY <1>8, <1>9, <1>11 DEF MembershipInv, RevokedHasNothing, NoKeys
<1>13. AdministratorRemains'
  <2>1. PICK o \in Member : Administers(o)
    BY DEF MembershipInv, AdministratorRemains
  <2>2. CASE o # t
    BY <1>11, <2>1, <2>2 DEF AdministratorRemains, Administers
  <2>3. CASE o = t /\ new.role = "admin" /\ new.status = "approved"
    BY <1>6, <1>11, <2>1, <2>3 DEF AdministratorRemains, Administers
  <2>4. CASE o = t /\ (new.role # "admin" \/ new.status # "approved")
    BY <1>3, <1>5, <1>11, <2>1, <2>4 DEF AdministratorRemains, Administers, Spares
  <2> QED BY <2>2, <2>3, <2>4
<1>14. \A p \in Active \ {r}, k \in Handled : k = request[p] => Knows(k)'
  BY <1>1, <1>2, <1>7, OthersWithoutAdvisory
<1> QED BY <1>1, <1>10, <1>12, <1>13, <1>14, Commit

\* An invitation commits.
LEMMA CommitInviteStep == ASSUME MembershipInv, NEW r \in Request, CommitInvite(r) PROVE MembershipInv'
<1>1. /\ request[r].kind = "invite" /\ request[r].todo = <<>>
      /\ request' = [request EXCEPT ![r] = Idle]
  BY DEF CommitInvite, Ready, Done
<1>2. PICK q \in Handled : q = request[r] /\ Shape(q) /\ Knows(q)
  BY <1>1, AloneWithAdvisory, AtWork
<1> DEFINE t == q.target
<1>3. t \in Member /\ q.update \in Update /\ member[t].status = "none"
  BY <1>1, <1>2, AloneWithAdvisory DEF Knows, Handled
<1>4. DataTypes
  BY DEF MembershipInv, MembershipTypes
<1>5. PICK old \in Membership : old = [member[t] EXCEPT !.status = "pending"] /\ old.user = member[t].user
  <2>1. member[t] \in Membership
    BY <1>3, <1>4 DEF DataTypes
  <2>2. [member[t] EXCEPT !.status = "pending"] \in Membership
    BY <2>1 DEF Membership
  <2>3. [member[t] EXCEPT !.status = "pending"].user = member[t].user
    BY <2>1 DEF Membership
  <2> QED BY <2>2, <2>3
<1>6. PICK new \in Membership : new = Merged(q.update, old) /\ new.user = member[t].user
  <2>1. q.update \in Update \cup [status : {"revoked"}]
    BY <1>3
  <2>2. Merged(q.update, old) \in Membership /\ Merged(q.update, old).user = old.user
    BY <2>1, Merging
  <2> QED BY <1>5, <2>2
<1>7. /\ member' = [member EXCEPT ![t] = new] /\ entry' = Reviewed(q, new.status)
      /\ UNCHANGED <<account, session, cookie, keys, begun, events>>
  BY <1>2, <1>5, <1>6 DEF CommitInvite, Done
<1>8. DataTypes'
  <2>1. entry' \in [Member -> Entry]
    BY <1>4, <1>7, ReviewedIs DEF Membership
  <2> QED BY <1>3, <1>4, <1>7, <2>1 DEF DataTypes
<1>9. \A m \in Member : member'[m] = IF m = t THEN new ELSE member[m]
  BY <1>3, <1>4, <1>7 DEF DataTypes
<1>10. RevokedHasNothing'
  BY <1>3, <1>6, <1>7, <1>9 DEF MembershipInv, RevokedHasNothing
<1>11. AdministratorRemains'
  BY <1>3, <1>9 DEF MembershipInv, AdministratorRemains, Administers
<1>12. \A p \in Active \ {r}, k \in Handled : k = request[p] => Knows(k)'
  BY <1>1, <1>2, <1>7, OthersWithoutAdvisory
<1> QED BY <1>1, <1>8, <1>10, <1>11, <1>12, Commit

\* The first use makes a member's project and changes nothing else.
LEMMA ProjectIs ==
    ASSUME DataTypes, NEW m \in Member
    PROVE  /\ Project(m) \in Membership /\ Project(m).status = member[m].status
           /\ Project(m).role = member[m].role /\ Project(m).user = member[m].user
<1>1. member[m] \in Membership
  BY DEF DataTypes
<1> QED BY <1>1 DEF Project, Membership

\* A commit that leaves roles, statuses and links alone.
LEMMA SteadyCommit ==
    ASSUME MembershipInv, DataTypes', NEW r \in Request, Done(r), RevokedHasNothing',
           \A m \in Member : /\ member'[m].status = member[m].status
                             /\ member'[m].role = member[m].role
                             /\ member[m].user => member'[m].user
    PROVE  MembershipInv'
BY Steady, Commit DEF Done

\* A commit that writes neither a link, a status, a session nor a key.
LEMMA CommitAccountStep ==
    ASSUME MembershipInv, NEW r \in Request,
           CommitEnable(r) \/ CommitPermit(r) \/ CommitReject(r) \/ CommitAudit(r) \/ CommitApply(r)
    PROVE  MembershipInv'
<1>1. DataTypes /\ Done(r) /\ UNCHANGED <<begun, events>>
  BY DEF MembershipInv, MembershipTypes, CommitEnable, CommitPermit, CommitReject, CommitAudit, CommitApply, Done
<1>2. PICK q \in Handled : q = request[r] /\ Knows(q)
  BY AtWork DEF CommitEnable, CommitPermit, CommitReject, CommitAudit, CommitApply, Ready, Active
<1>3. PICK t \in Member : t = q.target
  BY DEF Handled
<1>4. /\ UNCHANGED <<session, cookie, keys>> /\ account' \in [Member -> Account] /\ entry' \in [Member -> Entry]
      /\ member' = member \/ member' = [member EXCEPT ![t] = Project(t)]
  <2>1. CASE CommitEnable(r)
    BY <1>1, <1>2, <1>3, <2>1 DEF CommitEnable, DataTypes, Account
  <2>2. CASE CommitPermit(r)
    BY <1>1, <1>2, <1>3, <2>2 DEF CommitPermit, DataTypes, Account, Knows, Ready
  <2>3. CASE CommitReject(r)
    BY <1>1, <1>2, <1>3, <2>3 DEF CommitReject, DataTypes, Entry
  <2>4. CASE CommitAudit(r)
    BY <1>1, <2>4 DEF CommitAudit, data, DataTypes
  <2>5. CASE CommitApply(r)
    BY <1>1, <1>2, <1>3, <2>5 DEF CommitApply, DataTypes, Entry
  <2> QED BY <2>1, <2>2, <2>3, <2>4, <2>5
<1>5. /\ member' \in [Member -> Membership]
      /\ \A m \in Member : /\ member'[m].status = member[m].status /\ member'[m].role = member[m].role
                           /\ member'[m].user = member[m].user
  BY <1>1, <1>3, <1>4, ProjectIs DEF DataTypes
<1>6. DataTypes'
  BY <1>1, <1>4, <1>5 DEF DataTypes
<1>7. RevokedHasNothing'
  BY <1>4, <1>5 DEF MembershipInv, RevokedHasNothing
<1> QED BY <1>1, <1>5, <1>6, <1>7, SteadyCommit

\* What a member's own request has locked lets it find the member approved.
LEMMA ApprovedUnderLock ==
    ASSUME MembershipInv, NEW r \in Request, request[r].todo = <<>>,
           request[r].kind \in {"create", "execute", "signin"}
    PROVE  r \in Active /\ request[r].actor \in Member /\ member[request[r].actor].status = "approved"
<1>1. r \in Active
  BY DEF Active
<1>2. PICK q \in Handled : q = request[r] /\ Shape(q) /\ Knows(q)
  BY <1>1, AtWork
<1>3. q.kind \in {"create", "execute", "signin"} /\ q.todo = <<>>
  BY <1>2
<1>4. Row(q.actor) \in q.held
  BY <1>2, <1>3, NotEmpty DEF Shape, TwoLocks
<1> QED BY <1>1, <1>2, <1>3, <1>4 DEF Knows, Handled

\* A handler of API keys commits, under the row of the member and its user.
LEMMA CommitKeysStep ==
    ASSUME MembershipInv, NEW r \in Request, CommitCreate(r) \/ CommitForget(r) \/ CommitIssue(r)
    PROVE  MembershipInv'
<1>1. DataTypes /\ Done(r) /\ UNCHANGED <<account, entry, session, cookie, begun, events>>
  BY DEF MembershipInv, MembershipTypes, CommitCreate, CommitForget, CommitIssue, Done
<1>2. PICK q \in Handled : q = request[r] /\ Shape(q) /\ Knows(q)
  BY AtWork DEF CommitCreate, CommitForget, CommitIssue, Ready, Active
<1>3. q.actor \in Member /\ q.target \in Member /\ q.todo = <<>>
  BY <1>2 DEF Handled, CommitCreate, CommitForget, CommitIssue, Ready
<1>4. /\ member' \in [Member -> Membership] /\ keys' \in [Member -> Keys]
      /\ \A m \in Member : /\ member'[m].status = member[m].status /\ member'[m].role = member[m].role
                           /\ member'[m].user = member[m].user
      /\ \A m \in Member : /\ (keys'[m].external /\ ~keys[m].external) \/ (keys'[m].managed /\ ~keys[m].managed)
                                => ~member[m].user \/ member[m].status = "approved"
  <2>1. CASE CommitCreate(r)
    <3>1. /\ member' = [member EXCEPT ![q.actor] = Project(q.actor)]
          /\ keys' = [keys EXCEPT ![q.actor].external = TRUE]
          /\ member[q.actor].status = "approved"
      BY <1>2, <2>1, ApprovedUnderLock DEF CommitCreate, Ready
    <3> QED BY <1>1, <1>3, <3>1, ProjectIs DEF DataTypes, Keys
  <2>2. CASE CommitForget(r)
    BY <1>1, <1>2, <1>3, <2>2 DEF CommitForget, DataTypes, Keys
  <2>3. CASE CommitIssue(r)
    <3>1. /\ UNCHANGED member /\ q.kind = "issue"
          /\ keys' = IF member[q.target].user /\ ~q.seen.user THEN [keys EXCEPT ![q.target].stray = TRUE]
                     ELSE [keys EXCEPT ![q.target].external = TRUE]
      BY <1>2, <2>3 DEF CommitIssue, Ready
    <3>2. q.seen.user => member[q.target].status = "approved"
      <4>1. q.seen.user => Row(q.target) \in q.held
        BY <1>2, <1>3, <3>1, NotEmpty DEF Shape, TwoLocks
      <4> QED BY <1>2, <3>1, <4>1 DEF Knows
    <3>3. CASE member[q.target].user /\ ~q.seen.user
      BY <1>1, <1>3, <3>1, <3>3 DEF DataTypes, Keys
    <3>4. CASE ~(member[q.target].user /\ ~q.seen.user)
      BY <1>1, <1>3, <3>1, <3>2, <3>4 DEF DataTypes, Keys
    <3> QED BY <3>3, <3>4
  <2> QED BY <2>1, <2>2, <2>3
<1>5. DataTypes'
  BY <1>1, <1>4 DEF DataTypes
<1>6. RevokedHasNothing'
  BY <1>1, <1>4 DEF MembershipInv, RevokedHasNothing
<1> QED BY <1>1, <1>4, <1>5, <1>6, SteadyCommit

\* A sign-in commits: the member is approved as long as its row is locked.
LEMMA CommitSignInStep == ASSUME MembershipInv, NEW r \in Request, CommitSignIn(r) PROVE MembershipInv'
<1>1. DataTypes /\ Done(r) /\ UNCHANGED <<entry, cookie, keys, begun, events>>
  BY DEF MembershipInv, MembershipTypes, CommitSignIn, Done
<1>2. PICK m \in Member : m = request[r].actor /\ member[m].status = "approved"
  BY ApprovedUnderLock DEF CommitSignIn, Ready
<1>3. PICK api \in {"off", "on"} : api = IF account[m] = "none" THEN "on" ELSE account[m]
  BY <1>1 DEF DataTypes, Account
<1>4. PICK new \in Membership : /\ new = [IF api = "on" THEN Project(m) ELSE member[m] EXCEPT !.user = TRUE]
                                /\ new.status = member[m].status /\ new.role = member[m].role /\ new.user
  <2>1. PICK old \in Membership : /\ old = IF api = "on" THEN Project(m) ELSE member[m]
                                  /\ old.status = member[m].status /\ old.role = member[m].role
    BY <1>1, ProjectIs DEF DataTypes
  <2>2. [old EXCEPT !.user = TRUE] \in Membership
    BY DEF Membership
  <2>3. LET n == [old EXCEPT !.user = TRUE] IN n.status = old.status /\ n.role = old.role /\ n.user
    BY DEF Membership
  <2> QED BY <2>1, <2>2, <2>3
<1>5. /\ account' = [account EXCEPT ![m] = api]
      /\ member' = [member EXCEPT ![m] = new]
      /\ session' = session \cup {m}
  BY <1>1, <1>2, <1>3, <1>4 DEF CommitSignIn, DataTypes
<1>6. DataTypes'
  BY <1>1, <1>5 DEF DataTypes, Account
<1>7. \A k \in Member : /\ member'[k].status = member[k].status
                        /\ member'[k].role = member[k].role
                        /\ member[k].user => member'[k].user
                        /\ k # m => member'[k] = member[k]
  BY <1>1, <1>4, <1>5 DEF DataTypes
<1>8. RevokedHasNothing'
  BY <1>1, <1>2, <1>5, <1>7 DEF MembershipInv, RevokedHasNothing
<1> QED BY <1>1, <1>6, <1>7, <1>8, SteadyCommit

\* The two commits that keep the request: the operation is still to be called, or recorded.
LEMMA CommitCallStep ==
    ASSUME MembershipInv, NEW r \in Request, CommitExecute(r) \/ CallUpstream(r) PROVE MembershipInv'
<1>1. DataTypes /\ UNCHANGED <<account, entry, session, cookie, begun, events>>
  BY DEF MembershipInv, MembershipTypes, CommitExecute, CallUpstream, data
<1>2. PICK q \in Handled : q = request[r] /\ Shape(q) /\ Knows(q) /\ r \in Active
  BY AtWork DEF CommitExecute, CallUpstream, Ready, Active
<1>3. PICK m \in Member : m = q.actor
  BY DEF Handled
<1>4. q.todo = <<>> /\ <<>> \in Seq(Lock) /\ <<Ref(m)>> \in Seq(Lock)
  BY <1>2, LockNames, Pairs DEF CommitExecute, CallUpstream, Ready
<1>5. /\ member' \in [Member -> Membership] /\ keys' \in [Member -> Keys]
      /\ \A k \in Member : /\ member'[k].status = member[k].status /\ member'[k].role = member[k].role
                           /\ member'[k].user = member[k].user
      /\ \A k \in Member : /\ keys'[k].external = keys[k].external
                           /\ keys'[k].managed /\ ~keys[k].managed => member[k].status = "approved"
  <2>1. CASE CommitExecute(r)
    <3>1. /\ member' = [member EXCEPT ![m] = Project(m)] /\ keys' = [keys EXCEPT ![m].managed = TRUE]
          /\ member[m].status = "approved"
      BY <1>2, <1>3, <2>1, ApprovedUnderLock DEF CommitExecute, Ready
    <3> QED BY <1>1, <3>1, ProjectIs DEF DataTypes, Keys
  <2>2. CASE CallUpstream(r)
    BY <1>1, <2>2 DEF CallUpstream, data, DataTypes
  <2> QED BY <2>1, <2>2
<1>6. DataTypes'
  BY <1>1, <1>5 DEF DataTypes
<1>7. RevokedHasNothing'
  BY <1>1, <1>5 DEF MembershipInv, RevokedHasNothing
<1>8. AdministratorRemains' /\ \A p \in Active, k \in Handled : k = request[p] => Knows(k)'
  BY <1>5, <1>6, Steady
<1>9. PICK w \in Handled : /\ request' = [request EXCEPT ![r] = w]
                           /\ w.held = {} /\ Shape(w) /\ w.kind \in {"call", "audit"}
  <2>1. CASE CommitExecute(r)
    <3>1. PICK w \in Handled : w = [q EXCEPT !.kind = "call", !.held = {}]
      BY DEF Handled, Kind
    <3>2. w.kind = "call" /\ w.held = {} /\ w.todo = <<>>
      BY <1>4, <3>1 DEF Handled
    <3>3. Shape(w)
      BY <3>2 DEF Shape
    <3>4. request' = [request EXCEPT ![r] = w]
      BY <1>2, <2>1, <3>1 DEF CommitExecute, MembershipInv, MembershipTypes
    <3> QED BY <3>2, <3>3, <3>4
  <2>2. CASE CallUpstream(r)
    <3>1. First("audit", m, m) = <<Ref(m)>> /\ [served |-> Serves(m)] \in Asked
      <4>1. Serves(m) \in BOOLEAN
        BY <1>1 DEF Serves, Live, DataTypes, Keys, Membership
      <4> QED BY <4>1 DEF First, Asked
    <3>2. PICK w \in Handled : w = [q EXCEPT !.kind = "audit", !.todo = First("audit", m, m),
                                             !.update = [served |-> Serves(m)]]
      BY <1>4, <3>1 DEF Handled, Kind
    <3>3. w.kind = "audit" /\ w.held = {} /\ w.todo = <<Ref(m)>> /\ w.actor = m
      BY <1>2, <1>3, <2>2, <3>1, <3>2 DEF Handled, CallUpstream, Ready, Shape
    <3>4. Shape(w)
      BY <3>3 DEF Shape, OneLock
    <3>5. request' = [request EXCEPT ![r] = w]
      BY <1>2, <1>3, <2>2, <3>2 DEF CallUpstream, MembershipInv, MembershipTypes
    <3> QED BY <3>3, <3>4, <3>5
  <2> QED BY <2>1, <2>2
<1>10. Knows(w)'
  BY <1>9 DEF Knows
<1>11. Exclusive'
  BY <1>9, ExclusiveKept DEF MembershipInv
<1> QED BY <1>6, <1>7, <1>8, <1>9, <1>10, <1>11, HandlersFrame

\* What happens outside of the handlers.
LEMMA EventsStep == ASSUME MembershipInv, NEW m \in Member, Events(m) PROVE MembershipInv'
<1>1. DataTypes /\ Happens /\ UNCHANGED <<request, begun>> /\ events' \in 0 .. MaxEvents
  BY BoundsAssumption DEF MembershipInv, MembershipTypes, DataTypes, Happens, Events, VerifyEntry, Expire,
     EndSession, LegacyLogin, ToggleProject, RevokeApiKey, LinkLegacyKey
<1>2. /\ DataTypes'
      /\ \A k \in Member : /\ member'[k].status = member[k].status /\ member'[k].role = member[k].role
                           /\ member'[k].user = member[k].user
      /\ session' \subseteq session
      /\ \A k \in Member : /\ keys'[k].external => keys[k].external \/ ~Barred(k)
                           /\ keys'[k].managed => keys[k].managed
  <2>1. CASE VerifyEntry(m)
    BY <1>1, <2>1 DEF VerifyEntry, DataTypes, Entry
  <2>2. CASE Expire(m)
    <3>1. member[m] \in Membership /\ member' = [member EXCEPT ![m].expires = "past"]
      BY <1>1, <2>2 DEF Expire, DataTypes
    <3> QED BY <1>1, <2>2, <3>1 DEF Expire, DataTypes, Membership
  <2>3. CASE EndSession(m)
    BY <1>1, <2>3 DEF EndSession, DataTypes
  <2>4. CASE LegacyLogin(m)
    BY <1>1, <2>4 DEF LegacyLogin, DataTypes, Account
  <2>5. CASE ToggleProject(m)
    <3>1. /\ member[m] \in Membership
          /\ member' = [member EXCEPT ![m].project = IF @ = "on" THEN "off" ELSE "on"]
      BY <1>1, <2>5 DEF ToggleProject, DataTypes
    <3> QED BY <1>1, <2>5, <3>1 DEF ToggleProject, DataTypes, Membership
  <2>6. CASE RevokeApiKey(m)
    BY <1>1, <2>6, ZenonT(30) DEF RevokeApiKey, DataTypes, Keys
  <2>7. CASE LinkLegacyKey(m)
    <3>1. CASE Barred(m)
      BY <1>1, <2>7, <3>1, ZenonT(30) DEF LinkLegacyKey, DataTypes, Keys
    <3>2. CASE ~Barred(m)
      BY <1>1, <2>7, <3>2, ZenonT(30) DEF LinkLegacyKey, DataTypes, Keys
    <3> QED BY <3>1, <3>2
  <2> QED BY <2>1, <2>2, <2>3, <2>4, <2>5, <2>6, <2>7 DEF Events
<1>3. RevokedHasNothing'
  BY <1>2 DEF MembershipInv, RevokedHasNothing, Barred
<1> QED BY <1>1, <1>2, <1>3, Event

\* The states that the checks begin with.
LEMMA MembershipInitInv == Init => MembershipInv
<1> SUFFICES ASSUME Init PROVE MembershipInv
  OBVIOUS
<1>1. PICK d \in Start : /\ member = d.member /\ account = d.account /\ entry = d.entry
                         /\ session = d.session /\ cookie = d.cookie /\ keys = d.keys
  BY DEF Init
<1>2. request = [r \in Request |-> Idle] /\ begun = 0 /\ events = 0 /\ Active = {}
  BY DEF Init, Active, Idle
<1>3. DataTypes
  BY <1>1, <1>2, StartAssumption, BoundsAssumption DEF DataTypes
<1>4. RevokedHasNothing /\ AdministratorRemains
  BY <1>1, StartAssumption DEF RevokedHasNothing, AdministratorRemains, Administers
<1> QED BY <1>2, <1>3, <1>4 DEF MembershipInv, MembershipTypes, Exclusive, HandlersInv

\* Every step preserves the invariant.
LEMMA MembershipStepInv == MembershipInv /\ [Next]_vars => MembershipInv'
<1> SUFFICES ASSUME MembershipInv, [Next]_vars PROVE MembershipInv'
  OBVIOUS
<1>1. ASSUME NEW r \in Request, Begins(r) PROVE MembershipInv'
  BY <1>1, BeginsStep
<1>2. ASSUME NEW r \in Request, Grant(r) PROVE MembershipInv'
  BY <1>2, GrantStep
<1>3. ASSUME NEW r \in Request, Abort(r) PROVE MembershipInv'
  BY <1>3, AbortStep
<1>4. ASSUME NEW r \in Request, Commits(r) PROVE MembershipInv'
  <2>1. CASE CommitChange(r) \/ CommitDelete(r)
    BY <2>1, CommitChangeStep
  <2>2. CASE CommitInvite(r)
    BY <2>2, CommitInviteStep
  <2>3. CASE CommitEnable(r) \/ CommitPermit(r) \/ CommitReject(r) \/ CommitAudit(r) \/ CommitApply(r)
    BY <2>3, CommitAccountStep
  <2>4. CASE CommitCreate(r) \/ CommitForget(r) \/ CommitIssue(r)
    BY <2>4, CommitKeysStep
  <2>5. CASE CommitSignIn(r)
    BY <2>5, CommitSignInStep
  <2>6. CASE CommitExecute(r) \/ CallUpstream(r)
    BY <2>6, CommitCallStep
  <2> QED BY <1>4, <2>1, <2>2, <2>3, <2>4, <2>5, <2>6 DEF Commits
<1>5. ASSUME NEW m \in Member, Events(m) PROVE MembershipInv'
  BY <1>5, EventsStep
<1>6. CASE UNCHANGED vars
  <2>1. UNCHANGED request /\ \A m \in Member : member'[m] = member[m]
    BY <1>6 DEF vars
  <2>2. DataTypes' /\ RevokedHasNothing'
    BY <1>6 DEF vars, DataTypes, RevokedHasNothing, MembershipInv, MembershipTypes
  <2> QED BY <2>1, <2>2, Event
<1> QED BY <1>1, <1>2, <1>3, <1>4, <1>5, <1>6 DEF Next

\* Every reachable state satisfies the invariant.
THEOREM MembershipInvariance == Spec => []MembershipInv
BY MembershipInitInv, MembershipStepInv, PTL DEF Spec

\* The variables have their types.
THEOREM MembershipTypeCorrect == Spec => []TypeOK
<1>1. MembershipInv => TypeOK
  <2> SUFFICES ASSUME MembershipInv PROVE TypeOK
    OBVIOUS
  <2>1. ASSUME NEW r \in Active
        PROVE  /\ request[r].kind \in Kind /\ request[r].held \subseteq Lock
               /\ \A i \in DOMAIN request[r].todo : request[r].todo[i] \in Lock
    <3>1. request[r] \in Handled
      BY AtWork
    <3> QED BY <3>1 DEF Handled
  <2> QED BY <2>1 DEF MembershipInv, MembershipTypes, DataTypes, TypeOK
<1> QED BY <1>1, MembershipInvariance, PTL

\* Whoever is no longer approved has neither a session nor an active key.
THEOREM RevokedLosesAll == Spec => []RevokedHasNothing
<1>1. MembershipInv => RevokedHasNothing
  BY DEF MembershipInv
<1> QED BY <1>1, MembershipInvariance, PTL

\* The dashboard always has an administrator.
THEOREM AnAdministratorRemains == Spec => []AdministratorRemains
<1>1. MembershipInv => AdministratorRemains
  BY DEF MembershipInv
<1> QED BY <1>1, MembershipInvariance, PTL

\* The order of the locks: what a handler that still waits may hold.
LEMMA LockOrder ==
    ASSUME NEW q \in Handled, Shape(q), q.kind \notin {"enable", "reject"}, q.todo # <<>>,
           NEW m \in Member
    PROVE  LET x == Head(q.todo)
           IN /\ User(m) \notin q.held
              /\ EntryRow(m) \in q.held => \E n \in Member : x = User(n)
              /\ Ref(m) \in q.held => \E n \in Member : x = User(n)
              /\ Row(m) \in q.held => Advisory \in q.held \/ \E n \in Member : x = User(n)
              /\ Advisory \in q.held => \E n \in Member : x \in {Row(n), EntryRow(n), User(n)}
<1> DEFINE a == q.actor
           t == q.target
           x == Head(q.todo)
<1>1. a \in Member /\ t \in Member
  BY DEF Handled
<1>2. {Advisory, Row(a), Row(t), EntryRow(t), User(t), User(a), Ref(a)} \subseteq Lock
  BY <1>1, LockNames
<1>3. \A y, z, u \in Lock : /\ Head(<<y>>) = y /\ Head(<<y, z>>) = y /\ Head(<<y, z, u>>) = y
  BY Tuples
<1>4. CASE q.held = {}
  BY <1>4
<1>5. CASE q.held # {} /\ q.kind \in {"change", "delete"}
  <2>1. \/ q.todo = <<Row(t)>> /\ q.held = {Advisory, Row(a)}
        \/ /\ q.todo = <<EntryRow(t), User(t)>> \/ q.todo = <<EntryRow(t)>>
           /\ q.held = {Advisory, Row(a), Row(t)}
        \/ q.todo = <<User(t)>> /\ User(t) \notin q.held /\ Advisory \in q.held
           /\ q.held \subseteq {Advisory, Row(a), Row(t), EntryRow(t)}
        \/ q.todo = <<Row(a), Row(t)>> /\ q.held = {Advisory}
    BY <1>5 DEF Shape, ChangeShape
  <2>2. CASE q.todo = <<User(t)>> /\ User(t) \notin q.held /\ Advisory \in q.held
             /\ q.held \subseteq {Advisory, Row(a), Row(t), EntryRow(t)}
    BY <1>1, <1>2, <1>3, <2>2, LockNames
  <2>3. CASE \/ q.todo = <<Row(t)>> /\ q.held = {Advisory, Row(a)}
             \/ q.todo = <<Row(a), Row(t)>> /\ q.held = {Advisory}
    BY <1>1, <1>2, <1>3, <2>3, LockNames
  <2>4. CASE /\ q.todo = <<EntryRow(t), User(t)>> \/ q.todo = <<EntryRow(t)>>
             /\ q.held = {Advisory, Row(a), Row(t)}
    BY <1>1, <1>2, <1>3, <2>4, LockNames
  <2> QED BY <2>1, <2>2, <2>3, <2>4
<1>6. CASE q.held # {} /\ q.kind = "invite"
  <2>1. \/ q.todo = <<Row(a)>> /\ q.held = {Advisory}
        \/ q.todo = <<EntryRow(t)>> /\ q.held = {Advisory, Row(a)}
    BY <1>6 DEF Shape, InviteShape
  <2> QED BY <1>1, <1>2, <1>3, <2>1, LockNames
<1>7. CASE q.held # {} /\ q.kind \notin {"change", "delete", "invite"}
  <2>1. \/ q.todo = <<User(a)>> /\ q.held = {Row(a)}
        \/ q.todo = <<User(t)>> /\ q.held \in {{Row(t)}, {Ref(a)}}
    BY <1>7 DEF Shape, OneLock, TwoLocks, Handled, Kind
  <2> QED BY <1>1, <1>2, <1>3, <2>1, LockNames
<1> QED BY <1>4, <1>5, <1>6, <1>7

\* Handlers wait for each other in a circle only if one writes its audit row too late.
LEMMA LockOrderPreventsDeadlock == MembershipInv => OnlyLateAuditsDeadlock
<1> SUFFICES ASSUME MembershipInv, NEW S \in SUBSET Active, Circle(S),
                    \A r \in S : request[r].kind \notin {"enable", "reject"}
             PROVE  FALSE
  BY DEF OnlyLateAuditsDeadlock
<1> DEFINE Wanting(r) == Head(request[r].todo)
<1>1. ASSUME NEW r \in S
      PROVE  /\ request[r] \in Handled /\ Shape(request[r]) /\ request[r].todo # <<>>
             /\ request[r].kind \notin {"enable", "reject"} /\ Wanting(r) \in Lock
             /\ \E p \in S \ {r} : \E y \in request[p].held : y \in Lock /\ Conflict(y, Wanting(r))
  <2>1. request[r] \in Handled /\ Shape(request[r]) /\ request[r].todo # <<>>
    BY AtWork DEF Circle, Waits
  <2>2. Wanting(r) \in Lock
    BY <2>1, HeadTailProperties DEF Handled
  <2>3. PICK p \in S \ {r} : \E y \in request[p].held : Conflict(y, Wanting(r))
    BY DEF Circle, Blocks, Held
  <2>4. request[p].held \subseteq Lock
    BY AtWork DEF Handled
  <2> QED BY <2>1, <2>2, <2>3, <2>4
<1>2. ASSUME NEW r \in S, NEW m \in Member
      PROVE  /\ User(m) \notin request[r].held
             /\ EntryRow(m) \in request[r].held => \E n \in Member : Wanting(r) = User(n)
             /\ Ref(m) \in request[r].held => \E n \in Member : Wanting(r) = User(n)
             /\ Row(m) \in request[r].held =>
                    Advisory \in request[r].held \/ \E n \in Member : Wanting(r) = User(n)
             /\ Advisory \in request[r].held =>
                    \E n \in Member : Wanting(r) \in {Row(n), EntryRow(n), User(n)}
  BY <1>1, LockOrder
<1> HIDE DEF Wanting
<1>3. ASSUME NEW r \in S, NEW m \in Member, Wanting(r) = User(m) PROVE FALSE
  BY <1>1, <1>2, <1>3, ConflictIs
<1>4. ASSUME NEW r \in S, NEW m \in Member, Wanting(r) = EntryRow(m) PROVE FALSE
  BY <1>1, <1>2, <1>3, <1>4, ConflictIs
<1>5. \A p, r \in S : p # r => ~(Advisory \in request[p].held /\ Advisory \in request[r].held)
  BY Clash DEF MembershipInv, Exclusive, Held
<1>6. ASSUME NEW r \in S, NEW m \in Member, Wanting(r) = Row(m) \/ Wanting(r) = Ref(m)
      PROVE  \E p \in S \ {r} : Advisory \in request[p].held
  <2>1. PICK p \in S \ {r} : \E y \in request[p].held : y \in Lock /\ Conflict(y, Wanting(r))
    BY <1>1
  <2>2. Row(m) \in request[p].held \/ Ref(m) \in request[p].held
    BY <1>6, <2>1, ConflictIs
  <2> QED BY <1>2, <1>3, <2>2
<1>7. ASSUME NEW r \in S, NEW m \in Member, Wanting(r) = Row(m) \/ Wanting(r) = Ref(m) PROVE FALSE
  <2>1. PICK p \in S \ {r} : Advisory \in request[p].held
    BY <1>6, <1>7
  <2>2. PICK n \in Member : Wanting(p) = Row(n)
    BY <1>2, <1>3, <1>4, <1>7, <2>1
  <2>3. PICK o \in S \ {p} : Advisory \in request[o].held
    BY <1>6, <2>2
  <2> QED BY <1>5, <2>1, <2>3
<1>8. ASSUME NEW r \in S, Wanting(r) = Advisory PROVE FALSE
  <2>1. PICK p \in S \ {r} : \E y \in request[p].held : y \in Lock /\ Conflict(y, Advisory)
    BY <1>1, <1>8
  <2>2. PICK m \in Member : m = request[p].actor
    BY <1>1 DEF Handled
  <2>3. Advisory \in request[p].held
    BY <2>1, <2>2, ConflictIs
  <2> QED BY <1>2, <1>3, <1>4, <1>7, <2>2, <2>3
<1>9. PICK r \in S : Wanting(r) \in Lock
  BY <1>1 DEF Circle
<1> QED BY <1>3, <1>4, <1>7, <1>8, <1>9 DEF Lock

\* The database has to break a circle only for enable_api_access and reject.
THEOREM DeadlocksAreLateAudits == Spec => []OnlyLateAuditsDeadlock
BY LockOrderPreventsDeadlock, MembershipInvariance, PTL
=============================================================================
