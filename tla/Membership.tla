----------------------------- MODULE Membership -----------------------------
(***************************************************************************)
(* Members of the dashboard, their sessions, their API keys, and the       *)
(* administrators who change them (app/api/v1/dashboard, app/services/     *)
(* dashboard.py, member_lifecycle.py, customer_keys.py, api_key_service).  *)
(*                                                                         *)
(* Every handler is one database transaction.  It takes its locks one by   *)
(* one, checks what it has just locked, and writes everything when it      *)
(* commits; a refusal, a crash, a lost client or the database's choice of  *)
(* a deadlock victim rolls it back.  What a handler reads without a lock   *)
(* is read at the step that takes the lock before it.  PostgreSQL runs at  *)
(* READ COMMITTED: a row lock that was waited for reads the row anew.      *)
(***************************************************************************)
EXTENDS Naturals, Sequences, FiniteSets

CONSTANTS
    Member,     \* one person each: a membership, a gateway account, a project
    Request,    \* handlers at work at the same time
    Update,     \* what administrators ask for: records with some of the fields
    Start,      \* the databases a run begins with
    MaxRequests,    \* requests of a run
    MaxEvents       \* other events of a run

VARIABLES
    member,     \* memberships: role, status, expires, user (linked), project
    account,    \* users.api_access_enabled, "none" without a row
    entry,      \* access_requests: status and email_verified
    session,    \* members with a live dashboard session
    cookie,     \* members with a cookie of the current session_version
    keys,       \* active keys of a member's apps: external, managed, stray
    request,    \* the transactions at work
    begun,      \* requests so far
    events      \* other events so far

vars == <<member, account, entry, session, cookie, keys, request, begun, events>>
data == <<member, account, entry, session, cookie, keys>>

Membership == [role : {"admin", "viewer"},
               status : {"none", "pending", "approved", "revoked"},
               expires : {"never", "later", "past"},
               user : BOOLEAN,
               project : {"none", "on", "off"}]
Account == {"none", "off", "on"}
Entry == [status : {"none", "pending", "approved", "closed"}, verified : BOOLEAN]
Keys == [external : BOOLEAN, managed : BOOLEAN, stray : BOOLEAN]
NoKeys == [external |-> FALSE, managed |-> FALSE, stray |-> FALSE]

(***************************************************************************)
(* Locks.  An insert that refers to a membership, as the audit row of the  *)
(* actor does, holds FOR KEY SHARE on it: two of these go together, but    *)
(* neither goes with the FOR UPDATE of a handler that locks the member.    *)
(***************************************************************************)
Advisory == <<"advisory">>
Row(m) == <<"row", m>>
Ref(m) == <<"ref", m>>
User(m) == <<"user", m>>
EntryRow(m) == <<"entry", m>>
Lock == {Advisory} \cup UNION {{Row(m), Ref(m), User(m), EntryRow(m)} : m \in Member}

Conflict(x, y) ==
    \/ x = y /\ x[1] # "ref"
    \/ {x[1], y[1]} = {"row", "ref"} /\ x[2] = y[2]

Kind == {"change", "delete", "invite", "enable", "permit", "reject", "create",
         "forget", "execute", "call", "audit", "signin", "issue", "apply"}
Idle == [kind |-> "idle"]
Active == {r \in Request : request[r].kind # "idle"}
Held(r) == request[r].held
Blocks(p, r) == \E x \in Held(p) : Conflict(x, Head(request[r].todo))
Waits(r) == /\ r \in Active
            /\ request[r].todo # <<>>
            /\ \E p \in Active \ {r} : Blocks(p, r)

Live(m) == member[m].status = "approved" /\ member[m].expires # "past"
\* What the dependency "member" reads before the handler runs.
Admitted(m) == m \in session /\ Live(m) /\ member[m].user
Administers(m) == member[m].role = "admin" /\ member[m].status = "approved" /\ member[m].user

\* lock_admin_change and lock_target; mutants: neither the advisory lock nor the
\* administrator's row, and the rows alone.
TargetOnly(actor, target) == <<Row(target)>>
RowsOnly(actor, target) == <<Row(actor), Row(target)>>
AdminLocks(actor, target) == <<Advisory, Row(actor), Row(target)>>

\* locked_member and ensure_project; mutant: the membership is not locked.
AccountOnly(m) == <<User(m)>>
MemberLocks(m) == <<Row(m), User(m)>>

(***************************************************************************)
(* The locks a handler is sure to take, and those that depend on what it   *)
(* reads when it has taken one.                                            *)
(***************************************************************************)
First(kind, actor, target) ==
    CASE kind \in {"change", "delete"} -> AdminLocks(actor, target)
      [] kind = "invite" -> <<Advisory, Row(actor)>>
      [] kind = "enable" -> <<Row(target)>>
      [] kind = "permit" -> <<Ref(actor), User(target)>>
      [] kind = "reject" -> <<EntryRow(target), Ref(actor)>>
      [] kind \in {"create", "execute", "signin"} -> MemberLocks(actor)
      [] kind = "forget" -> <<Row(actor)>>
      [] kind = "audit" -> <<Ref(actor)>>
      [] kind = "issue" -> IF member[target].user THEN <<Row(target), User(target)>>
                           ELSE <<User(target)>>
      [] kind = "apply" -> <<EntryRow(target)>>

Linked(q) == IF member[q.target].user THEN <<User(q.target)>> ELSE <<>>
Further(q, x) ==
    CASE q.kind = "change" /\ x = Row(q.target) ->
           (IF entry[q.target].status = "pending" THEN <<EntryRow(q.target)>> ELSE <<>>)
           \o Linked(q)
      [] q.kind = "delete" /\ x = Row(q.target) -> Linked(q)
      [] q.kind = "invite" /\ x = Row(q.actor) ->
           IF entry[q.target].status # "none" THEN <<EntryRow(q.target)>> ELSE <<>>
      [] q.kind = "enable" /\ x = Row(q.target) -> Linked(q) \o <<Ref(q.actor)>>
      [] OTHER -> <<>>

Merged(u, old) == [f \in DOMAIN old |-> IF f \in DOMAIN u THEN u[f] ELSE old[f]]
Wanted(q) == Merged(q.update, member[q.target])

\* lock_admin_change reads the administrator anew, under the lock.
StillAdministrator(m) == member[m].role = "admin" /\ Live(m)
\* protect_administrator: another one must be there.
AnotherAdministrator(m) == \E o \in Member \ {m} : Administers(o) /\ member[o].expires # "past"
Reduces(m, new) == /\ member[m].role = "admin"
                   /\ new.role # "admin" \/ new.status # "approved" \/ new.expires # "never"

ProjectServes(m) == account[m] = "on" /\ member[m].project # "off"

\* Whether the handler goes on when it has got the lock x.
Accepts(q, x) ==
    CASE q.kind \in {"change", "delete"} /\ x = Row(q.actor) -> StillAdministrator(q.actor)
      [] q.kind \in {"change", "delete"} /\ x = Row(q.target) ->
           /\ member[q.target].status # "none"
           /\ Reduces(q.target, Wanted(q)) => AnotherAdministrator(q.target)
           /\ q.kind = "change" /\ Wanted(q).status = "approved"
                => ~(entry[q.target].status = "pending" /\ ~entry[q.target].verified)
      [] q.kind = "invite" /\ x = Row(q.actor) ->
           /\ StillAdministrator(q.actor)
           /\ member[q.target].status = "none"
           /\ entry[q.target].status # "none" => entry[q.target].verified
      [] q.kind \in {"create", "execute", "signin", "forget"} /\ x = Row(q.actor) -> Live(q.actor)
      [] q.kind \in {"enable", "issue"} /\ x = Row(q.target) -> Live(q.target)
      [] q.kind \in {"create", "execute"} /\ x = User(q.actor) -> ProjectServes(q.actor)
      [] q.kind = "enable" /\ x = User(q.target) -> member[q.target].project # "off"
      [] q.kind = "signin" /\ x = User(q.actor) -> account[q.actor] = "on" => ProjectServes(q.actor)
      [] q.kind = "issue" /\ x = User(q.target) -> account[q.target] = "on"
      [] OTHER -> TRUE

-----------------------------------------------------------------------------
ASSUME BoundsAssumption == MaxRequests \in Nat /\ MaxEvents \in Nat

\* The API takes these values (MemberUpdate).
ASSUME UpdateAssumption ==
    \A u \in Update :
        /\ DOMAIN u \subseteq {"role", "status", "expires"}
        /\ "role" \in DOMAIN u => u.role \in {"admin", "viewer"}
        /\ "status" \in DOMAIN u => u.status \in {"pending", "approved", "revoked"}
        /\ "expires" \in DOMAIN u => u.expires \in {"never", "later", "past"}

\* A run begins with an administrator, and nobody else who has been revoked has a
\* session or a key.
ASSUME StartAssumption ==
    \A d \in Start :
        /\ d.member \in [Member -> Membership] /\ d.account \in [Member -> Account]
        /\ d.entry \in [Member -> Entry] /\ d.keys \in [Member -> Keys]
        /\ d.session \subseteq Member /\ d.cookie \subseteq Member
        /\ \E m \in Member : /\ d.member[m].role = "admin" /\ d.member[m].user
                              /\ d.member[m].status = "approved"
        /\ \A m \in Member : d.member[m].user /\ d.member[m].status # "approved"
              => m \notin d.session /\ ~d.keys[m].external /\ ~d.keys[m].managed

Init == /\ \E d \in Start : /\ member = d.member /\ account = d.account /\ entry = d.entry
                             /\ session = d.session /\ cookie = d.cookie /\ keys = d.keys
        /\ request = [r \in Request |-> Idle]
        /\ begun = 0
        /\ events = 0

Happens == events < MaxEvents /\ events' = events + 1 /\ UNCHANGED <<request, begun>>

Begin(r, kind, actor, target, update) ==
    /\ request[r] = Idle
    /\ begun < MaxRequests /\ begun' = begun + 1
    /\ request' = [request EXCEPT ![r] =
         [kind |-> kind, actor |-> actor, target |-> target, update |-> update,
          todo |-> First(kind, actor, target), held |-> {},
          seen |-> [entry |-> entry[target], user |-> member[target].user]]]
    /\ UNCHANGED <<data, events>>

\* An administrator's request; the role is the one "member" has read.
BeginAdmin(r) ==
    \E a \in Member, t \in Member :
        /\ Admitted(a) /\ member[a].role = "admin"
        /\ \/ a # t /\ \E u \in Update : \E k \in {"change", "invite"} : Begin(r, k, a, t, u)
           \/ a # t /\ Begin(r, "delete", a, t, [status |-> "revoked"])
           \/ account[t] # "none" /\ \E api \in {"off", "on"} : Begin(r, "permit", a, t, [api |-> api])
           \/ member[t].status # "none" /\ Begin(r, "enable", a, t, <<>>)
           \/ entry[t].status # "none" /\ Begin(r, "reject", a, t, <<>>)

\* A member's own request.
BeginMember(r) ==
    \E m \in Member, k \in {"create", "forget", "execute"} : Admitted(m) /\ Begin(r, k, m, m, <<>>)

\* The last step of a sign-in: Google has vouched for the person.
BeginSignIn(r) == \E m \in Member : member[m].status # "none" /\ Begin(r, "signin", m, m, <<>>)

\* A key issued by the gateway's own administration, and an access request.
BeginIssue(r) == \E m \in Member : account[m] # "none" /\ Begin(r, "issue", m, m, <<>>)
BeginApply(r) == \E m \in Member : Begin(r, "apply", m, m, <<>>)

-----------------------------------------------------------------------------
\* A free lock is taken; what the handler then reads may refuse the request.
Grant(r) ==
    /\ r \in Active
    /\ request[r].todo # <<>>
    /\ ~Waits(r)
    /\ LET q == request[r]
           x == Head(q.todo)
       IN request' = [request EXCEPT ![r] =
            IF Accepts(q, x)
            THEN [q EXCEPT !.todo = Tail(q.todo) \o Further(q, x), !.held = @ \cup {x},
                           !.seen.entry = IF x[1] = "row" THEN entry[q.target] ELSE @]
            ELSE Idle]
    /\ UNCHANGED <<data, begun, events>>

\* Any failure before the commit, the database's victim of a deadlock included.
Abort(r) == /\ r \in Active
            /\ request' = [request EXCEPT ![r] = Idle]
            /\ UNCHANGED <<data, begun, events>>

Ready(r, kind) == /\ request[r].kind = kind
                  /\ request[r].todo = <<>>
Done(r) == request' = [request EXCEPT ![r] = Idle] /\ UNCHANGED <<begun, events>>

\* invalidate_member
EndSessions(m) == /\ session' = session \ {m}
                  /\ cookie' = IF member[m].user THEN cookie \ {m} ELSE cookie
RevokeKeys(m) == keys' = IF member[m].user THEN [keys EXCEPT ![m] = NoKeys] ELSE keys

\* The access request gets the status of the membership, if that is not what
\* the handler has read in it.
Reviewed(q, status) ==
    LET new == IF status \in {"approved", "pending"} THEN status ELSE "closed"
    IN IF EntryRow(q.target) \in q.held /\ new # q.seen.entry.status
       THEN [entry EXCEPT ![q.target].status = new] ELSE entry

CommitChange(r) ==
    /\ Ready(r, "change")
    /\ LET t == request[r].target
           new == Wanted(request[r])
       IN /\ member' = [member EXCEPT ![t] = new]
          /\ entry' = Reviewed(request[r], new.status)
          /\ EndSessions(t)
          /\ IF new.status # "approved" \/ new.expires = "past"
             THEN RevokeKeys(t) ELSE UNCHANGED keys
    /\ Done(r)
    /\ UNCHANGED account

CommitDelete(r) ==
    /\ Ready(r, "delete")
    /\ LET t == request[r].target
       IN /\ member' = [member EXCEPT ![t] = Wanted(request[r])]
          /\ EndSessions(t)
          /\ RevokeKeys(t)
    /\ Done(r)
    /\ UNCHANGED <<account, entry>>

CommitInvite(r) ==
    /\ Ready(r, "invite")
    /\ LET t == request[r].target
           new == Merged(request[r].update, [member[t] EXCEPT !.status = "pending"])
       IN /\ member' = [member EXCEPT ![t] = new]
          /\ entry' = Reviewed(request[r], new.status)
    /\ Done(r)
    /\ UNCHANGED <<account, session, cookie, keys>>

\* ensure_project: the one project of a member is made at its first use.
Project(m) == [member[m] EXCEPT !.project = IF @ = "none" THEN "on" ELSE @]

CommitEnable(r) ==
    /\ Ready(r, "enable")
    /\ LET t == request[r].target
       IN IF member[t].user
          THEN /\ account' = [account EXCEPT ![t] = "on"]
               /\ member' = [member EXCEPT ![t] = Project(t)]
          ELSE UNCHANGED <<account, member>>
    /\ Done(r)
    /\ UNCHANGED <<entry, session, cookie, keys>>

CommitPermit(r) ==
    /\ Ready(r, "permit")
    /\ account' = [account EXCEPT ![request[r].target] = request[r].update.api]
    /\ Done(r)
    /\ UNCHANGED <<member, entry, session, cookie, keys>>

CommitReject(r) ==
    /\ Ready(r, "reject")
    /\ entry' = [entry EXCEPT ![request[r].target].status = "closed"]
    /\ Done(r)
    /\ UNCHANGED <<member, account, session, cookie, keys>>

CommitCreate(r) ==
    /\ Ready(r, "create")
    /\ LET m == request[r].actor
       IN /\ member' = [member EXCEPT ![m] = Project(m)]
          /\ keys' = [keys EXCEPT ![m].external = TRUE]
    /\ Done(r)
    /\ UNCHANGED <<account, entry, session, cookie>>

CommitForget(r) ==
    /\ Ready(r, "forget")
    /\ keys' = [keys EXCEPT ![request[r].actor].external = FALSE]
    /\ Done(r)
    /\ UNCHANGED <<member, account, entry, session, cookie>>

\* execution_credential, committed before the operation itself is called.
CommitExecute(r) ==
    /\ Ready(r, "execute")
    /\ LET m == request[r].actor
       IN /\ member' = [member EXCEPT ![m] = Project(m)]
          /\ keys' = [keys EXCEPT ![m].managed = TRUE]
          /\ request' = [request EXCEPT ![r].kind = "call", ![r].held = {}]
    /\ UNCHANGED <<account, entry, session, cookie, begun, events>>

\* The gateway serves the member's key in a transaction of its own: everything
\* is looked at anew.
Serves(m) == keys[m].managed /\ member[m].project = "on" /\ account[m] = "on" /\ Live(m)

\* The audit row with the status is a second transaction of the request.
CallUpstream(r) ==
    /\ Ready(r, "call")
    /\ LET m == request[r].actor
       IN request' = [request EXCEPT ![r].kind = "audit", ![r].todo = First("audit", m, m),
                                     ![r].update = [served |-> Serves(m)]]
    /\ UNCHANGED <<data, begun, events>>

CommitAudit(r) == Ready(r, "audit") /\ Done(r) /\ UNCHANGED data

\* establish: the gateway account is made or linked, and a session begins.
CommitSignIn(r) ==
    /\ Ready(r, "signin")
    /\ LET m == request[r].actor
           api == IF account[m] = "none" THEN "on" ELSE account[m]
       IN /\ account' = [account EXCEPT ![m] = api]
          /\ member' = [member EXCEPT ![m] = [IF api = "on" THEN Project(m) ELSE @
                                              EXCEPT !.user = TRUE]]
          /\ session' = session \cup {m}
    /\ Done(r)
    /\ UNCHANGED <<entry, cookie, keys>>

\* A key whose handler saw no membership, while one was linked, is a stray.
CommitIssue(r) ==
    /\ Ready(r, "issue")
    /\ LET m == request[r].target
       IN keys' = IF member[m].user /\ ~request[r].seen.user
                  THEN [keys EXCEPT ![m].stray = TRUE]
                  ELSE [keys EXCEPT ![m].external = TRUE]
    /\ Done(r)
    /\ UNCHANGED <<member, account, entry, session, cookie>>

\* access_request: the entry was read before its row was locked, and only the
\* columns that differ from what was read are written; a second insert fails.
CommitApply(r) ==
    /\ Ready(r, "apply")
    /\ LET t == request[r].target
           seen == request[r].seen.entry
       IN entry' = [entry EXCEPT ![t] =
            [status |-> CASE seen.status = "none" -> IF @.status = "none" THEN "pending" ELSE @.status
                          [] seen.status = "closed" -> "pending"
                          [] OTHER -> @.status,
             verified |-> IF seen.verified THEN FALSE ELSE @.verified]]
    /\ Done(r)
    /\ UNCHANGED <<member, account, session, cookie, keys>>

-----------------------------------------------------------------------------
\* verify: the code of an access request; its row may be locked.
VerifyEntry(m) ==
    /\ entry[m].status # "none"
    /\ ~\E p \in Active : EntryRow(m) \in Held(p)
    /\ entry' = [entry EXCEPT ![m].verified = TRUE]
    /\ Happens
    /\ UNCHANGED <<member, account, session, cookie, keys>>

\* The date of a membership passes; nothing is written.
Expire(m) == /\ member[m].expires = "later"
             /\ member' = [member EXCEPT ![m].expires = "past"]
             /\ Happens
             /\ UNCHANGED <<account, entry, session, cookie, keys>>

\* logout, or eight hours.
EndSession(m) == /\ m \in session
                 /\ session' = session \ {m}
                 /\ Happens
                 /\ UNCHANGED <<member, account, entry, cookie, keys>>

\* The gateway's own login: an account without API access when there is none,
\* and a cookie.  A cookie of a version that has passed is no cookie.
LegacyLogin(m) ==
    /\ account' = [account EXCEPT ![m] = IF @ = "none" THEN "off" ELSE @]
    /\ cookie' = cookie \cup {m}
    /\ Happens
    /\ UNCHANGED <<member, entry, session, keys>>

\* update_app and revoke_api_key take no lock beyond their own row.
ToggleProject(m) ==
    /\ member[m].project # "none"
    /\ member' = [member EXCEPT ![m].project = IF @ = "on" THEN "off" ELSE "on"]
    /\ Happens
    /\ UNCHANGED <<account, entry, session, cookie, keys>>

RevokeApiKey(m) ==
    /\ keys[m].external \/ keys[m].managed
    /\ \E k \in {"external", "managed"} : keys' = [keys EXCEPT ![m][k] = FALSE]
    /\ Happens
    /\ UNCHANGED <<member, account, entry, session, cookie>>

\* Apps of a linked member who is not approved.
Barred(m) == member[m].user /\ member[m].status # "approved"

\* link_legacy_key gives an active key of the time before the apps to an app, whoever
\* owns it: it locks nothing and looks at no membership, so that a barred member gets a
\* stray.  A link that commits between invalidate_member's update of the keys and its
\* commit is not seen by it, which is the same as a link after the commit.
LinkLegacyKey(m) ==
    /\ account[m] # "none"
    /\ keys' = IF Barred(m) THEN [keys EXCEPT ![m].stray = TRUE]
               ELSE [keys EXCEPT ![m].external = TRUE]
    /\ Happens
    /\ UNCHANGED <<member, account, entry, session, cookie>>

Begins(r) == BeginAdmin(r) \/ BeginMember(r) \/ BeginSignIn(r) \/ BeginIssue(r) \/ BeginApply(r)
Commits(r) == \/ CommitChange(r) \/ CommitDelete(r) \/ CommitInvite(r) \/ CommitEnable(r)
              \/ CommitPermit(r) \/ CommitReject(r) \/ CommitCreate(r) \/ CommitForget(r)
              \/ CommitExecute(r) \/ CallUpstream(r)
              \/ CommitAudit(r) \/ CommitSignIn(r) \/ CommitIssue(r) \/ CommitApply(r)
Events(m) == VerifyEntry(m) \/ Expire(m) \/ EndSession(m) \/ LegacyLogin(m)
             \/ ToggleProject(m) \/ RevokeApiKey(m) \/ LinkLegacyKey(m)

Next == \/ \E r \in Request : Begins(r) \/ Grant(r) \/ Commits(r) \/ Abort(r)
        \/ \E m \in Member : Events(m)

Spec == Init /\ [][Next]_vars

-----------------------------------------------------------------------------
TypeOK ==
    /\ member \in [Member -> Membership]
    /\ account \in [Member -> Account]
    /\ entry \in [Member -> Entry]
    /\ session \subseteq Member /\ cookie \subseteq Member
    /\ keys \in [Member -> Keys]
    /\ \A r \in Active : /\ request[r].kind \in Kind
                         /\ request[r].held \subseteq Lock
                         /\ \A i \in DOMAIN request[r].todo : request[r].todo[i] \in Lock
    /\ begun \in 0 .. MaxRequests /\ events \in 0 .. MaxEvents

(***************************************************************************)
(* Whoever is no longer approved has no session and no active key, however *)
(* sign-ins, new keys, executions and links of that member run into the    *)
(* change: a key that was linked before is revoked like the others.  The   *)
(* exceptions are a key whose handler had seen no membership, and a legacy *)
(* key that is linked to an app of a member who is not approved.           *)
(***************************************************************************)
RevokedHasNothing ==
    \A m \in Member : member[m].user /\ member[m].status # "approved"
        => m \notin session /\ ~keys[m].external /\ ~keys[m].managed

(***************************************************************************)
(* Administrators who reduce each other at the same time never leave the   *)
(* dashboard without one (dates apart: see the README).                    *)
(***************************************************************************)
AdministratorRemains == \E m \in Member : Administers(m)

(***************************************************************************)
(* Handlers that wait for each other in a circle: the database must kill   *)
(* one of them.  It takes a handler that writes its actor's audit row      *)
(* after it has locked someone else's row: enable_api_access or reject.    *)
(***************************************************************************)
Circle(S) == S # {} /\ \A r \in S : Waits(r) /\ \E p \in S \ {r} : Blocks(p, r)
OnlyLateAuditsDeadlock ==
    \A S \in SUBSET Active : Circle(S) => \E r \in S : request[r].kind \in {"enable", "reject"}
=============================================================================
